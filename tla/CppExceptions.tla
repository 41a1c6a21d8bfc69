---------------------------- MODULE CppExceptions ---------------------------
(***************************************************************************)
(* The exception runtime of rincrt (rincrt_bootstrap_v1.c): frames with    *)
(* the cleanups of the objects built under them, and the exception that is *)
(* current.  A thread runs the generated code, which is external: it tries,*)
(* builds and destroys objects, throws, and handles what it caught; the    *)
(* destructors the runtime calls are generated code again.                 *)
(*                                                                         *)
(* The stack of the thread is what it is in the middle of, outermost       *)
(* first: a try with its frame, a destructor, a throw that unwinds a       *)
(* frame, a handler.  A longjmp cuts it off.  Objects and exceptions are   *)
(* named by their addresses and built again after they died.               *)
(***************************************************************************)
EXTENDS Naturals, Sequences

CONSTANTS
  Things,          \* objects with a destructor
  Exceptions,      \* copies of thrown objects
  NoException,     \* 0
  MaxStack,        \* bound: what a thread is in the middle of
  QuietHandlers    \* TRUE: nothing but what it caught is thrown out of a handler or in it

ASSUME NoExceptionAssumption == NoException \notin Exceptions
ASSUME MaxStackAssumption == MaxStack \in Nat \ {0}

VARIABLES
  stack,           \* see above; empty once the process has ended
  frames,          \* rincrt_cpp_exception_top and the frames before it, where they
                   \* are on the stack; the last is the top
  current,         \* rincrt_cpp_exception_current_value and _cleanup
  built,           \* of each object, where on the stack it was built; 0: it is dead
  copies,          \* of each exception: "none", "plain", or "owned" with a destructor
  misused          \* history: what died twice, or was forgotten alive

exceptionVars == <<stack, frames, current, built, copies, misused>>

NoCurrent == [value |-> NoException, cleanup |-> FALSE]

ExceptionsInit ==
  /\ stack = <<[kind |-> "main"]>>
  /\ frames = <<>>
  /\ current = NoCurrent
  /\ built = [o \in Things |-> 0]
  /\ copies = [e \in Exceptions |-> "none"]
  /\ misused = {}

Here == Len(stack)
Doing(kind) == stack # <<>> /\ stack[Here].kind = kind
BuiltHere == {o \in Things : built[o] = Here}
Returned == SubSeq(stack, 1, Here - 1)
TopFrame == frames[Len(frames)]
FramesBelow == SubSeq(frames, 1, Len(frames) - 1)

\* The generated code has the thread: no throw and no leave goes on under it.
Running == stack # <<>> /\ ~Doing("throw") /\ (Doing("try") => ~stack[Here].leaving)

\* _exit: nothing is left to be looked after.
Exit ==
  /\ stack' = <<>> /\ frames' = <<>> /\ current' = NoCurrent
  /\ built' = [o \in Things |-> 0] /\ copies' = [e \in Exceptions |-> "none"]
  /\ UNCHANGED misused

-----------------------------------------------------------------------------
(* Frames and cleanups.  The cleanups of a frame have the newest last.      *)

\* A frame; the one of a guard is put around a destructor during a throw.
Frame(guard) == [kind |-> "try", guard |-> guard, leaving |-> FALSE, cleanups |-> <<>>]

\* rin_cpp_exception_install on top of what the thread does.
Installed(s, guard) ==
  /\ stack' = Append(s, Frame(guard))
  /\ frames' = Append(frames, Len(s) + 1)

Try ==
  /\ Running /\ Here < MaxStack
  /\ Installed(stack, FALSE)
  /\ UNCHANGED <<current, built, copies, misused>>

\* An object is built, with register_current_cleanup: without a frame nothing is
\* noted, and without memory for the note the process ends.
Build(o) ==
  /\ Running /\ built[o] = 0
  /\ built' = [built EXCEPT ![o] = Here]
  /\ stack' = IF frames = <<>> THEN stack
              ELSE [stack EXCEPT ![TopFrame].cleanups = Append(@, o)]
  /\ UNCHANGED <<frames, current, copies, misused>>

BuildFails == Running /\ frames # <<>> /\ Exit

Notes(i, o) == \E k \in DOMAIN stack[i].cleanups : stack[i].cleanups[k] = o

\* Mutant: the cleanup is looked for in the top frame only.
NotingTop(o) == {i \in {frames[j] : j \in DOMAIN frames} : i = TopFrame /\ Notes(i, o)}

\* The frames that note the object, as unregister_current_cleanup finds them.
Noting(o) == {i \in {frames[j] : j \in DOMAIN frames} : Notes(i, o)}

NewestNote(notes, o) ==
  CHOOSE k \in DOMAIN notes :
    notes[k] = o /\ \A m \in DOMAIN notes : notes[m] = o => m <= k

WithoutNote(notes, k) ==
  [m \in 1..(Len(notes) - 1) |-> IF m < k THEN notes[m] ELSE notes[m + 1]]

\* An object is destroyed where it was built, or where it was a parameter, inside
\* a try of the function called; only its newest note is removed.
Destroy(o) ==
  /\ Running /\ built[o] # 0
  /\ built[o] \in {Here} \cup (IF Doing("try") THEN {Here - 1} ELSE {})
  /\ built' = [built EXCEPT ![o] = 0]
  /\ stack' = [i \in DOMAIN stack |->
       IF i \in Noting(o) /\ \A j \in Noting(o) : j <= i
         THEN [stack[i] EXCEPT !.cleanups = WithoutNote(@, NewestNote(@, o))] ELSE stack[i]]
  /\ UNCHANGED <<frames, current, copies, misused>>

\* unwind_cleanups_impl takes the newest cleanup off the frame and calls it.
Called(o) ==
  /\ built' = [built EXCEPT ![o] = 0]
  /\ misused' = IF built[o] = 0 THEN misused \cup {o} ELSE misused

NewestCleanup(i) == stack[i].cleanups[Len(stack[i].cleanups)]
WithoutNewest(i) == [stack EXCEPT ![i].cleanups = WithoutNote(@, Len(@))]

\* rin_cpp_exception_leave: the frame stays on top while its cleanups run.
Leave ==
  /\ Running /\ Doing("try")
  /\ stack' = [stack EXCEPT ![Here].leaving = TRUE]
  /\ UNCHANGED <<frames, current, built, copies, misused>>

LeaveUnwinds ==
  /\ Doing("try") /\ stack[Here].leaving /\ stack[Here].cleanups # <<>>
  /\ Here < MaxStack
  /\ stack' = Append(WithoutNewest(Here), [kind |-> "destructor"])
  /\ Called(NewestCleanup(Here))
  /\ UNCHANGED <<frames, current, copies>>

Left ==
  /\ Doing("try") /\ stack[Here].leaving /\ stack[Here].cleanups = <<>>
  /\ stack' = Returned /\ frames' = FramesBelow
  /\ misused' = misused \cup BuiltHere
  /\ UNCHANGED <<current, built, copies>>

DestructorReturns ==
  /\ Doing("destructor") /\ BuiltHere = {}
  /\ stack' = Returned
  /\ UNCHANGED <<frames, current, built, copies, misused>>

-----------------------------------------------------------------------------
(* Throwing and handling.                                                   *)

\* A handler that is not being left by a throw of what it caught.
Exposed ==
  \E h \in DOMAIN stack :
    stack[h].kind = "handler" /\ \A i \in h..Here : stack[i].kind # "throw"

\* rincrt_cpp_exception_throw_owned: the frame is off before it is unwound.
ThrowOwned(e, cleanup) ==
  IF frames = <<>> THEN Exit
  ELSE /\ stack' = Append(stack, [kind |-> "throw", frame |-> TopFrame,
                                 value |-> e, cleanup |-> cleanup])
       /\ frames' = FramesBelow
       /\ UNCHANGED <<current, built, misused>>

Throw(e, cleanup) ==
  /\ Running /\ Here < MaxStack
  /\ copies[e] = "none" /\ (QuietHandlers => ~Exposed)
  /\ ThrowOwned(e, cleanup)
  /\ frames # <<>> => copies' = [copies EXCEPT ![e] = IF cleanup THEN "owned" ELSE "plain"]

\* Unwinding calls each destructor under a guard.
ThrowUnwinds ==
  /\ Doing("throw") /\ Here < MaxStack
  /\ LET i == stack[Here].frame
     IN  /\ stack[i].cleanups # <<>>
         /\ Installed(WithoutNewest(i), TRUE)
         /\ Called(NewestCleanup(i))
  /\ UNCHANGED <<current, copies>>

\* Mutant: whether the exception has a destructor is what it was for the last.
CurrentStale(thrown) == [value |-> thrown.value, cleanup |-> current.cleanup]

\* What is current once the frame is unwound.
CurrentAfter(thrown) == [value |-> thrown.value, cleanup |-> thrown.cleanup]

\* The longjmp: what was built since the frame was installed and is not dead is
\* forgotten.  What reaches a guard ends the process.
Caught ==
  /\ Doing("throw")
  /\ LET thrown == stack[Here]  i == thrown.frame
     IN  /\ stack[i].cleanups = <<>>
         /\ IF stack[i].guard THEN Exit
            ELSE /\ stack' = Append(SubSeq(stack, 1, i - 1),
                                    [kind |-> "handler", value |-> thrown.value])
                 /\ current' = CurrentAfter(thrown)
                 /\ misused' = misused \cup {o \in Things : built[o] >= i}
                 /\ UNCHANGED <<frames, built, copies>>

\* rin_cpp_exception_release_frame at the end of a handler: the destructor is
\* called if the exception is the current one, and the copy is freed.
Released(value) ==
  LET destroyed == current.value = value /\ current.cleanup
  IN  /\ current' = IF destroyed THEN [current EXCEPT !.cleanup = FALSE] ELSE current
      /\ copies' = [copies EXCEPT ![value] = "none"]
      /\ misused' = IF copies[value] = (IF destroyed THEN "owned" ELSE "plain")
                      THEN misused ELSE misused \cup {value}

Release ==
  /\ Doing("handler") /\ BuiltHere = {}
  /\ Released(stack[Here].value)
  /\ stack' = Returned
  /\ UNCHANGED <<frames, built>>

\* rin_cpp_exception_rethrow_frame: the destructor goes with the exception only if
\* it is the current one.
Rethrow ==
  /\ Doing("handler") /\ Here < MaxStack
  /\ LET value == stack[Here].value
     IN  ThrowOwned(value, current.value = value /\ current.cleanup)
  /\ frames # <<>> => UNCHANGED copies

\* rin_cpp_exception_rethrow, in a handler of the current exception.
RethrowCurrent ==
  /\ Doing("handler") /\ Here < MaxStack /\ current.value = stack[Here].value
  /\ ThrowOwned(current.value, current.cleanup)
  /\ frames # <<>> => UNCHANGED copies

ExceptionsNext ==
  \/ Try \/ Leave \/ LeaveUnwinds \/ Left \/ DestructorReturns
  \/ \E o \in Things : Build(o) \/ Destroy(o)
  \/ BuildFails
  \/ \E e \in Exceptions, cleanup \in BOOLEAN : Throw(e, cleanup)
  \/ ThrowUnwinds \/ Caught \/ Release \/ Rethrow \/ RethrowCurrent

ExceptionsSpec == ExceptionsInit /\ [][ExceptionsNext]_exceptionVars

-----------------------------------------------------------------------------
(* Properties.                                                              *)

\* Every object dies once, by the code that built it or by the runtime when a
\* frame is left or unwound, whatever its destructor builds, throws and catches on
\* the way; and every copy of a thrown object is destroyed and freed once, by the
\* handler that catches it last.
EachDiesOnce == misused = {}

=============================================================================
