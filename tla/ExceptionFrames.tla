-------------------------- MODULE ExceptionFrames --------------------------
(***************************************************************************)
(* Exceptions as the compiled program runs them: the try statement that    *)
(* CodeGenerator.php emits as TP_TRY ... TP_END_TRY, and the setjmp frames *)
(* that object/try.h links from _tp_ex_top.                                *)
(*                                                                         *)
(* A thread's control is the sequence of regions it is inside of, outermost*)
(* first: function calls, and the parts of try statements.  Which region   *)
(* comes next is the program's choice, so the model runs every program     *)
(* built from the given try statements.                                    *)
(*                                                                         *)
(* A frame lives in the C stack slot of its try statement.  A statement is *)
(* known by its nesting depth and shape: meeting it again (in a loop, or   *)
(* in a second call) finds the same slot.  A jump to a frame resumes the   *)
(* control recorded by setjmp.  It is undefined once the frame's function  *)
(* has returned, or in another thread's stack; and in a block that was     *)
(* left the slot may or may not have survived.                             *)
(***************************************************************************)
EXTENDS Integers, Sequences, FiniteSets, SequencesExt

CONSTANTS
    Threads,
    Sites,          \* shapes of try statements
    Handles,        \* Handles[s]: the exception classes its catch clauses name
    CatchesAny,     \* sites that end with TP_CATCH_ANY
    HasFinally,     \* sites with a finally block
    Classes,        \* classes of exceptions a program throws
    Nothing,        \* NULL, for a frame, an exception or a call
    MaxDepth,       \* bound: nested regions of a thread
    MaxTries, MaxThrows, MaxCalls \* bounds: of each, in a whole run

Slots == Threads \X (1 .. MaxDepth) \X Sites

ASSUME FramesAssumption ==
    /\ Handles \in [Sites -> SUBSET Classes]
    /\ CatchesAny \subseteq Sites /\ HasFinally \subseteq Sites
    /\ CatchesAny \cap HasFinally = {}
    /\ Nothing \notin Classes \cup Slots
    /\ {MaxDepth, MaxTries, MaxThrows, MaxCalls} \subseteq Nat

VARIABLES
    ctl,            \* each thread's regions
    top,            \* _tp_ex_top: one for the whole process
    frame,          \* the tp_ex_frame in each slot
    status,         \* "running", "exited" by exit(1), or "wild": undefined
    owed,           \* history: slots of entered try statements whose finally has not run
    habits,         \* history: what the program did that the frames do not expect
    tries, throws, calls

\* "plain": a try statement without finally ended with no exception thrown.
\* "leave": return or break left a try body, or the catch of a try with finally.
\* "rethrow": a throw left the catch of a try with finally.
AllHabits == {"plain", "leave", "rethrow"}
Shows(h) == habits' = habits \cup {h}

counts == <<tries, throws, calls>>
vars == <<ctl, top, frame, status, owed, habits, counts>>

SiteOf(slot) == slot[3]

\* part: "call", "try", "landed" (setjmp has returned 1), "catch", "finally".
\* pend: the exception that TP_FINALLY saved for TP_END_TRY.
Region(part, slot, pend, act) == [part |-> part, slot |-> slot, pend |-> pend, act |-> act]
InTry(part, slot) == Region(part, slot, Nothing, 0)

EmptyFrame == [thrown |-> Nothing, prev |-> Nothing, ctx |-> <<>>]

Init ==
    /\ ctl = [t \in Threads |-> <<>>]
    /\ top = Nothing
    /\ frame = [s \in Slots |-> EmptyFrame]
    /\ status = "running"
    /\ owed = {} /\ habits = {}
    /\ tries = 0 /\ throws = 0 /\ calls = 0

IsCall(r) == r.part = "call"
Inner(t) == Last(ctl[t])
Inside(t, part) == ctl[t] # <<>> /\ Inner(t).part = part
Here(t) == Inner(t).slot

\* The innermost region is left, or replaced by another part of its statement.
Leave(t) == ctl' = [ctl EXCEPT ![t] = Front(@)]
Become(t, r) == ctl' = [ctl EXCEPT ![t] = Append(Front(@), r)]

\* The calls that were active at setjmp still are.
Active(t, ctx) == IsPrefix(SelectSeq(ctx, IsCall), SelectSeq(ctl[t], IsCall))
Open(t) == {ctl[t][i].slot : i \in {j \in DOMAIN ctl[t] : ~IsCall(ctl[t][j])}}

\* Regions whose abrupt end the frames do not expect.
Fragile(r) == r.part = "try" \/ (r.part = "catch" /\ SiteOf(r.slot) \in HasFinally)

\* Is the thread in the catch of a try with finally that no later try protects?
SkipsFinally(t) ==
    \E i \in DOMAIN ctl[t] :
        /\ ctl[t][i].part = "catch" /\ Fragile(ctl[t][i])
        /\ \A j \in i + 1 .. Len(ctl[t]) : ctl[t][j].part # "try"

NotesSkip(t) == IF SkipsFinally(t) THEN Shows("rethrow") ELSE UNCHANGED habits

\* Mutant: the jump does not unwind what lies above the frame.
ResumeInPlace(t, slot) == Append(ctl[t], InTry("landed", slot))
Resume(t, slot) == Append(frame[slot].ctx, InTry("landed", slot))

\* longjmp by thread t to the frame in a slot.
Jump(t, slot) ==
    /\ NotesSkip(t)
    /\ \/ /\ slot[1] = t /\ Active(t, frame[slot].ctx)
          /\ ctl' = [ctl EXCEPT ![t] = Resume(t, slot)]
          /\ UNCHANGED status
       \/ /\ slot \notin Open(t)
          /\ status' = "wild" /\ UNCHANGED ctl

-----------------------------------------------------------------------------
\* Calls and try statements begin

Running(t) == status = "running" /\ Len(ctl[t]) < MaxDepth /\ ~Inside(t, "landed")

CallFunction(t) ==
    /\ Running(t) /\ calls < MaxCalls
    /\ ctl' = [ctl EXCEPT ![t] = Append(@, Region("call", Nothing, Nothing, calls + 1))]
    /\ calls' = calls + 1
    /\ UNCHANGED <<top, frame, status, owed, habits, tries, throws>>

\* Mutant: the frame is pushed without remembering the one below.
PushWithoutPrev(slot, ctx) == [frame EXCEPT ![slot] = [EmptyFrame EXCEPT !.ctx = ctx]]
Push(slot, ctx) == [frame EXCEPT ![slot] = [EmptyFrame EXCEPT !.ctx = ctx, !.prev = top]]

TryBegins(t, s) ==
    LET slot == <<t, Len(ctl[t]) + 1, s>> IN
    /\ Running(t) /\ tries < MaxTries
    /\ frame' = Push(slot, ctl[t])
    /\ top' = slot
    /\ ctl' = [ctl EXCEPT ![t] = Append(@, InTry("try", slot))]
    /\ owed' = IF s \in HasFinally THEN owed \cup {slot} ELSE owed
    /\ tries' = tries + 1
    /\ UNCHANGED <<status, habits, throws, calls>>

-----------------------------------------------------------------------------
\* tp_throw_ex and tp_throw

Throw(t, c) ==
    /\ status = "running" /\ ~Inside(t, "landed") /\ throws < MaxThrows
    /\ throws' = throws + 1
    /\ \/ top # Nothing
          /\ frame' = [frame EXCEPT ![top].thrown = c]
          /\ Jump(t, top)
       \/ top = Nothing /\ status' = "exited" /\ NotesSkip(t) /\ UNCHANGED <<ctl, frame>>
    /\ UNCHANGED <<top, owed, tries, calls>>

-----------------------------------------------------------------------------
\* The catch clauses, once setjmp has returned 1

Caught(t) == frame[Here(t)].thrown

\* Each clause first tests that the frame is still the top one.
Untaken(t) == Inside(t, "landed") /\ status = "running" /\ top = Here(t)
Matches(t) == Caught(t) \in Handles[SiteOf(Here(t))]

Clear(slot) == [frame EXCEPT ![slot].thrown = Nothing]

\* Mutant: a clause does not take its frame off.
KeepFrame(slot) == slot
Below(slot) == frame[slot].prev

CatchBegins(t) ==
    /\ Untaken(t) /\ Matches(t)
    /\ frame' = Clear(Here(t))
    /\ top' = Below(Here(t))
    /\ Become(t, InTry("catch", Here(t)))
    /\ UNCHANGED <<status, owed, habits, counts>>

\* The TP_CATCH_ANY that the compiler adds after clauses that name classes:
\* its body is empty, and the statement is over.
AnyIgnores(t) ==
    /\ Untaken(t) /\ ~Matches(t) /\ SiteOf(Here(t)) \in CatchesAny
    /\ frame' = Clear(Here(t))
    /\ top' = Below(Here(t))
    /\ Leave(t)
    /\ UNCHANGED <<status, owed, habits, counts>>

\* TP_END_TRY of a statement without finally: on to the frame below.
Rethrow(t) ==
    LET slot == Here(t) IN
    /\ Untaken(t) /\ ~Matches(t) /\ SiteOf(slot) \notin CatchesAny \cup HasFinally
    /\ top' = Below(slot)
    /\ \/ Below(slot) # Nothing
          /\ frame' = [frame EXCEPT ![Below(slot)].thrown = Caught(t)]
          /\ Jump(t, Below(slot))
       \/ Below(slot) = Nothing /\ Leave(t) /\ UNCHANGED <<frame, status, habits>>
    /\ UNCHANGED <<owed, counts>>

-----------------------------------------------------------------------------
\* Statements end

\* Does the body, or the clauses, of this statement now run into TP_FINALLY?
ReachesFinally(t) ==
    /\ status = "running" /\ ctl[t] # <<>> /\ ~IsCall(Inner(t))
    /\ SiteOf(Here(t)) \in HasFinally
    /\ Inner(t).part \in {"try", "catch"} \/ (Untaken(t) /\ ~Matches(t))

FinallyBegins(t) ==
    LET slot == Here(t)
        pending == IF top = slot THEN frame[slot].thrown ELSE Nothing
    IN  /\ ReachesFinally(t)
        /\ top' = IF top = slot THEN Below(slot) ELSE top
        /\ frame' = IF pending # Nothing THEN Clear(slot) ELSE frame
        /\ Become(t, Region("finally", slot, pending, 0))
        /\ owed' = owed \ {slot}
        /\ UNCHANGED <<status, habits, counts>>

FinallyEnds(t) ==
    /\ status = "running" /\ Inside(t, "finally")
    /\ \/ Inner(t).pend # Nothing /\ top # Nothing
          /\ frame' = [frame EXCEPT ![top].thrown = Inner(t).pend]
          /\ Jump(t, top)
       \/ (Inner(t).pend = Nothing \/ top = Nothing)
          /\ Leave(t) /\ UNCHANGED <<frame, status, habits>>
    /\ UNCHANGED <<top, owed, counts>>

\* Mutant: a catch ends its statement even if a finally block follows.
CatchLeaves(t) ==
    /\ status = "running" /\ Inside(t, "catch")
    /\ Leave(t)
    /\ UNCHANGED <<top, frame, status, owed, habits, counts>>

\* A catch without finally ends, and so does a body without exception: control
\* passes every test of the clauses and of TP_END_TRY, and top stays.
CatchEnds(t) ==
    /\ status = "running" /\ Inside(t, "catch") /\ SiteOf(Here(t)) \notin HasFinally
    /\ Leave(t)
    /\ UNCHANGED <<top, frame, status, owed, habits, counts>>

BodyEnds(t) ==
    /\ status = "running" /\ Inside(t, "try") /\ SiteOf(Here(t)) \notin HasFinally
    /\ Leave(t) /\ Shows("plain")
    /\ UNCHANGED <<top, frame, status, owed, counts>>

\* break, in any part of a try statement, leaves the do { } while (0) of the
\* macro and nothing else.
Break(t) ==
    /\ status = "running" /\ ctl[t] # <<>> /\ Inner(t).part \in {"try", "catch", "finally"}
    /\ Leave(t)
    /\ IF Fragile(Inner(t)) THEN Shows("leave") ELSE UNCHANGED habits
    /\ UNCHANGED <<top, frame, status, owed, counts>>

\* return leaves every region of the innermost call, with no code for them.
Return(t) ==
    \E i \in DOMAIN ctl[t] :
        /\ status = "running" /\ ~Inside(t, "landed")
        /\ IsCall(ctl[t][i]) /\ \A j \in i + 1 .. Len(ctl[t]) : ~IsCall(ctl[t][j])
        /\ ctl' = [ctl EXCEPT ![t] = SubSeq(@, 1, i - 1)]
        /\ IF \E j \in i + 1 .. Len(ctl[t]) : Fragile(ctl[t][j])
           THEN Shows("leave") ELSE UNCHANGED habits
        /\ UNCHANGED <<top, frame, status, owed, counts>>

-----------------------------------------------------------------------------
Next ==
    \E t \in Threads :
        \/ CallFunction(t) \/ Return(t)
        \/ \E s \in Sites : TryBegins(t, s)
        \/ \E c \in Classes : Throw(t, c)
        \/ CatchBegins(t) \/ AnyIgnores(t) \/ Rethrow(t)
        \/ FinallyBegins(t) \/ FinallyEnds(t)
        \/ CatchEnds(t) \/ BodyEnds(t) \/ Break(t)

Spec == Init /\ [][Next]_vars

-----------------------------------------------------------------------------
\* Properties

Regions ==
    [part : {"call", "try", "landed", "catch", "finally"}, slot : Slots \cup {Nothing},
     pend : Classes \cup {Nothing}, act : Nat]

\* Is c a control of thread t?  A part of a try statement at depth i has its
\* frame in a slot of that depth.
IsControl(c, t) ==
    /\ c \in Seq(Regions)
    /\ \A i \in DOMAIN c :
          IF IsCall(c[i]) THEN c[i].act \in 1 .. MaxCalls
                          ELSE c[i].slot \in {t} \X {i} \X Sites

\* Controls are well formed, those that run and those that frames will resume.
TypeOK ==
    /\ ctl \in [Threads -> Seq(Regions)]
    /\ \A t \in Threads : IsControl(ctl[t], t) /\ Len(ctl[t]) <= MaxDepth
    /\ top \in Slots \cup {Nothing}
    /\ frame \in [Slots -> [thrown : Classes \cup {Nothing}, prev : Slots \cup {Nothing},
                            ctx : Seq(Regions)]]
    /\ \A s \in Slots : IsControl(frame[s].ctx, s[1])
    /\ status \in {"running", "exited", "wild"} /\ owed \subseteq Slots
    /\ habits \subseteq AllHabits
    /\ tries \in 0 .. MaxTries /\ throws \in 0 .. MaxThrows /\ calls \in 0 .. MaxCalls

\* Where the regions are that a frame should protect, and the try bodies.
Protected(t)  == {i \in DOMAIN ctl[t] : ctl[t][i].part \in {"try", "landed"}}
Protecting(t) == {i \in DOMAIN ctl[t] : ctl[t][i].part = "try"}

\* x is the slot of the innermost region among those of t at the indices I.
IsInnermost(x, t, I) ==
    IF I = {} THEN x = Nothing
    ELSE \E i \in I : x = ctl[t][i].slot /\ \A j \in I : j <= i

\* In a program without bad habits, the frames reachable from _tp_ex_top are
\* those of the try bodies the thread is inside of, from the innermost outwards,
\* each resuming where it was set.
FramesNest ==
    habits = {} => \A t \in Threads :
        /\ IsInnermost(top, t, Protected(t))
        /\ \A i \in Protected(t) :
              LET f == frame[ctl[t][i].slot] IN
              /\ IsInnermost(f.prev, t, {j \in Protected(t) : j < i})
              /\ f.ctx = SubSeq(ctl[t], 1, i - 1)

\* In this step exception c is in flight: thrown, passed on by a statement whose
\* clauses do not take it, or saved until the end of its finally block.
Raises(t, c) ==
    \/ Throw(t, c)
    \/ Rethrow(t) /\ c = Caught(t)
    \/ FinallyEnds(t) /\ c = Inner(t).pend

\* c arrives at the innermost try body the thread is inside of, which goes on
\* where its setjmp was.
LandsInnermost(t, c) ==
    \E i \in Protecting(t) :
        /\ \A j \in Protecting(t) : j <= i
        /\ ctl'[t] = Append(SubSeq(ctl[t], 1, i - 1), InTry("landed", ctl[t][i].slot))
        /\ frame'[ctl[t][i].slot].thrown = c

\* Inside of a try body, every exception in flight lands in the innermost one.
ThrowsLand ==
    \A t \in Threads, c \in Classes :
        Raises(t, c) /\ Protecting(t) # {} => LandsInnermost(t, c)

\* Outside of all try bodies a throw ends the program, but an exception that has
\* come through a try statement is forgotten: the program goes on behind that
\* statement.  FUNCTIONS.md promises exit(1) for both.
ThrowsOutside ==
    \A t \in Threads, c \in Classes :
        Raises(t, c) /\ Protecting(t) = {} =>
            IF Throw(t, c) THEN status' = "exited"
                           ELSE Leave(t) /\ UNCHANGED status

\* What becomes of an exception that is thrown, passed on, or pending at the end
\* of a finally block, in a program without bad habits: it lands if a try body is
\* around; otherwise the program ends, or forgets it, as said above.
CarefulThrowsLand == [][habits' = {} => ThrowsLand /\ ThrowsOutside]_vars

\* What is documented: any exception can be caught by the try around it.
CaughtByInnermost == [][ThrowsLand]_vars

\* The statement of this slot has not been left before its finally block began.
StillOpen(s) ==
    \E i \in DOMAIN ctl[s[1]] :
        /\ ctl[s[1]][i].slot = s
        /\ ctl[s[1]][i].part \in {"try", "landed", "catch"}

\* No try statement with a finally block is left before that block began, as
\* long as no return, break or throw out of a catch leaves it, even after bodies
\* that ended without exception.  (FUNCTIONS.md makes no such exception: a
\* finally block always runs.)
FinallyOfCareful == habits \subseteq {"plain"} => \A s \in owed : StillOpen(s)
=============================================================================
