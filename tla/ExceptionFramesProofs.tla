----------------------- MODULE ExceptionFramesProofs -----------------------
(***************************************************************************)
(* Theorems about ExceptionFrames, for every set of try statements and     *)
(* every bound.  Type correctness holds for any number of threads.  The    *)
(* others are about programs that use exceptions in one thread only:       *)
(* _tp_ex_top is one variable for the whole process.                       *)
(***************************************************************************)
EXTENDS ExceptionFrames, SequenceTheorems, TLAPS

OneThread == \A s, t \in Threads : s = t

-----------------------------------------------------------------------------
\* The inductive invariant

\* A frame on the list has been pushed: its control ends where its statement
\* begins.
Linked(x, fr) == x # Nothing => Len(fr[x].ctx) + 1 = x[2]

LinkedInv == Linked(top, frame) /\ \A s \in Slots : Linked(frame[s].prev, frame)

\* setjmp returns 1 into the innermost region, and no frame was set there.
LandedInv ==
    /\ \A t \in Threads : \A i \in DOMAIN ctl[t] :
          ctl[t][i].part = "landed" => i = Len(ctl[t])
    /\ \A s \in Slots : \A i \in DOMAIN frame[s].ctx : frame[s].ctx[i].part # "landed"

\* Only a bad habit leaves a frame on the list that is not there any more.
TameInv == habits = {} => status # "wild"

\* Do the controls c and d agree in their n outermost regions?
Agree(c, d, n) ==
    n <= Len(c) /\ n <= Len(d) /\ \A k \in 1 .. n : c[k] = d[k]

\* The list from the frame tp leads to the frame x, through frames in S whose
\* own control still has the n outermost regions of c: until x is taken off,
\* every jump stays inside of the statement of x.
LeadsTo(tp, x, c, n, S, fr) ==
    tp \in S /\ \A f \in S \ {x} : Agree(fr[f].ctx, c, n) /\ fr[f].prev \in S

\* The try statement at j of the control c is protected by its frame.  Frames
\* that were left behind may lie above it, and the list need not reach it.
Guarded(c, j, tp, fr) ==
    /\ c[j].slot \in Slots /\ fr[c[j].slot].ctx = SubSeq(c, 1, j - 1)
    /\ \E S \in SUBSET Slots : LeadsTo(tp, c[j].slot, c, j, S, fr)

\* What keeps jumps inside of the statement at i: its own frame, or in its catch
\* that of the first try body, at j.
KeptBy(c, i, j) ==
    \/ j = i /\ c[i].part \in {"try", "landed"}
    \/ /\ c[i].part = "catch" /\ i < j /\ c[j].part = "try"
       /\ \A k \in i + 1 .. j - 1 : c[k].part # "try"

\* The control is inside of the statement at i, whose finally block is owed.
OwedAt(c, i, tp, fr) ==
    /\ i \in DOMAIN c /\ c[i].part \in {"try", "landed", "catch"}
    /\ \/ c[i].part = "catch" /\ \A k \in DOMAIN c : i < k => c[k].part # "try"
       \/ \E j \in DOMAIN c : KeptBy(c, i, j) /\ Guarded(c, j, tp, fr)

Owes(c, s, tp, fr) ==
    SiteOf(s) \in HasFinally /\ OwedAt(c, s[2], tp, fr) /\ c[s[2]].slot = s

OwedInv ==
    habits \subseteq {"plain"} =>
        \A s \in owed : Owes(ctl[s[1]], s, top, frame)

NestInv == TypeOK /\ LinkedInv /\ LandedInv /\ TameInv /\ FramesNest
FinallyInv == TypeOK /\ LinkedInv /\ LandedInv /\ OwedInv

-----------------------------------------------------------------------------
\* Facts about sequences and controls

\* The first n elements of a sequence.
LEMMA PrefixType ==
    ASSUME NEW X, NEW c \in Seq(X), NEW n \in 0 .. Len(c)
    PROVE  /\ SubSeq(c, 1, n) \in Seq(X) /\ Len(SubSeq(c, 1, n)) = n
           /\ \A k \in 1 .. n : SubSeq(c, 1, n)[k] = c[k]
<1>1. Len(c) \in Nat /\ n \in Nat /\ \A k \in 1 .. n : c[k] \in X
  BY LenProperties, ElementOfSeq
<1> QED
  BY <1>1, SubSeqProperties

\* All elements but the last.
LEMMA FrontType ==
    ASSUME NEW X, NEW c \in Seq(X), c # <<>>
    PROVE  /\ Front(c) \in Seq(X) /\ Len(c) \in Nat \ {0} /\ Len(Front(c)) = Len(c) - 1
           /\ \A k \in 1 .. Len(c) - 1 : Front(c)[k] = c[k]
<1>1. Len(c) \in Nat \ {0}
  BY EmptySeq, LenProperties
<1> DEFINE n == Len(c) - 1
<1>2. n \in 0 .. Len(c) /\ Front(c) = SubSeq(c, 1, n)
  BY <1>1 DEF Front
<1> HIDE DEF n
<1>3. Front(c) \in Seq(X) /\ Len(Front(c)) = n /\ \A k \in 1 .. n : Front(c)[k] = c[k]
  BY <1>2, PrefixType
<1> QED
  BY <1>1, <1>3 DEF n

\* One more element.
LEMMA AppendType ==
    ASSUME NEW X, NEW c \in Seq(X), NEW r \in X
    PROVE  /\ Append(c, r) \in Seq(X) /\ Len(c) \in Nat /\ Len(Append(c, r)) = Len(c) + 1
           /\ \A k \in 1 .. Len(c) : Append(c, r)[k] = c[k]
           /\ Append(c, r)[Len(c) + 1] = r
           /\ Append(c, r) # <<>> /\ Last(Append(c, r)) = r
BY AppendProperties, LenProperties DEF Last

\* A prefix of a control is a control.
LEMMA ControlPrefix ==
    ASSUME NEW t, NEW c, IsControl(c, t), NEW n \in 0 .. Len(c)
    PROVE  IsControl(SubSeq(c, 1, n), t)
<1>1. c \in Seq(Regions) /\ Len(c) \in Nat /\ DOMAIN c = 1 .. Len(c)
  BY LenProperties DEF IsControl
<1>2. /\ SubSeq(c, 1, n) \in Seq(Regions) /\ DOMAIN SubSeq(c, 1, n) = 1 .. n
      /\ \A k \in 1 .. n : SubSeq(c, 1, n)[k] = c[k] /\ k \in 1 .. Len(c)
  BY <1>1, PrefixType, LenProperties
<1> QED
  BY <1>1, <1>2 DEF IsControl

\* So is a control without its innermost region.
LEMMA ControlFront ==
    ASSUME NEW t, NEW c, IsControl(c, t), c # <<>>
    PROVE  IsControl(Front(c), t) /\ Len(Front(c)) = Len(c) - 1 /\ Len(c) \in Nat \ {0}
<1>1. Len(c) \in Nat \ {0} /\ Len(Front(c)) = Len(c) - 1
  BY FrontType DEF IsControl
<1> QED
  BY <1>1, ControlPrefix DEF Front

\* And a control with a region more, in its place.
LEMMA ControlAppend ==
    ASSUME NEW t, NEW c, IsControl(c, t), NEW r \in Regions,
           IF IsCall(r) THEN r.act \in 1 .. MaxCalls
                        ELSE r.slot \in {t} \X {Len(c) + 1} \X Sites
    PROVE  IsControl(Append(c, r), t) /\ Len(Append(c, r)) = Len(c) + 1 /\ Len(c) \in Nat
<1>1. c \in Seq(Regions) /\ Len(c) \in Nat /\ DOMAIN c = 1 .. Len(c)
  BY LenProperties DEF IsControl
<1>2. /\ Append(c, r) \in Seq(Regions) /\ DOMAIN Append(c, r) = 1 .. Len(c) + 1
      /\ Len(Append(c, r)) = Len(c) + 1 /\ Append(c, r)[Len(c) + 1] = r
      /\ \A k \in 1 .. Len(c) : Append(c, r)[k] = c[k]
  BY <1>1, AppendType, LenProperties
<1> QED
  BY <1>1, <1>2 DEF IsControl

-----------------------------------------------------------------------------
\* Type correctness

\* The parts of try statements are regions.
LEMMA RegionType ==
    /\ \A slot \in Slots, part \in {"try", "landed", "catch"} :
          InTry(part, slot) \in Regions /\ ~IsCall(InTry(part, slot))
    /\ \A slot \in Slots, pend \in Classes \cup {Nothing} :
          /\ Region("finally", slot, pend, 0) \in Regions
          /\ ~IsCall(Region("finally", slot, pend, 0))
    /\ \A n \in Nat :
          /\ Region("call", Nothing, Nothing, n) \in Regions
          /\ IsCall(Region("call", Nothing, Nothing, n))
BY DEF Regions, InTry, Region, IsCall

\* The slot of the statement whose part a thread is in.
LEMMA HereType ==
    ASSUME TypeOK, NEW t \in Threads, ctl[t] # <<>>, ~IsCall(Inner(t))
    PROVE  /\ Here(t) \in {t} \X {Len(ctl[t])} \X Sites
           /\ Here(t) \in Slots /\ SiteOf(Here(t)) \in Sites
           /\ Len(ctl[t]) \in Nat \ {0} /\ Inner(t) \in Regions
<1>1. /\ ctl[t] \in Seq(Regions) /\ Len(ctl[t]) \in Nat \ {0}
      /\ DOMAIN ctl[t] = 1 .. Len(ctl[t]) /\ Len(ctl[t]) <= MaxDepth
  BY EmptySeq, LenProperties DEF TypeOK
<1>2. Inner(t) = ctl[t][Len(ctl[t])] /\ Len(ctl[t]) \in DOMAIN ctl[t]
  BY <1>1 DEF Inner, Last
<1>3. Here(t) \in {t} \X {Len(ctl[t])} \X Sites
  BY <1>2 DEF TypeOK, IsControl, Here
<1>4. Inner(t) \in Regions
  BY <1>1, <1>2, ElementOfSeq
<1>5. MaxDepth \in Nat
  BY FramesAssumption
<1>6. Len(ctl[t]) \in 1 .. MaxDepth
  BY <1>1, <1>5
<1> QED
  BY <1>1, <1>3, <1>4, <1>6 DEF Slots, SiteOf

\* A control in its place keeps the controls well formed.
LEMMA ControlsKept ==
    ASSUME TypeOK, NEW t \in Threads, NEW d, IsControl(d, t), Len(d) <= MaxDepth,
           ctl' = [ctl EXCEPT ![t] = d]
    PROVE  /\ ctl' \in [Threads -> Seq(Regions)]
           /\ \A u \in Threads : IsControl(ctl'[u], u) /\ Len(ctl'[u]) <= MaxDepth
BY DEF TypeOK, IsControl

\* A frame with a control in its place keeps the frames well formed.
LEMMA FramesKept ==
    ASSUME TypeOK, NEW s \in Slots, NEW g,
           g \in [thrown : Classes \cup {Nothing}, prev : Slots \cup {Nothing},
                  ctx : Seq(Regions)],
           IsControl(g.ctx, s[1]),
           frame' = [frame EXCEPT ![s] = g]
    PROVE  /\ frame' \in [Slots -> [thrown : Classes \cup {Nothing}, prev : Slots \cup {Nothing},
                                    ctx : Seq(Regions)]]
           /\ \A u \in Slots : IsControl(frame'[u].ctx, u[1])
BY DEF TypeOK

\* An exception in a frame, or none, is still a frame.
LEMMA ThrownKept ==
    ASSUME TypeOK, NEW s \in Slots, NEW c \in Classes \cup {Nothing},
           frame' = [frame EXCEPT ![s].thrown = c]
    PROVE  /\ frame' \in [Slots -> [thrown : Classes \cup {Nothing}, prev : Slots \cup {Nothing},
                                    ctx : Seq(Regions)]]
           /\ \A u \in Slots : IsControl(frame'[u].ctx, u[1])
<1> DEFINE g == [frame[s] EXCEPT !.thrown = c]
<1>1. frame' = [frame EXCEPT ![s] = g]
  BY DEF TypeOK
<1>2. /\ g \in [thrown : Classes \cup {Nothing}, prev : Slots \cup {Nothing},
                ctx : Seq(Regions)]
      /\ g.ctx = frame[s].ctx
  BY DEF TypeOK
<1>3. IsControl(g.ctx, s[1])
  BY <1>2 DEF TypeOK
<1> HIDE DEF g
<1> QED
  BY <1>1, <1>2, <1>3, FramesKept

\* Leaving the innermost region, or replacing it by a part of its statement,
\* keeps the controls well formed.
LEMMA LeaveType ==
    ASSUME TypeOK, NEW t \in Threads, ctl[t] # <<>>,
           \/ Leave(t)
           \/ \E r \in Regions : Become(t, r) /\ ~IsCall(r) /\ ~IsCall(Inner(t)) /\ r.slot = Here(t)
    PROVE  /\ ctl' \in [Threads -> Seq(Regions)]
           /\ \A u \in Threads : IsControl(ctl'[u], u) /\ Len(ctl'[u]) <= MaxDepth
<1>1. /\ IsControl(ctl[t], t) /\ Len(ctl[t]) <= MaxDepth /\ MaxDepth \in Nat
      /\ ctl \in [Threads -> Seq(Regions)]
  BY FramesAssumption DEF TypeOK
<1>2. /\ IsControl(Front(ctl[t]), t) /\ Len(Front(ctl[t])) = Len(ctl[t]) - 1
      /\ Len(ctl[t]) \in Nat \ {0}
  BY <1>1, ControlFront
<1>3. CASE Leave(t)
  <2>1. ctl' = [ctl EXCEPT ![t] = Front(ctl[t])]
    BY <1>3 DEF Leave
  <2>2. Len(Front(ctl[t])) <= MaxDepth
    BY <1>1, <1>2
  <2> QED
    BY <1>2, <2>1, <2>2, ControlsKept
<1>4. ASSUME NEW r \in Regions, Become(t, r), ~IsCall(r), ~IsCall(Inner(t)), r.slot = Here(t)
      PROVE  /\ ctl' \in [Threads -> Seq(Regions)]
             /\ \A u \in Threads : IsControl(ctl'[u], u) /\ Len(ctl'[u]) <= MaxDepth
  <2>1. r.slot \in {t} \X {Len(ctl[t])} \X Sites
    BY <1>4, HereType
  <2>2. Len(Front(ctl[t])) + 1 = Len(ctl[t])
    BY <1>2
  <2>3. /\ IsControl(Append(Front(ctl[t]), r), t)
        /\ Len(Append(Front(ctl[t]), r)) = Len(ctl[t])
    BY <1>2, <1>4, <2>1, <2>2, ControlAppend
  <2>4. ctl' = [ctl EXCEPT ![t] = Append(Front(ctl[t]), r)]
    BY <1>4 DEF Become
  <2> QED
    BY <1>1, <2>3, <2>4, ControlsKept
<1> QED
  BY <1>3, <1>4

\* The control that a jump resumes.
LEMMA ResumeType ==
    ASSUME TypeOK, NEW t \in Threads, NEW f \in Slots, f[1] = t, Linked(f, frame)
    PROVE  /\ IsControl(Resume(t, f), t) /\ Len(Resume(t, f)) = f[2] /\ f[2] \in 1 .. MaxDepth
           /\ frame[f].ctx \in Seq(Regions) /\ InTry("landed", f) \in Regions
<1>1. IsControl(frame[f].ctx, t) /\ frame[f].ctx \in Seq(Regions)
  BY DEF TypeOK
<1>2. /\ f[2] \in 1 .. MaxDepth /\ f \in {t} \X {f[2]} \X Sites /\ f # Nothing
  BY FramesAssumption DEF Slots
<1>3. /\ InTry("landed", f) \in Regions /\ ~IsCall(InTry("landed", f))
      /\ InTry("landed", f).slot = f
  BY RegionType DEF InTry, Region
<1>4. Len(frame[f].ctx) + 1 = f[2]
  BY <1>2 DEF Linked
<1> QED
  BY <1>1, <1>2, <1>3, <1>4, ControlAppend DEF Resume

\* A jump keeps the controls well formed, and notes its habit.
LEMMA JumpType ==
    ASSUME TypeOK, NEW t \in Threads, NEW f \in Slots, Linked(f, frame), Jump(t, f)
    PROVE  /\ ctl' \in [Threads -> Seq(Regions)]
           /\ \A u \in Threads : IsControl(ctl'[u], u) /\ Len(ctl'[u]) <= MaxDepth
           /\ status' \in {"running", "exited", "wild"}
           /\ habits' \subseteq AllHabits
<1>1. habits' \subseteq AllHabits
  BY DEF Jump, NotesSkip, Shows, AllHabits, TypeOK
<1>2. CASE ctl' = [ctl EXCEPT ![t] = Resume(t, f)] /\ f[1] = t /\ UNCHANGED status
  <2>1. Len(Resume(t, f)) <= MaxDepth /\ IsControl(Resume(t, f), t)
    BY <1>2, ResumeType, FramesAssumption
  <2> QED
    BY <1>1, <1>2, <2>1, ControlsKept DEF TypeOK
<1>3. CASE status' = "wild" /\ UNCHANGED ctl
  BY <1>1, <1>3 DEF TypeOK
<1> QED
  BY <1>2, <1>3 DEF Jump

\* No thread is in a region at first.
LEMMA TypeInit == Init => TypeOK /\ LinkedInv
<1> SUFFICES ASSUME Init PROVE TypeOK /\ LinkedInv
  OBVIOUS
<1>1. <<>> \in Seq(Regions) /\ Len(<<>>) = 0 /\ DOMAIN <<>> = {}
  BY EmptySeq, LenProperties
<1>2. \A t : IsControl(<<>>, t)
  BY <1>1 DEF IsControl
<1>3. /\ ctl \in [Threads -> Seq(Regions)]
      /\ \A t \in Threads : IsControl(ctl[t], t) /\ Len(ctl[t]) <= MaxDepth
  BY <1>1, <1>2, FramesAssumption DEF Init
<1>4. /\ frame \in [Slots -> [thrown : Classes \cup {Nothing}, prev : Slots \cup {Nothing},
                              ctx : Seq(Regions)]]
      /\ \A s \in Slots : IsControl(frame[s].ctx, s[1]) /\ frame[s].prev = Nothing
  BY <1>1, <1>2 DEF Init, EmptyFrame
<1> QED
  BY <1>3, <1>4, FramesAssumption DEF Init, TypeOK, LinkedInv, Linked

\* The catch clauses run in a part of a try statement.
LEMMA UntakenType ==
    ASSUME TypeOK, NEW t \in Threads, Untaken(t)
    PROVE  /\ ctl[t] # <<>> /\ ~IsCall(Inner(t)) /\ Here(t) \in Slots /\ top = Here(t)
           /\ SiteOf(Here(t)) \in Sites /\ status = "running" /\ Inner(t).part = "landed"
<1>1. ctl[t] # <<>> /\ ~IsCall(Inner(t))
  BY DEF Untaken, Inside, IsCall
<1> QED
  BY <1>1, HereType DEF Untaken, Inside

\* Each step keeps the types, and the frames on the list are pushed ones.
LEMMA TypeStep == TypeOK /\ LinkedInv /\ [Next]_vars => TypeOK' /\ LinkedInv'
<1> SUFFICES ASSUME TypeOK, LinkedInv, [Next]_vars
             PROVE  TypeOK' /\ LinkedInv'
  OBVIOUS
<1> DEFINE CtlOK == /\ ctl' \in [Threads -> Seq(Regions)]
                    /\ \A u \in Threads : IsControl(ctl'[u], u) /\ Len(ctl'[u]) <= MaxDepth
           FrameOK == /\ frame' \in [Slots -> [thrown : Classes \cup {Nothing},
                                               prev : Slots \cup {Nothing}, ctx : Seq(Regions)]]
                      /\ \A s \in Slots : IsControl(frame'[s].ctx, s[1])
           RestOK == /\ top' \in Slots \cup {Nothing} /\ owed' \subseteq Slots
                     /\ status' \in {"running", "exited", "wild"} /\ habits' \subseteq AllHabits
                     /\ tries' \in 0 .. MaxTries /\ throws' \in 0 .. MaxThrows
                     /\ calls' \in 0 .. MaxCalls
           Relinked == \A x \in Slots : frame'[x].ctx = frame[x].ctx /\ frame'[x].prev = frame[x].prev
<1> USE DEF counts
<1>a. CtlOK /\ FrameOK /\ RestOK => TypeOK'
  BY DEF TypeOK, Slots, Regions, IsControl, IsCall
<1>b. ASSUME UNCHANGED ctl PROVE CtlOK
  BY <1>b DEF TypeOK
<1>c. ASSUME UNCHANGED frame PROVE FrameOK /\ Relinked
  BY <1>c DEF TypeOK
<1>d. ASSUME NEW s \in Slots, NEW c \in Classes \cup {Nothing},
             frame' = [frame EXCEPT ![s].thrown = c]
      PROVE  FrameOK /\ Relinked
  BY <1>d, ThrownKept DEF TypeOK
<1>e. ASSUME Relinked, top' \in {top, Nothing} \/ \E s \in Slots : top' = frame[s].prev
      PROVE  LinkedInv'
  <2>1. \A x \in Slots \cup {Nothing} : Linked(x, frame) => Linked(x, frame')
    BY <1>e DEF Linked
  <2>2. top' \in Slots \cup {Nothing} /\ Linked(top', frame')
    BY <1>e, <2>1 DEF LinkedInv, TypeOK, Linked
  <2>3. \A s \in Slots : Linked(frame'[s].prev, frame')
    BY <1>e, <2>1 DEF LinkedInv, TypeOK
  <2> QED
    BY <2>2, <2>3 DEF LinkedInv
<1>f. \A t, x : NotesSkip(t) \/ (Shows(x) /\ x \in AllHabits) \/ UNCHANGED habits
                => habits' \subseteq AllHabits
  BY DEF NotesSkip, Shows, AllHabits, TypeOK
<1> HIDE DEF CtlOK, FrameOK
<1>1. ASSUME NEW t \in Threads, CallFunction(t)
      PROVE  TypeOK' /\ LinkedInv'
  <2>1. calls + 1 \in 1 .. MaxCalls /\ calls + 1 \in Nat
    BY <1>1, FramesAssumption DEF CallFunction, TypeOK
  <2> DEFINE r == Region("call", Nothing, Nothing, calls + 1)
  <2>2. r \in Regions /\ IsCall(r) /\ r.act = calls + 1
    BY <2>1, RegionType DEF Region
  <2>3. IsControl(ctl[t], t) /\ Len(ctl[t]) < MaxDepth /\ ctl' = [ctl EXCEPT ![t] = Append(ctl[t], r)]
    BY <1>1 DEF CallFunction, Running, TypeOK
  <2> HIDE DEF r
  <2>4. IsControl(Append(ctl[t], r), t) /\ Len(Append(ctl[t], r)) <= MaxDepth
    BY <2>1, <2>2, <2>3, ControlAppend, FramesAssumption
  <2>5. CtlOK
    BY <2>3, <2>4, ControlsKept DEF CtlOK
  <2>6. RestOK
    BY <1>1, <2>1 DEF CallFunction, TypeOK
  <2> QED
    BY <1>1, <2>5, <2>6, <1>a, <1>c, <1>e DEF CallFunction
<1>2. ASSUME NEW t \in Threads, Return(t)
      PROVE  TypeOK' /\ LinkedInv'
  <2>1. PICK i \in DOMAIN ctl[t] : ctl' = [ctl EXCEPT ![t] = SubSeq(ctl[t], 1, i - 1)]
    BY <1>2 DEF Return
  <2>2. /\ IsControl(ctl[t], t) /\ ctl[t] \in Seq(Regions) /\ Len(ctl[t]) <= MaxDepth
        /\ Len(ctl[t]) \in Nat /\ MaxDepth \in Nat /\ i \in 1 .. Len(ctl[t])
    BY <2>1, LenProperties, FramesAssumption DEF TypeOK
  <2>3. i - 1 \in 0 .. Len(ctl[t])
    BY <2>2
  <2>4. IsControl(SubSeq(ctl[t], 1, i - 1), t) /\ Len(SubSeq(ctl[t], 1, i - 1)) <= MaxDepth
    BY <2>2, <2>3, ControlPrefix, PrefixType
  <2>5. CtlOK
    BY <2>1, <2>4, ControlsKept DEF CtlOK
  <2>6. RestOK
    BY <1>2, <1>f DEF Return, TypeOK, AllHabits
  <2> QED
    BY <1>2, <2>5, <2>6, <1>a, <1>c, <1>e DEF Return
<1>3. ASSUME NEW t \in Threads, NEW s \in Sites, TryBegins(t, s)
      PROVE  TypeOK' /\ LinkedInv'
  <2> DEFINE x == <<t, Len(ctl[t]) + 1, s>>
             g == [EmptyFrame EXCEPT !.ctx = ctl[t], !.prev = top]
             r == InTry("try", x)
  <2>1. /\ IsControl(ctl[t], t) /\ ctl[t] \in Seq(Regions) /\ Len(ctl[t]) < MaxDepth
        /\ Len(ctl[t]) \in Nat /\ MaxDepth \in Nat
    BY <1>3, LenProperties, FramesAssumption DEF TypeOK, TryBegins, Running
  <2>2. x \in Slots /\ x \in {t} \X {Len(ctl[t]) + 1} \X Sites
        /\ x[1] = t /\ x[2] = Len(ctl[t]) + 1
    BY <2>1 DEF Slots
  <2>3. /\ g \in [thrown : Classes \cup {Nothing}, prev : Slots \cup {Nothing}, ctx : Seq(Regions)]
        /\ g.ctx = ctl[t] /\ g.prev = top
    BY <2>1 DEF EmptyFrame, TypeOK
  <2>4. r \in Regions /\ ~IsCall(r) /\ r.slot = x
    BY <2>2, RegionType DEF InTry, Region
  <2>5. /\ frame' = [frame EXCEPT ![x] = g] /\ top' = x
        /\ ctl' = [ctl EXCEPT ![t] = Append(ctl[t], r)]
    BY <1>3 DEF TryBegins, Push
  <2>6. RestOK
    <3>1. tries' = tries + 1 /\ tries < MaxTries /\ UNCHANGED <<status, habits, throws, calls>>
      BY <1>3 DEF TryBegins
    <3>2. tries' \in 0 .. MaxTries
      BY <3>1, FramesAssumption DEF TypeOK
    <3>3. owed' \subseteq owed \cup {x}
      BY <1>3 DEF TryBegins
    <3> QED
      BY <2>2, <2>5, <3>1, <3>2, <3>3 DEF TypeOK
  <2> HIDE DEF x, g, r
  <2>7. FrameOK
    BY <2>1, <2>2, <2>3, <2>5, FramesKept DEF FrameOK
  <2>8. IsControl(Append(ctl[t], r), t) /\ Len(Append(ctl[t], r)) <= MaxDepth
    BY <2>1, <2>2, <2>4, ControlAppend
  <2>9. CtlOK
    BY <2>5, <2>8, ControlsKept DEF CtlOK
  <2>10. LinkedInv'
    <3>1. \A y \in Slots : frame'[y] = IF y = x THEN g ELSE frame[y]
      BY <2>2, <2>5 DEF TypeOK
    <3>2. Linked(x, frame')
      BY <2>1, <2>2, <2>3, <3>1 DEF Linked
    <3>3. \A y \in Slots \cup {Nothing} : Linked(y, frame) => Linked(y, frame')
      BY <3>1, <3>2 DEF Linked
    <3>4. \A y \in Slots : frame'[y].prev \in Slots \cup {Nothing} /\ Linked(frame'[y].prev, frame')
      BY <2>3, <3>1, <3>3 DEF TypeOK, LinkedInv
    <3> QED
      BY <2>5, <3>2, <3>4 DEF LinkedInv
  <2> QED
    BY <2>6, <2>7, <2>9, <2>10, <1>a
<1>4. ASSUME NEW t \in Threads, NEW c \in Classes, Throw(t, c)
      PROVE  TypeOK' /\ LinkedInv'
  <2>1. /\ top' = top /\ owed' \subseteq Slots /\ tries' \in 0 .. MaxTries
        /\ throws' \in 0 .. MaxThrows /\ calls' \in 0 .. MaxCalls
    BY <1>4, FramesAssumption DEF Throw, TypeOK
  <2>2. CASE top # Nothing /\ frame' = [frame EXCEPT ![top].thrown = c] /\ Jump(t, top)
    <3>1. top \in Slots /\ Linked(top, frame)
      BY <2>2 DEF TypeOK, LinkedInv
    <3>2. CtlOK /\ RestOK
      BY <2>1, <2>2, <3>1, JumpType DEF CtlOK, TypeOK
    <3>3. FrameOK /\ Relinked
      BY <2>2, <3>1, <1>d
    <3> QED
      BY <2>1, <3>2, <3>3, <1>a, <1>e
  <2>3. CASE status' = "exited" /\ NotesSkip(t) /\ UNCHANGED <<ctl, frame>>
    BY <2>1, <2>3, <1>a, <1>b, <1>c, <1>e, <1>f DEF TypeOK
  <2> QED
    BY <1>4, <2>2, <2>3 DEF Throw
<1>5. ASSUME NEW t \in Threads, CatchBegins(t) \/ AnyIgnores(t)
      PROVE  TypeOK' /\ LinkedInv'
  <2>1. ctl[t] # <<>> /\ ~IsCall(Inner(t)) /\ Here(t) \in Slots
    BY <1>5, UntakenType DEF CatchBegins, AnyIgnores
  <2>2. InTry("catch", Here(t)) \in Regions /\ ~IsCall(InTry("catch", Here(t)))
        /\ InTry("catch", Here(t)).slot = Here(t)
    BY <2>1, RegionType DEF InTry, Region
  <2>3. Leave(t) \/ Become(t, InTry("catch", Here(t)))
    BY <1>5 DEF CatchBegins, AnyIgnores
  <2>4. CtlOK
    BY <2>1, <2>2, <2>3, LeaveType DEF CtlOK
  <2>5. frame' = [frame EXCEPT ![Here(t)].thrown = Nothing] /\ top' = frame[Here(t)].prev
        /\ UNCHANGED <<status, owed, habits, counts>>
    BY <1>5 DEF CatchBegins, AnyIgnores, Clear, Below
  <2>6. FrameOK /\ Relinked
    BY <2>1, <2>5, <1>d
  <2>7. RestOK
    BY <2>1, <2>5 DEF TypeOK
  <2> QED
    BY <2>1, <2>4, <2>5, <2>6, <2>7, <1>a, <1>e
<1>6. ASSUME NEW t \in Threads, Rethrow(t)
      PROVE  TypeOK' /\ LinkedInv'
  <2> DEFINE b == Below(Here(t))
  <2>1. ctl[t] # <<>> /\ Here(t) \in Slots /\ b = frame[Here(t)].prev
        /\ Caught(t) \in Classes \cup {Nothing} /\ b \in Slots \cup {Nothing} /\ Linked(b, frame)
    BY <1>6, UntakenType DEF Rethrow, Below, TypeOK, LinkedInv, Caught
  <2>2. top' = b /\ UNCHANGED <<owed, counts>>
    BY <1>6 DEF Rethrow
  <2>3. CASE b # Nothing /\ frame' = [frame EXCEPT ![b].thrown = Caught(t)] /\ Jump(t, b)
    <3> HIDE DEF b
    <3>1. CtlOK /\ RestOK
      BY <2>1, <2>2, <2>3, JumpType DEF CtlOK, TypeOK
    <3>2. FrameOK /\ Relinked
      BY <2>1, <2>3, <1>d
    <3> QED
      BY <2>1, <2>2, <3>1, <3>2, <1>a, <1>e
  <2>4. CASE Leave(t) /\ UNCHANGED <<frame, status, habits>>
    <3>1. CtlOK
      BY <2>1, <2>4, LeaveType DEF CtlOK
    <3> QED
      BY <2>1, <2>2, <2>4, <3>1, <1>a, <1>c, <1>e DEF TypeOK
  <2> QED
    BY <1>6, <2>3, <2>4 DEF Rethrow
<1>7. ASSUME NEW t \in Threads, FinallyBegins(t)
      PROVE  TypeOK' /\ LinkedInv'
  <2> DEFINE pend == IF top = Here(t) THEN frame[Here(t)].thrown ELSE Nothing
             r == Region("finally", Here(t), pend, 0)
  <2>1. ctl[t] # <<>> /\ ~IsCall(Inner(t)) /\ Here(t) \in Slots
    BY <1>7, HereType DEF FinallyBegins, ReachesFinally
  <2>2. pend \in Classes \cup {Nothing}
    BY <2>1 DEF TypeOK
  <2>3. r \in Regions /\ ~IsCall(r) /\ r.slot = Here(t) /\ Become(t, r)
    BY <1>7, <2>1, <2>2, RegionType DEF Region, FinallyBegins
  <2>4. /\ top' = IF top = Here(t) THEN frame[Here(t)].prev ELSE top
        /\ frame' = [frame EXCEPT ![Here(t)].thrown = Nothing] \/ frame' = frame
        /\ owed' \subseteq owed
        /\ UNCHANGED <<status, habits, counts>>
    BY <1>7 DEF FinallyBegins, Clear, Below
  <2> HIDE DEF r, pend
  <2>5. CtlOK
    BY <2>1, <2>3, LeaveType DEF CtlOK
  <2>6. FrameOK /\ Relinked
    BY <2>1, <2>4, <1>c, <1>d
  <2>7. RestOK
    BY <2>1, <2>4 DEF TypeOK
  <2> QED
    BY <2>1, <2>4, <2>5, <2>6, <2>7, <1>a, <1>e
<1>8. ASSUME NEW t \in Threads, FinallyEnds(t)
      PROVE  TypeOK' /\ LinkedInv'
  <2>1. ctl[t] # <<>> /\ ~IsCall(Inner(t)) /\ Inner(t) \in Regions
    BY <1>8, HereType DEF FinallyEnds, Inside, IsCall
  <2>2. UNCHANGED <<top, owed, counts>> /\ Inner(t).pend \in Classes \cup {Nothing}
    BY <1>8, <2>1 DEF FinallyEnds, Regions
  <2>3. CASE top # Nothing /\ frame' = [frame EXCEPT ![top].thrown = Inner(t).pend] /\ Jump(t, top)
    <3>1. top \in Slots /\ Linked(top, frame)
      BY <2>3 DEF TypeOK, LinkedInv
    <3>2. CtlOK /\ RestOK
      BY <2>2, <2>3, <3>1, JumpType DEF CtlOK, TypeOK
    <3>3. FrameOK /\ Relinked
      BY <2>2, <2>3, <3>1, <1>d
    <3> QED
      BY <2>2, <3>2, <3>3, <1>a, <1>e
  <2>4. CASE Leave(t) /\ UNCHANGED <<frame, status, habits>>
    <3>1. CtlOK
      BY <2>1, <2>4, LeaveType DEF CtlOK
    <3> QED
      BY <2>1, <2>2, <2>4, <3>1, <1>a, <1>c, <1>e DEF TypeOK
  <2> QED
    BY <1>8, <2>3, <2>4 DEF FinallyEnds
<1>9. ASSUME NEW t \in Threads, CatchEnds(t) \/ BodyEnds(t) \/ Break(t)
      PROVE  TypeOK' /\ LinkedInv'
  <2>1. ctl[t] # <<>> /\ Leave(t) /\ UNCHANGED <<top, frame, status, owed, counts>>
    BY <1>9 DEF CatchEnds, BodyEnds, Break, Inside
  <2>2. habits' \subseteq AllHabits
    BY <1>9, <1>f DEF CatchEnds, BodyEnds, Break, AllHabits, TypeOK
  <2>3. CtlOK
    BY <2>1, LeaveType DEF CtlOK
  <2> QED
    BY <2>1, <2>2, <2>3, <1>a, <1>c, <1>e DEF TypeOK
<1>10. ASSUME UNCHANGED vars
       PROVE  TypeOK' /\ LinkedInv'
  BY <1>10, <1>a, <1>b, <1>c, <1>e DEF vars, TypeOK
<1> QED
  BY <1>1, <1>2, <1>3, <1>4, <1>5, <1>6, <1>7, <1>8, <1>9, <1>10 DEF Next

\* Type correctness, for any number of threads.
THEOREM TypeCorrect == Spec => []TypeOK
<1>1. TypeOK /\ LinkedInv /\ [Next]_vars => (TypeOK /\ LinkedInv)'
  BY TypeStep
<1> QED
  BY TypeInit, <1>1, PTL DEF Spec

-----------------------------------------------------------------------------
\* What the steps do to a control

\* Two sequences that agree have the same prefix.
LEMMA SamePrefix ==
    ASSUME NEW X, NEW c \in Seq(X), NEW d \in Seq(X), NEW n \in Nat, Agree(c, d, n)
    PROVE  SubSeq(c, 1, n) = SubSeq(d, 1, n)
<1> DEFINE p == SubSeq(c, 1, n)
           q == SubSeq(d, 1, n)
<1>1. n \in 0 .. Len(c) /\ n \in 0 .. Len(d) /\ \A k \in 1 .. n : c[k] = d[k]
  BY LenProperties DEF Agree
<1>2. /\ p \in Seq(X) /\ Len(p) = n /\ \A k \in 1 .. n : p[k] = c[k]
      /\ q \in Seq(X) /\ Len(q) = n /\ \A k \in 1 .. n : q[k] = d[k]
  BY <1>1, PrefixType
<1>3. p = [k \in 1 .. n |-> p[k]] /\ q = [k \in 1 .. n |-> q[k]]
  BY <1>2, LenProperties
<1> HIDE DEF p, q
<1>4. p = q
  BY <1>1, <1>2, <1>3
<1> QED
  BY <1>4 DEF p, q

\* The control d is c, cut after n regions.
Cut(c, d, n) == d \in Seq(Regions) /\ n \in Nat /\ Len(d) = n /\ Agree(d, c, n)

\* The control e is d and one region r more.
Longer(d, e, r) ==
    /\ e \in Seq(Regions) /\ Len(e) = Len(d) + 1 /\ Agree(e, d, Len(d)) /\ e[Len(e)] = r

\* An element more makes a control longer.
LEMMA AppendLonger ==
    ASSUME NEW d \in Seq(Regions), NEW r \in Regions
    PROVE  /\ Longer(d, Append(d, r), r) /\ Last(Append(d, r)) = r
           /\ Append(d, r) # <<>> /\ Cut(Append(d, r), d, Len(d))
<1>1. Len(d) \in Nat /\ Append(d, r) \in Seq(Regions) /\ Len(Append(d, r)) = Len(d) + 1
  BY AppendType
<1> QED
  BY <1>1, AppendType DEF Longer, Agree, Cut

\* A prefix cuts, and so does Front.
LEMMA PrefixCuts ==
    ASSUME NEW c \in Seq(Regions)
    PROVE  /\ \A n \in 0 .. Len(c) : Cut(c, SubSeq(c, 1, n), n)
           /\ c # <<>> => Cut(c, Front(c), Len(c) - 1)
<1>1. Len(c) \in Nat
  BY LenProperties
<1>2. ASSUME NEW n \in 0 .. Len(c)
      PROVE  Cut(c, SubSeq(c, 1, n), n)
  BY <1>1, <1>2, PrefixType DEF Cut, Agree
<1>3. ASSUME c # <<>>
      PROVE  Cut(c, Front(c), Len(c) - 1)
  BY <1>1, <1>3, FrontType DEF Cut, Agree
<1> QED
  BY <1>2, <1>3

\* Leaving: the control without its innermost region.
LEMMA LeaveShape ==
    ASSUME TypeOK, NEW t \in Threads, ctl[t] # <<>>, Leave(t)
    PROVE  /\ Cut(ctl[t], ctl'[t], Len(ctl[t]) - 1) /\ Len(ctl[t]) \in Nat \ {0}
           /\ \A u \in Threads \ {t} : ctl'[u] = ctl[u]
<1>1. ctl[t] \in Seq(Regions) /\ ctl' = [ctl EXCEPT ![t] = Front(ctl[t])]
  BY DEF TypeOK, Leave
<1>2. ctl'[t] = Front(ctl[t]) /\ \A u \in Threads \ {t} : ctl'[u] = ctl[u]
  BY <1>1 DEF TypeOK
<1> QED
  BY <1>1, <1>2, PrefixCuts, FrontType

\* Becoming: another region in the place of the innermost one.
LEMMA BecomeShape ==
    ASSUME TypeOK, NEW t \in Threads, ctl[t] # <<>>, NEW r \in Regions, Become(t, r)
    PROVE  /\ Cut(ctl[t], Front(ctl[t]), Len(ctl[t]) - 1) /\ Len(ctl[t]) \in Nat \ {0}
           /\ Longer(Front(ctl[t]), ctl'[t], r)
           /\ \A u \in Threads \ {t} : ctl'[u] = ctl[u]
<1>1. ctl[t] \in Seq(Regions) /\ ctl' = [ctl EXCEPT ![t] = Append(Front(ctl[t]), r)]
  BY DEF TypeOK, Become
<1>2. ctl'[t] = Append(Front(ctl[t]), r) /\ \A u \in Threads \ {t} : ctl'[u] = ctl[u]
  BY <1>1 DEF TypeOK
<1> QED
  BY <1>1, <1>2, PrefixCuts, FrontType, AppendLonger

\* Entering: one region more.
LEMMA EnterShape ==
    ASSUME TypeOK, NEW t \in Threads, NEW r \in Regions,
           ctl' = [ctl EXCEPT ![t] = Append(@, r)]
    PROVE  /\ Longer(ctl[t], ctl'[t], r)
           /\ \A u \in Threads \ {t} : ctl'[u] = ctl[u]
<1>1. ctl[t] \in Seq(Regions) /\ ctl'[t] = Append(ctl[t], r)
      /\ \A u \in Threads \ {t} : ctl'[u] = ctl[u]
  BY DEF TypeOK
<1> QED
  BY <1>1, AppendLonger

\* Returning: the control outside of the innermost call.
LEMMA ReturnShape ==
    ASSUME TypeOK, NEW t \in Threads, Return(t)
    PROVE  /\ ~Inside(t, "landed") /\ Len(ctl[t]) \in Nat
           /\ \E i \in 1 .. Len(ctl[t]) :
                 /\ Cut(ctl[t], ctl'[t], i - 1)
                 /\ IsCall(ctl[t][i])
                 /\ \/ habits' = habits \cup {"leave"}
                    \/ /\ \A j \in i .. Len(ctl[t]) : ~Fragile(ctl[t][j])
                       /\ habits' = habits
           /\ \A u \in Threads \ {t} : ctl'[u] = ctl[u]
           /\ UNCHANGED <<top, frame, status, owed>>
<1>1. PICK i \in DOMAIN ctl[t] :
        /\ ~Inside(t, "landed") /\ IsCall(ctl[t][i])
        /\ ctl' = [ctl EXCEPT ![t] = SubSeq(@, 1, i - 1)]
        /\ IF \E j \in i + 1 .. Len(ctl[t]) : Fragile(ctl[t][j])
           THEN Shows("leave") ELSE UNCHANGED habits
        /\ UNCHANGED <<top, frame, status, owed>>
  BY DEF Return
<1>2. ctl[t] \in Seq(Regions) /\ Len(ctl[t]) \in Nat /\ i \in 1 .. Len(ctl[t])
      /\ i - 1 \in 0 .. Len(ctl[t])
  BY LenProperties DEF TypeOK
<1>3. ctl'[t] = SubSeq(ctl[t], 1, i - 1) /\ \A u \in Threads \ {t} : ctl'[u] = ctl[u]
  BY <1>1 DEF TypeOK
<1>4. Cut(ctl[t], ctl'[t], i - 1)
  BY <1>2, <1>3, PrefixCuts
<1>5. ~Fragile(ctl[t][i])
  BY <1>1 DEF IsCall, Fragile
<1>6. \/ habits' = habits \cup {"leave"}
      \/ (\A j \in i .. Len(ctl[t]) : ~Fragile(ctl[t][j])) /\ habits' = habits
  <2>1. CASE \E j \in i + 1 .. Len(ctl[t]) : Fragile(ctl[t][j])
    BY <1>1, <2>1 DEF Shows
  <2>2. CASE ~\E j \in i + 1 .. Len(ctl[t]) : Fragile(ctl[t][j])
    <3>1. \A j \in i .. Len(ctl[t]) : j = i \/ j \in i + 1 .. Len(ctl[t])
      BY <1>2
    <3> QED
      BY <1>1, <1>5, <2>2, <3>1
  <2> QED
    BY <2>1, <2>2
<1> QED
  BY <1>1, <1>2, <1>3, <1>4, <1>6

\* A jump resumes the control of the frame, or is undefined.
LEMMA JumpShape ==
    ASSUME TypeOK, NEW t \in Threads, NEW f \in Slots, Linked(f, frame), Jump(t, f)
    PROVE  /\ \/ /\ f[1] = t /\ ctl'[t] = Resume(t, f) /\ UNCHANGED status
                 /\ \A u \in Threads \ {t} : ctl'[u] = ctl[u]
                 /\ Longer(frame[f].ctx, ctl'[t], InTry("landed", f))
                 /\ Last(ctl'[t]) = InTry("landed", f)
                 /\ frame[f].ctx \in Seq(Regions) /\ Len(frame[f].ctx) + 1 = f[2]
              \/ f \notin Open(t) /\ status' = "wild" /\ UNCHANGED ctl
           /\ \/ habits' = habits \cup {"rethrow"}
              \/ ~SkipsFinally(t) /\ habits' = habits
<1>1. \/ habits' = habits \cup {"rethrow"}
      \/ ~SkipsFinally(t) /\ habits' = habits
  BY DEF Jump, NotesSkip, Shows
<1>2. CASE f[1] = t /\ ctl' = [ctl EXCEPT ![t] = Resume(t, f)] /\ UNCHANGED status
  <2>1. /\ frame[f].ctx \in Seq(Regions) /\ InTry("landed", f) \in Regions
    BY <1>2, ResumeType
  <2>2. Len(frame[f].ctx) + 1 = f[2]
    BY FramesAssumption DEF Linked
  <2>3. ctl'[t] = Resume(t, f) /\ \A u \in Threads \ {t} : ctl'[u] = ctl[u]
    BY <1>2 DEF TypeOK
  <2> QED
    BY <1>1, <1>2, <2>1, <2>2, <2>3, AppendLonger DEF Resume
<1>3. CASE f \notin Open(t) /\ status' = "wild" /\ UNCHANGED ctl
  BY <1>1, <1>3
<1> QED
  BY <1>2, <1>3 DEF Jump

-----------------------------------------------------------------------------
\* setjmp returns 1 into the innermost region

\* A control in which no region has landed.
NoLanded(c) == \A k \in DOMAIN c : c[k].part # "landed"

\* Nothing of a shorter control has landed.
LEMMA CutLands ==
    ASSUME TypeOK, LandedInv, NEW t \in Threads, NEW d, NEW n, n < Len(ctl[t]), Cut(ctl[t], d, n)
    PROVE  NoLanded(d) /\ (d # <<>> => Last(d).part # "landed")
<1>1. /\ ctl[t] \in Seq(Regions) /\ DOMAIN ctl[t] = 1 .. Len(ctl[t]) /\ Len(ctl[t]) \in Nat
      /\ d \in Seq(Regions) /\ DOMAIN d = 1 .. n /\ n \in Nat /\ Len(d) = n
      /\ \A k \in 1 .. n : d[k] = ctl[t][k]
  BY LenProperties DEF TypeOK, Cut, Agree
<1>2. ASSUME NEW k \in 1 .. n
      PROVE  d[k].part # "landed"
  BY <1>1, <1>2 DEF LandedInv
<1>3. d # <<>> => n \in 1 .. n
  BY <1>1, EmptySeq
<1> QED
  BY <1>1, <1>2, <1>3 DEF NoLanded, Last

\* In a longer one only the new region can have.
LEMMA LongerLands ==
    ASSUME NEW d \in Seq(Regions), NoLanded(d), NEW e, NEW r, Longer(d, e, r)
    PROVE  /\ \A k \in DOMAIN e : e[k].part = "landed" => k = Len(e)
           /\ r.part # "landed" => NoLanded(e)
           /\ e # <<>> /\ Last(e) = r
<1>1. /\ DOMAIN d = 1 .. Len(d) /\ Len(d) \in Nat /\ e \in Seq(Regions)
      /\ Len(e) = Len(d) + 1 /\ DOMAIN e = 1 .. Len(d) + 1 /\ e[Len(d) + 1] = r
      /\ \A k \in 1 .. Len(d) : e[k] = d[k]
  BY LenProperties DEF Longer, Agree
<1>2. e # <<>> /\ Last(e) = r
  BY <1>1, EmptySeq DEF Last
<1> QED
  BY <1>1, <1>2 DEF NoLanded

\* A control outside of setjmp's return has no landed region.
LEMMA NotLanded ==
    ASSUME TypeOK, LandedInv, NEW t \in Threads, ~Inside(t, "landed")
    PROVE  NoLanded(ctl[t])
<1>1. /\ ctl[t] \in Seq(Regions) /\ DOMAIN ctl[t] = 1 .. Len(ctl[t]) /\ Len(ctl[t]) \in Nat
  BY LenProperties DEF TypeOK
<1>2. ASSUME NEW k \in DOMAIN ctl[t], ctl[t][k].part = "landed"
      PROVE  FALSE
  <2>1. k = Len(ctl[t]) /\ ctl[t] # <<>>
    BY <1>1, <1>2, EmptySeq DEF LandedInv
  <2> QED
    BY <1>2, <2>1 DEF Inside, Inner, Last
<1> QED
  BY <1>2 DEF NoLanded

\* Each step keeps that, and only a jump lands.
LEMMA LandStep ==
    ASSUME TypeOK, LinkedInv, LandedInv, [Next]_vars
    PROVE  /\ LandedInv'
           /\ \A u \in Threads :
                 (ctl'[u] # ctl[u] /\ ctl'[u] # <<>> /\ Last(ctl'[u]).part = "landed") =>
                    (\E c \in Classes : Throw(u, c)) \/ Rethrow(u) \/ FinallyEnds(u)
<1> DEFINE Jumps(u) == (\E c \in Classes : Throw(u, c)) \/ Rethrow(u) \/ FinallyEnds(u)
           Goal == /\ LandedInv'
                   /\ \A u \in Threads :
                         (ctl'[u] # ctl[u] /\ ctl'[u] # <<>> /\ Last(ctl'[u]).part = "landed")
                            => Jumps(u)
           SameFrames == \A s \in Slots : frame'[s].ctx = frame[s].ctx
<1> HIDE DEF Jumps
<1>a. ASSUME UNCHANGED ctl, SameFrames
      PROVE  Goal
  BY <1>a DEF LandedInv
<1>b. ASSUME NEW t \in Threads, \A u \in Threads \ {t} : ctl'[u] = ctl[u],
             NoLanded(ctl'[t]), ctl'[t] # <<>> => Last(ctl'[t]).part # "landed",
             \A s \in Slots : NoLanded(frame'[s].ctx)
      PROVE  Goal
  BY <1>b DEF LandedInv, NoLanded
<1>c. ASSUME NEW t \in Threads, \A u \in Threads \ {t} : ctl'[u] = ctl[u],
             \A k \in DOMAIN ctl'[t] : ctl'[t][k].part = "landed" => k = Len(ctl'[t]),
             SameFrames, Jumps(t)
      PROVE  Goal
  BY <1>c DEF LandedInv
<1>d. ASSUME NEW t \in Threads, ctl[t] # <<>>, Leave(t), SameFrames
      PROVE  Goal
  <2>1. /\ Cut(ctl[t], ctl'[t], Len(ctl[t]) - 1) /\ Len(ctl[t]) - 1 < Len(ctl[t])
        /\ \A u \in Threads \ {t} : ctl'[u] = ctl[u]
    BY <1>d, LeaveShape
  <2>2. NoLanded(ctl'[t]) /\ (ctl'[t] # <<>> => Last(ctl'[t]).part # "landed")
    BY <2>1, CutLands
  <2>3. \A s \in Slots : NoLanded(frame'[s].ctx)
    BY <1>d DEF LandedInv, NoLanded
  <2> QED
    BY <2>1, <2>2, <2>3, <1>b
<1>e. ASSUME NEW t \in Threads, ctl[t] # <<>>, NEW r \in Regions, Become(t, r),
             r.part # "landed", SameFrames
      PROVE  Goal
  <2>1. /\ Cut(ctl[t], Front(ctl[t]), Len(ctl[t]) - 1) /\ Len(ctl[t]) - 1 < Len(ctl[t])
        /\ Longer(Front(ctl[t]), ctl'[t], r)
        /\ \A u \in Threads \ {t} : ctl'[u] = ctl[u]
    BY <1>e, BecomeShape
  <2>2. NoLanded(Front(ctl[t])) /\ Front(ctl[t]) \in Seq(Regions)
    BY <2>1, CutLands DEF Cut
  <2>3. NoLanded(ctl'[t]) /\ Last(ctl'[t]) = r
    BY <1>e, <2>1, <2>2, LongerLands
  <2>4. \A s \in Slots : NoLanded(frame'[s].ctx)
    BY <1>e DEF LandedInv, NoLanded
  <2> QED
    BY <1>e, <2>1, <2>3, <2>4, <1>b
<1>f. ASSUME NEW t \in Threads, NEW f \in Slots, Linked(f, frame), Jump(t, f), Jumps(t), SameFrames
      PROVE  Goal
  <2>1. CASE UNCHANGED ctl
    BY <1>f, <2>1, <1>a
  <2>2. CASE ctl' # ctl
    <3>1. /\ \A u \in Threads \ {t} : ctl'[u] = ctl[u]
          /\ Longer(frame[f].ctx, ctl'[t], InTry("landed", f))
          /\ frame[f].ctx \in Seq(Regions)
      BY <1>f, <2>2, JumpShape
    <3>2. NoLanded(frame[f].ctx)
      BY DEF LandedInv, NoLanded
    <3>3. \A k \in DOMAIN ctl'[t] : ctl'[t][k].part = "landed" => k = Len(ctl'[t])
      BY <3>1, <3>2, LongerLands
    <3> QED
      BY <1>f, <3>1, <3>3, <1>c
  <2> QED
    BY <2>1, <2>2
<1> HIDE DEF Goal
<1>1. ASSUME NEW t \in Threads, CallFunction(t)
      PROVE  Goal
  <2> DEFINE r == Region("call", Nothing, Nothing, calls + 1)
  <2>1. r \in Regions /\ r.part # "landed"
    BY RegionType DEF Region, TypeOK
  <2>2. ctl' = [ctl EXCEPT ![t] = Append(@, r)] /\ ~Inside(t, "landed") /\ UNCHANGED frame
    BY <1>1 DEF CallFunction, Running
  <2> HIDE DEF r
  <2>3. Longer(ctl[t], ctl'[t], r) /\ \A u \in Threads \ {t} : ctl'[u] = ctl[u]
    BY <2>1, <2>2, EnterShape
  <2>4. NoLanded(ctl[t]) /\ ctl[t] \in Seq(Regions)
    BY <2>2, NotLanded DEF TypeOK
  <2>5. NoLanded(ctl'[t]) /\ Last(ctl'[t]) = r
    BY <2>1, <2>3, <2>4, LongerLands
  <2>6. \A s \in Slots : NoLanded(frame'[s].ctx)
    BY <2>2 DEF LandedInv, NoLanded
  <2> QED
    BY <2>1, <2>3, <2>5, <2>6, <1>b
<1>2. ASSUME NEW t \in Threads, Return(t)
      PROVE  Goal
  <2>1. PICK i \in 1 .. Len(ctl[t]) : Cut(ctl[t], ctl'[t], i - 1)
    BY <1>2, ReturnShape
  <2>2. /\ \A u \in Threads \ {t} : ctl'[u] = ctl[u]
        /\ UNCHANGED frame /\ i - 1 < Len(ctl[t])
    BY <1>2, ReturnShape
  <2>3. NoLanded(ctl'[t]) /\ (ctl'[t] # <<>> => Last(ctl'[t]).part # "landed")
    BY <2>1, <2>2, CutLands
  <2>4. \A s \in Slots : NoLanded(frame'[s].ctx)
    BY <2>2 DEF LandedInv, NoLanded
  <2> QED
    BY <2>2, <2>3, <2>4, <1>b
<1>3. ASSUME NEW t \in Threads, NEW s \in Sites, TryBegins(t, s)
      PROVE  Goal
  <2> DEFINE x == <<t, Len(ctl[t]) + 1, s>>
             r == InTry("try", x)
  <2>1. /\ ctl' = [ctl EXCEPT ![t] = Append(@, r)] /\ ~Inside(t, "landed")
        /\ frame' = [frame EXCEPT ![x] = [EmptyFrame EXCEPT !.ctx = ctl[t], !.prev = top]]
        /\ Len(ctl[t]) < MaxDepth
    BY <1>3 DEF TryBegins, Running, Push
  <2>2. x \in Slots
    BY <2>1, LenProperties, FramesAssumption DEF Slots, TypeOK
  <2>3. r \in Regions /\ r.part # "landed"
    BY <2>2, RegionType DEF InTry, Region
  <2> HIDE DEF r
  <2>4. Longer(ctl[t], ctl'[t], r) /\ \A u \in Threads \ {t} : ctl'[u] = ctl[u]
    BY <2>1, <2>3, EnterShape
  <2>5. NoLanded(ctl[t]) /\ ctl[t] \in Seq(Regions)
    BY <2>1, NotLanded DEF TypeOK
  <2>6. NoLanded(ctl'[t]) /\ Last(ctl'[t]) = r
    BY <2>3, <2>4, <2>5, LongerLands
  <2> HIDE DEF x
  <2>7. \A y \in Slots : frame'[y].ctx = IF y = x THEN ctl[t] ELSE frame[y].ctx
    BY <2>1 DEF TypeOK, EmptyFrame
  <2>8. \A y \in Slots : NoLanded(frame'[y].ctx)
    BY <2>5, <2>7 DEF LandedInv, NoLanded
  <2> QED
    BY <2>3, <2>4, <2>6, <2>8, <1>b
<1>4. ASSUME NEW t \in Threads, NEW c \in Classes, Throw(t, c)
      PROVE  Goal
  <2>1. Jumps(t)
    BY <1>4 DEF Jumps
  <2>2. CASE top # Nothing /\ frame' = [frame EXCEPT ![top].thrown = c] /\ Jump(t, top)
    <3>1. SameFrames /\ top \in Slots /\ Linked(top, frame)
      BY <2>2 DEF TypeOK, LinkedInv
    <3> QED
      BY <2>1, <2>2, <3>1, <1>f
  <2>3. CASE UNCHANGED <<ctl, frame>>
    BY <2>3, <1>a DEF Goal
  <2> QED
    BY <1>4, <2>2, <2>3 DEF Throw
<1>5. ASSUME NEW t \in Threads, CatchBegins(t) \/ AnyIgnores(t)
      PROVE  Goal
  <2>1. ctl[t] # <<>> /\ Here(t) \in Slots
    BY <1>5, UntakenType DEF CatchBegins, AnyIgnores
  <2>2. InTry("catch", Here(t)) \in Regions /\ InTry("catch", Here(t)).part # "landed"
    BY <2>1, RegionType DEF InTry, Region
  <2>3. Leave(t) \/ Become(t, InTry("catch", Here(t)))
    BY <1>5 DEF CatchBegins, AnyIgnores
  <2>4. SameFrames
    BY <1>5, <2>1 DEF CatchBegins, AnyIgnores, Clear, TypeOK
  <2> QED
    BY <2>1, <2>2, <2>3, <2>4, <1>d, <1>e
<1>6. ASSUME NEW t \in Threads, Rethrow(t)
      PROVE  Goal
  <2> DEFINE b == Below(Here(t))
  <2>1. ctl[t] # <<>> /\ Here(t) \in Slots /\ b \in Slots \cup {Nothing} /\ Linked(b, frame)
    BY <1>6, UntakenType DEF Rethrow, Below, TypeOK, LinkedInv
  <2>2. CASE b # Nothing /\ frame' = [frame EXCEPT ![b].thrown = Caught(t)] /\ Jump(t, b)
    <3>1. SameFrames /\ b \in Slots /\ Jumps(t)
      BY <1>6, <2>1, <2>2 DEF TypeOK, Jumps
    <3> QED
      BY <2>1, <2>2, <3>1, <1>f
  <2>3. CASE Leave(t) /\ UNCHANGED frame
    BY <2>1, <2>3, <1>d
  <2> QED
    BY <1>6, <2>2, <2>3 DEF Rethrow
<1>7. ASSUME NEW t \in Threads, FinallyBegins(t)
      PROVE  Goal
  <2>1. ctl[t] # <<>> /\ ~IsCall(Inner(t)) /\ Here(t) \in Slots
    BY <1>7, HereType DEF FinallyBegins, ReachesFinally
  <2>2. PICK pend \in Classes \cup {Nothing} : Become(t, Region("finally", Here(t), pend, 0))
    BY <1>7, <2>1 DEF FinallyBegins, TypeOK
  <2>3. /\ Region("finally", Here(t), pend, 0) \in Regions
        /\ Region("finally", Here(t), pend, 0).part # "landed"
    BY <2>1, RegionType DEF Region
  <2>4. SameFrames
    BY <1>7, <2>1 DEF FinallyBegins, Clear, TypeOK
  <2> QED
    BY <2>1, <2>2, <2>3, <2>4, <1>e
<1>8. ASSUME NEW t \in Threads, FinallyEnds(t)
      PROVE  Goal
  <2>1. ctl[t] # <<>> /\ Jumps(t)
    BY <1>8 DEF FinallyEnds, Inside, Jumps
  <2>2. CASE top # Nothing /\ frame' = [frame EXCEPT ![top].thrown = Inner(t).pend] /\ Jump(t, top)
    <3>1. SameFrames /\ top \in Slots /\ Linked(top, frame)
      BY <2>2 DEF TypeOK, LinkedInv
    <3> QED
      BY <2>1, <2>2, <3>1, <1>f
  <2>3. CASE Leave(t) /\ UNCHANGED frame
    BY <2>1, <2>3, <1>d
  <2> QED
    BY <1>8, <2>2, <2>3 DEF FinallyEnds
<1>9. ASSUME NEW t \in Threads, CatchEnds(t) \/ BodyEnds(t) \/ Break(t)
      PROVE  Goal
  <2>1. ctl[t] # <<>> /\ Leave(t) /\ SameFrames
    BY <1>9 DEF CatchEnds, BodyEnds, Break, Inside
  <2> QED
    BY <2>1, <1>d
<1>10. ASSUME UNCHANGED vars
       PROVE  Goal
  BY <1>10, <1>a DEF vars
<1>11. Goal
  BY <1>1, <1>2, <1>3, <1>4, <1>5, <1>6, <1>7, <1>8, <1>9, <1>10 DEF Next
<1> QED
  BY <1>11 DEF Goal, Jumps

-----------------------------------------------------------------------------
\* The frames on the list nest like the try bodies of the control

\* Where the protected regions of a control are.
Prot(c) == {i \in DOMAIN c : c[i].part \in {"try", "landed"}}

\* x is the slot of the innermost region of c at the indices I.
InnermostOf(x, c, I) ==
    IF I = {} THEN x = Nothing ELSE \E i \in I : x = c[i].slot /\ \A j \in I : j <= i

\* FramesNest, for a control c, a list that begins at x and the frames fr.
Nested(c, x, fr) ==
    /\ InnermostOf(x, c, Prot(c))
    /\ \A i \in Prot(c) :
          /\ InnermostOf(fr[c[i].slot].prev, c, {j \in Prot(c) : j < i})
          /\ fr[c[i].slot].ctx = SubSeq(c, 1, i - 1)

\* That is what FramesNest says.
LEMMA NestedMeans ==
    /\ FramesNest <=> (habits = {} => \A t \in Threads : Nested(ctl[t], top, frame))
    /\ FramesNest' <=> (habits' = {} => \A t \in Threads : Nested(ctl'[t], top', frame'))
BY DEF FramesNest, Nested, Prot, InnermostOf, IsInnermost, Protected

\* A cut control is nested, from what was the innermost frame in it.
LEMMA NestedCut ==
    ASSUME NEW c \in Seq(Regions), NEW x, NEW fr, Nested(c, x, fr),
           NEW d, NEW n, Cut(c, d, n), NEW y,
           InnermostOf(y, c, {j \in Prot(c) : j <= n})
    PROVE  Nested(d, y, fr)
<1>1. /\ DOMAIN c = 1 .. Len(c) /\ Len(c) \in Nat /\ d \in Seq(Regions) /\ n \in Nat
      /\ Len(d) = n /\ DOMAIN d = 1 .. n /\ n <= Len(c) /\ \A k \in 1 .. n : d[k] = c[k]
  BY LenProperties DEF Cut, Agree
<1>2. Prot(d) = {j \in Prot(c) : j <= n}
  BY <1>1 DEF Prot
<1>3. InnermostOf(y, d, Prot(d))
  BY <1>1, <1>2 DEF InnermostOf, Prot
<1>4. ASSUME NEW i \in Prot(d)
      PROVE  /\ InnermostOf(fr[d[i].slot].prev, d, {j \in Prot(d) : j < i})
             /\ fr[d[i].slot].ctx = SubSeq(d, 1, i - 1)
  <2>1. i \in 1 .. n /\ i \in Prot(c) /\ d[i] = c[i]
    BY <1>1, <1>2 DEF Prot
  <2>2. {j \in Prot(d) : j < i} = {j \in Prot(c) : j < i}
    <3>1. \A j \in Prot(c) : j \in Nat /\ (j < i => j <= n)
      BY <1>1, <2>1 DEF Prot
    <3> QED
      BY <1>2, <3>1
  <2>3. InnermostOf(fr[c[i].slot].prev, c, {j \in Prot(c) : j < i})
        /\ fr[c[i].slot].ctx = SubSeq(c, 1, i - 1)
    BY <2>1 DEF Nested
  <2>4. InnermostOf(fr[d[i].slot].prev, d, {j \in Prot(d) : j < i})
    BY <1>1, <2>1, <2>2, <2>3 DEF InnermostOf, Prot
  <2>5. i - 1 \in Nat /\ Agree(c, d, i - 1)
    BY <1>1, <2>1 DEF Agree
  <2>6. SubSeq(c, 1, i - 1) = SubSeq(d, 1, i - 1)
    BY <1>1, <2>5, SamePrefix
  <2> QED
    BY <2>1, <2>3, <2>4, <2>6
<1> QED
  BY <1>3, <1>4 DEF Nested

\* Cutting unprotected regions changes nothing.
LEMMA NestedCutPlain ==
    ASSUME NEW c \in Seq(Regions), NEW x, NEW fr, Nested(c, x, fr),
           NEW d, NEW n, Cut(c, d, n),
           \A k \in n + 1 .. Len(c) : c[k].part \notin {"try", "landed"}
    PROVE  Nested(d, x, fr)
<1>1. DOMAIN c = 1 .. Len(c) /\ Len(c) \in Nat /\ n \in Nat
  BY LenProperties DEF Cut
<1>2. {j \in Prot(c) : j <= n} = Prot(c)
  BY <1>1 DEF Prot
<1>3. InnermostOf(x, c, {j \in Prot(c) : j <= n})
  BY <1>2 DEF Nested
<1> QED
  BY <1>3, NestedCut

\* Cutting the innermost region when it is protected takes its frame off.
LEMMA NestedPop ==
    ASSUME NEW c \in Seq(Regions), NEW x, NEW fr, Nested(c, x, fr),
           NEW d, c # <<>>, Cut(c, d, Len(c) - 1), c[Len(c)].part \in {"try", "landed"}
    PROVE  Nested(d, fr[c[Len(c)].slot].prev, fr) /\ x = c[Len(c)].slot
<1>1. DOMAIN c = 1 .. Len(c) /\ Len(c) \in Nat /\ Len(c) - 1 \in Nat
  BY LenProperties DEF Cut
<1>2. Len(c) \in Prot(c) /\ \A j \in Prot(c) : j <= Len(c) /\ j \in Nat
  BY <1>1 DEF Prot
<1>3. {j \in Prot(c) : j <= Len(c) - 1} = {j \in Prot(c) : j < Len(c)}
  BY <1>1, <1>2
<1>4. InnermostOf(fr[c[Len(c)].slot].prev, c, {j \in Prot(c) : j <= Len(c) - 1})
  BY <1>2, <1>3 DEF Nested
<1>5. Nested(d, fr[c[Len(c)].slot].prev, fr)
  BY <1>4, NestedCut
<1>6. x = c[Len(c)].slot
  <2>1. PICK i \in Prot(c) : x = c[i].slot /\ \A j \in Prot(c) : j <= i
    BY <1>2 DEF Nested, InnermostOf
  <2>2. i = Len(c)
    BY <1>2, <2>1, <1>1
  <2> QED
    BY <2>1, <2>2
<1> QED
  BY <1>5, <1>6

\* One region more that needs no frame.
LEMMA NestedMore ==
    ASSUME NEW d \in Seq(Regions), NEW x, NEW fr, Nested(d, x, fr),
           NEW e, NEW r, Longer(d, e, r), r.part \notin {"try", "landed"}
    PROVE  Nested(e, x, fr)
<1>1. /\ DOMAIN d = 1 .. Len(d) /\ Len(d) \in Nat /\ e \in Seq(Regions)
      /\ Len(e) = Len(d) + 1 /\ DOMAIN e = 1 .. Len(d) + 1 /\ e[Len(d) + 1] = r
      /\ \A k \in 1 .. Len(d) : e[k] = d[k]
  BY LenProperties DEF Longer, Agree
<1>2. Prot(e) = Prot(d)
  BY <1>1 DEF Prot
<1>3. InnermostOf(x, e, Prot(e))
  BY <1>1, <1>2 DEF Nested, InnermostOf, Prot
<1>4. ASSUME NEW i \in Prot(e)
      PROVE  /\ InnermostOf(fr[e[i].slot].prev, e, {j \in Prot(e) : j < i})
             /\ fr[e[i].slot].ctx = SubSeq(e, 1, i - 1)
  <2>1. i \in 1 .. Len(d) /\ i \in Prot(d) /\ e[i] = d[i]
    BY <1>1, <1>2 DEF Prot
  <2>2. InnermostOf(fr[d[i].slot].prev, d, {j \in Prot(d) : j < i})
        /\ fr[d[i].slot].ctx = SubSeq(d, 1, i - 1)
    BY <2>1 DEF Nested
  <2>3. InnermostOf(fr[e[i].slot].prev, e, {j \in Prot(e) : j < i})
    BY <1>1, <1>2, <2>1, <2>2 DEF InnermostOf, Prot
  <2>4. i - 1 \in Nat /\ Agree(d, e, i - 1)
    BY <1>1, <2>1 DEF Agree
  <2>5. SubSeq(d, 1, i - 1) = SubSeq(e, 1, i - 1)
    BY <1>1, <2>4, SamePrefix
  <2> QED
    BY <2>1, <2>2, <2>3, <2>5
<1> QED
  BY <1>3, <1>4 DEF Nested

\* One protected region more, whose frame is on the list and resumes d.
LEMMA NestedPush ==
    ASSUME NEW d \in Seq(Regions), NEW x, NEW fr, Nested(d, x, fr),
           NEW e, NEW r, Longer(d, e, r), r.part \in {"try", "landed"},
           fr[r.slot].prev = x, fr[r.slot].ctx = SubSeq(d, 1, Len(d))
    PROVE  Nested(e, r.slot, fr)
<1>1. /\ DOMAIN d = 1 .. Len(d) /\ Len(d) \in Nat /\ e \in Seq(Regions)
      /\ Len(e) = Len(d) + 1 /\ DOMAIN e = 1 .. Len(d) + 1 /\ e[Len(d) + 1] = r
      /\ \A k \in 1 .. Len(d) : e[k] = d[k]
  BY LenProperties DEF Longer, Agree
<1>2. Prot(e) = Prot(d) \cup {Len(d) + 1} /\ \A j \in Prot(d) : j \in 1 .. Len(d)
  BY <1>1 DEF Prot
<1>3. InnermostOf(r.slot, e, Prot(e))
  BY <1>1, <1>2 DEF InnermostOf
<1>4. ASSUME NEW i \in Prot(e)
      PROVE  /\ InnermostOf(fr[e[i].slot].prev, e, {j \in Prot(e) : j < i})
             /\ fr[e[i].slot].ctx = SubSeq(e, 1, i - 1)
  <2>1. i - 1 \in Nat /\ i - 1 <= Len(d) /\ Agree(d, e, i - 1)
    BY <1>1, <1>2 DEF Agree
  <2>2. SubSeq(d, 1, i - 1) = SubSeq(e, 1, i - 1)
    BY <1>1, <2>1, SamePrefix
  <2>3. CASE i \in Prot(d)
    <3>1. e[i] = d[i] /\ {j \in Prot(e) : j < i} = {j \in Prot(d) : j < i}
      BY <1>1, <1>2, <2>3
    <3>2. InnermostOf(fr[d[i].slot].prev, d, {j \in Prot(d) : j < i})
          /\ fr[d[i].slot].ctx = SubSeq(d, 1, i - 1)
      BY <2>3 DEF Nested
    <3>3. InnermostOf(fr[e[i].slot].prev, e, {j \in Prot(e) : j < i})
      BY <1>1, <1>2, <3>1, <3>2 DEF InnermostOf
    <3> QED
      BY <2>2, <3>1, <3>2, <3>3
  <2>4. CASE i = Len(d) + 1
    <3>1. e[i] = r /\ {j \in Prot(e) : j < i} = Prot(d) /\ i - 1 = Len(d)
      <4>1. \A j \in Prot(d) : j < i /\ j # i
        BY <1>1, <1>2, <2>4
      <4>2. ~(i < i)
        BY <1>1, <2>4
      <4>3. {j \in Prot(e) : j < i} = Prot(d)
        BY <1>2, <2>4, <4>1, <4>2
      <4> QED
        BY <1>1, <2>4, <4>3
    <3>2. InnermostOf(x, e, Prot(d))
      BY <1>1, <1>2 DEF Nested, InnermostOf
    <3> QED
      BY <2>2, <3>1, <3>2
  <2> QED
    BY <1>2, <2>3, <2>4
<1> QED
  BY <1>3, <1>4 DEF Nested

\* What the frames of other slots hold does not matter, nor does what they
\* have caught.
LEMMA NestedFrames ==
    ASSUME NEW c, NEW x, NEW fr, Nested(c, x, fr), NEW fs,
           \A i \in Prot(c) : /\ fs[c[i].slot].prev = fr[c[i].slot].prev
                              /\ fs[c[i].slot].ctx = fr[c[i].slot].ctx
    PROVE  Nested(c, x, fs)
BY DEF Nested

\* A sequence is its own longest prefix.
LEMMA WholePrefix ==
    ASSUME NEW X, NEW c \in Seq(X)
    PROVE  SubSeq(c, 1, Len(c)) = c
<1> DEFINE p == SubSeq(c, 1, Len(c))
<1>1. Len(c) \in 0 .. Len(c)
  BY LenProperties
<1>2. p \in Seq(X) /\ Len(p) = Len(c) /\ \A k \in 1 .. Len(c) : p[k] = c[k]
  BY <1>1, PrefixType
<1>3. p = [k \in 1 .. Len(c) |-> p[k]] /\ c = [k \in 1 .. Len(c) |-> c[k]]
  BY <1>2, LenProperties
<1> HIDE DEF p
<1>4. p = c
  BY <1>2, <1>3
<1> QED
  BY <1>4 DEF p

\* A jump to the innermost frame of a prefix e of the control lands there.
LEMMA JumpNests ==
    ASSUME TypeOK, NEW t \in Threads, NEW e, NEW n, Cut(ctl[t], e, n),
           NEW f \in Slots, Nested(e, f, frame), Linked(f, frame), Jump(t, f)
    PROVE  /\ Nested(ctl'[t], f, frame) /\ UNCHANGED status
           /\ Last(ctl'[t]) = InTry("landed", f)
           /\ \E i \in Prot(e) :
                 /\ f = ctl[t][i].slot /\ \A j \in Prot(e) : j <= i
                 /\ ctl'[t] = Append(SubSeq(ctl[t], 1, i - 1), InTry("landed", f))
<1>1. /\ ctl[t] \in Seq(Regions) /\ DOMAIN ctl[t] = 1 .. Len(ctl[t]) /\ Len(ctl[t]) \in Nat
      /\ e \in Seq(Regions) /\ DOMAIN e = 1 .. n /\ Len(e) = n /\ n \in Nat /\ n <= Len(ctl[t])
      /\ \A k \in 1 .. n : e[k] = ctl[t][k]
  BY LenProperties DEF TypeOK, Cut, Agree
<1>2. Prot(e) # {} /\ \E i \in Prot(e) : f = e[i].slot /\ \A j \in Prot(e) : j <= i
  BY FramesAssumption DEF Nested, InnermostOf
<1>3. PICK i \in Prot(e) : f = e[i].slot /\ \A j \in Prot(e) : j <= i
  BY <1>2
<1>4. i \in 1 .. n /\ f = ctl[t][i].slot /\ ~IsCall(ctl[t][i]) /\ i \in DOMAIN ctl[t]
  BY <1>1, <1>3 DEF Prot, IsCall
<1>5. f \in Open(t)
  BY <1>4 DEF Open
<1>6. /\ UNCHANGED status
      /\ Longer(frame[f].ctx, ctl'[t], InTry("landed", f))
      /\ Last(ctl'[t]) = InTry("landed", f)
      /\ frame[f].ctx \in Seq(Regions)
      /\ ctl'[t] = Append(frame[f].ctx, InTry("landed", f))
  BY <1>5, JumpShape DEF Resume
<1> DEFINE d == SubSeq(e, 1, i - 1)
<1>7. /\ frame[f].ctx = d
      /\ InnermostOf(frame[f].prev, e, {j \in Prot(e) : j < i})
  BY <1>3 DEF Nested
<1>8. i - 1 \in 0 .. n /\ {j \in Prot(e) : j < i} = {j \in Prot(e) : j <= i - 1}
  BY <1>1, <1>4 DEF Prot
<1>9. Cut(e, d, i - 1) /\ d \in Seq(Regions)
  BY <1>1, <1>8, PrefixCuts DEF Cut
<1> HIDE DEF d
<1>10. Nested(d, frame[f].prev, frame)
  BY <1>1, <1>7, <1>8, <1>9, NestedCut
<1>11. frame[f].ctx = SubSeq(d, 1, Len(d))
  BY <1>7, <1>9, WholePrefix
<1>12. InTry("landed", f).part = "landed" /\ InTry("landed", f).slot = f
  BY DEF InTry, Region
<1>13. Nested(ctl'[t], f, frame)
  <2> DEFINE r == InTry("landed", f)
  <2>1. r.slot = f /\ r.part \in {"try", "landed"}
    BY <1>12
  <2>2. Longer(d, ctl'[t], r)
    BY <1>6, <1>7
  <2> HIDE DEF r
  <2>3. Nested(ctl'[t], r.slot, frame)
    BY <1>9, <1>10, <1>11, <2>1, <2>2, NestedPush
  <2> QED
    BY <2>1, <2>3
<1>14. frame[f].ctx = SubSeq(ctl[t], 1, i - 1)
  <2>1. i - 1 \in Nat /\ Agree(e, ctl[t], i - 1)
    BY <1>1, <1>4 DEF Agree
  <2>2. SubSeq(e, 1, i - 1) = SubSeq(ctl[t], 1, i - 1)
    BY <1>1, <2>1, SamePrefix
  <2> QED
    BY <1>7, <2>2 DEF d
<1> QED
  BY <1>3, <1>4, <1>6, <1>13, <1>14

\* A protected region at i has a slot of depth i.
LEMMA SlotDepth ==
    ASSUME NEW t \in Threads, NEW c, IsControl(c, t), Len(c) <= MaxDepth,
           NEW i \in DOMAIN c, ~IsCall(c[i])
    PROVE  /\ c[i].slot \in Slots /\ c[i].slot[2] = i /\ c[i].slot[1] = t
           /\ c[i].slot = <<t, i, SiteOf(c[i].slot)>>
<1>1. i \in 1 .. Len(c) /\ Len(c) \in Nat /\ MaxDepth \in Nat
  BY LenProperties, FramesAssumption DEF IsControl
<1>2. c[i].slot \in {t} \X {i} \X Sites
  BY DEF IsControl
<1> QED
  BY <1>1, <1>2 DEF Slots, SiteOf

\* A throw, and a rethrow, of a thread whose frames nest lands in the innermost
\* try body, and the frames nest again.
LEMMA NestJumps ==
    ASSUME TypeOK, TypeOK', LinkedInv, LandedInv, NEW t \in Threads,
           Nested(ctl[t], top, frame),
           status # "wild", NEW c, Raises(t, c)
    PROVE  /\ Nested(ctl'[t], top', frame') /\ status' # "wild"
           /\ c # Nothing /\ Protecting(t) # {} => LandsInnermost(t, c)
           /\ Protecting(t) = {} => IF Throw(t, c) THEN status' = "exited"
                                    ELSE Leave(t) /\ UNCHANGED status
<1> DEFINE Goal == /\ Nested(ctl'[t], top', frame') /\ status' # "wild"
                   /\ c # Nothing /\ Protecting(t) # {} => LandsInnermost(t, c)
                   /\ Protecting(t) = {} => IF Throw(t, c) THEN status' = "exited"
                                            ELSE Leave(t) /\ UNCHANGED status
<1> USE DEF counts
<1>a. /\ ctl[t] \in Seq(Regions) /\ DOMAIN ctl[t] = 1 .. Len(ctl[t]) /\ Len(ctl[t]) \in Nat
  BY LenProperties DEF TypeOK
<1>b. ASSUME NEW e, NEW n, Cut(ctl[t], e, n), NEW f \in Slots, Nested(e, f, frame),
             Linked(f, frame), Jump(t, f), Prot(e) = Protecting(t), top' = f, status = "running",
             frame' = [frame EXCEPT ![f].thrown = c]
      PROVE  Goal
  <2>1. /\ Nested(ctl'[t], f, frame) /\ UNCHANGED status
        /\ Last(ctl'[t]) = InTry("landed", f)
        /\ \E i \in Prot(e) :
              /\ f = ctl[t][i].slot /\ \A j \in Prot(e) : j <= i
              /\ ctl'[t] = Append(SubSeq(ctl[t], 1, i - 1), InTry("landed", f))
    BY <1>b, JumpNests
  <2>2. \A s \in Slots : frame'[s].prev = frame[s].prev /\ frame'[s].ctx = frame[s].ctx
    BY <1>b DEF TypeOK
  <2>3. \A i \in Prot(ctl'[t]) : ctl'[t][i].slot \in Slots
    BY SlotDepth DEF TypeOK, Prot, IsCall
  <2>4. \A i \in Prot(ctl'[t]) :
            /\ frame'[ctl'[t][i].slot].prev = frame[ctl'[t][i].slot].prev
            /\ frame'[ctl'[t][i].slot].ctx = frame[ctl'[t][i].slot].ctx
    BY <2>2, <2>3
  <2>5. Nested(ctl'[t], top', frame')
    BY <1>b, <2>1, <2>4, NestedFrames
  <2>6. frame'[f].thrown = c
    BY <1>b DEF TypeOK
  <2>7. LandsInnermost(t, c) /\ Protecting(t) # {}
    BY <1>b, <2>1, <2>6 DEF LandsInnermost
  <2> QED
    BY <1>b, <2>1, <2>5, <2>7
<1>c. ASSUME ~Inside(t, "landed")
      PROVE  Prot(ctl[t]) = Protecting(t)
  BY <1>c, NotLanded DEF NoLanded, Prot, Protecting
<1>d. Cut(ctl[t], ctl[t], Len(ctl[t]))
  BY <1>a DEF Cut, Agree
<1>e. ASSUME ctl[t] # <<>>, Leave(t)
      PROVE  Cut(ctl[t], ctl'[t], Len(ctl[t]) - 1)
  BY <1>e, LeaveShape
<1>f. ASSUME Throw(t, c)
      PROVE  ~Rethrow(t) /\ ~FinallyEnds(t)
  <2>1. throws' # throws
    BY <1>f DEF Throw, TypeOK
  <2> QED
    BY <2>1 DEF Rethrow, FinallyEnds
<1> HIDE DEF Goal
<1>1. ASSUME Throw(t, c)
      PROVE  Goal
  <2>1. status = "running" /\ Prot(ctl[t]) = Protecting(t) /\ top' = top
    BY <1>1, <1>c DEF Throw
  <2>2. CASE top # Nothing /\ frame' = [frame EXCEPT ![top].thrown = c] /\ Jump(t, top)
    <3>1. top \in Slots /\ Linked(top, frame)
      BY <2>2 DEF TypeOK, LinkedInv
    <3> QED
      BY <1>b, <1>d, <2>1, <2>2, <3>1
  <2>3. CASE top = Nothing /\ status' = "exited" /\ UNCHANGED <<ctl, frame>>
    <3>1. Prot(ctl[t]) = {}
      <4>1. \A i \in Prot(ctl[t]) : ctl[t][i].slot # Nothing
        BY SlotDepth, FramesAssumption DEF TypeOK, Prot, IsCall
      <4> QED
        BY <2>3, <4>1 DEF Nested, InnermostOf
    <3> QED
      BY <1>1, <2>1, <2>3, <3>1 DEF Goal
  <2> QED
    BY <1>1, <2>2, <2>3 DEF Throw
<1>2. ASSUME Rethrow(t), c = Caught(t)
      PROVE  Goal
  <2> DEFINE b == Below(Here(t))
             d == Front(ctl[t])
  <2>1. /\ ctl[t] # <<>> /\ Here(t) \in Slots /\ b = frame[Here(t)].prev
        /\ b \in Slots \cup {Nothing} /\ Linked(b, frame) /\ top' = b
        /\ status = "running" /\ Inner(t).part = "landed"
    BY <1>2, UntakenType DEF Rethrow, Below, TypeOK, LinkedInv
  <2>2. Here(t) = ctl[t][Len(ctl[t])].slot /\ ctl[t][Len(ctl[t])].part = "landed"
    BY <2>1 DEF Here, Inner, Last
  <2>3. Cut(ctl[t], d, Len(ctl[t]) - 1) /\ Len(ctl[t]) - 1 < Len(ctl[t])
    BY <1>a, <2>1, PrefixCuts
  <2> HIDE DEF d
  <2>4. Nested(d, b, frame)
    BY <1>a, <2>1, <2>2, <2>3, NestedPop
  <2>5. Prot(d) = Protecting(t)
    <3>1. NoLanded(d) /\ d \in Seq(Regions) /\ Len(d) = Len(ctl[t]) - 1 /\ Agree(d, ctl[t], Len(d))
      BY <2>3, CutLands DEF Cut
    <3>2. DOMAIN d = 1 .. Len(ctl[t]) - 1 /\ \A k \in 1 .. Len(ctl[t]) - 1 : d[k] = ctl[t][k]
      BY <3>1, LenProperties DEF Agree
    <3>3. \A k \in DOMAIN ctl[t] : k \in DOMAIN d \/ k = Len(ctl[t])
      BY <1>a, <3>2
    <3>4. \A k \in DOMAIN d : k \in DOMAIN ctl[t]
      BY <1>a, <3>2
    <3> QED
      BY <2>2, <3>1, <3>2, <3>3, <3>4 DEF Prot, Protecting, NoLanded
  <2>6. CASE b # Nothing /\ frame' = [frame EXCEPT ![b].thrown = Caught(t)] /\ Jump(t, b)
    <3> HIDE DEF b
    <3> QED
      BY <1>2, <1>b, <2>1, <2>3, <2>4, <2>5, <2>6
  <2>7. CASE b = Nothing /\ Leave(t) /\ UNCHANGED <<frame, status>>
    <3>1. ctl'[t] = d
      BY <2>7 DEF Leave, TypeOK, d
    <3>2. Prot(d) = {}
      <4>1. \A i \in Prot(d) : d[i].slot = ctl[t][i].slot /\ i \in DOMAIN ctl[t] /\ ~IsCall(ctl[t][i])
        BY <1>a, <2>3, LenProperties DEF Prot, Cut, Agree, IsCall
      <4>2. ASSUME NEW i \in Prot(d)
            PROVE  d[i].slot # Nothing
        <5>1. i \in DOMAIN ctl[t] /\ ~IsCall(ctl[t][i]) /\ d[i].slot = ctl[t][i].slot
          BY <4>1
        <5>2. IsControl(ctl[t], t) /\ Len(ctl[t]) <= MaxDepth
          BY DEF TypeOK
        <5>3. ctl[t][i].slot \in Slots
          BY <5>1, <5>2, SlotDepth
        <5> QED
          BY <5>1, <5>3, FramesAssumption
      <4> QED
        BY <2>4, <2>7, <4>2 DEF Nested, InnermostOf
    <3> QED
      BY <1>2, <1>f, <2>1, <2>4, <2>5, <2>7, <3>1, <3>2 DEF Goal
  <2> QED
    BY <1>2, <2>6, <2>7 DEF Rethrow
<1>3. ASSUME FinallyEnds(t), c = Inner(t).pend
      PROVE  Goal
  <2>1. /\ status = "running" /\ ctl[t] # <<>> /\ Inner(t).part = "finally" /\ top' = top
        /\ ~Inside(t, "landed")
    BY <1>3 DEF FinallyEnds, Inside
  <2>2. CASE top # Nothing /\ frame' = [frame EXCEPT ![top].thrown = Inner(t).pend] /\ Jump(t, top)
    <3>1. top \in Slots /\ Linked(top, frame)
      BY <2>2 DEF TypeOK, LinkedInv
    <3> QED
      BY <1>3, <1>b, <1>c, <1>d, <2>1, <2>2, <3>1
  <2>3. CASE (c = Nothing \/ top = Nothing) /\ Leave(t) /\ UNCHANGED <<frame, status>>
    <3>1. \A k \in (Len(ctl[t]) - 1) + 1 .. Len(ctl[t]) : ctl[t][k].part \notin {"try", "landed"}
      BY <1>a, <2>1 DEF Inner, Last
    <3>2. Nested(ctl'[t], top, frame)
      BY <1>a, <1>e, <2>1, <2>3, <3>1, NestedCutPlain
    <3>3. top = Nothing => Prot(ctl[t]) = {}
      <4>1. \A i \in Prot(ctl[t]) : ctl[t][i].slot # Nothing
        BY SlotDepth, FramesAssumption DEF TypeOK, Prot, IsCall
      <4> QED
        BY <4>1 DEF Nested, InnermostOf
    <3>4. c # Nothing => Protecting(t) = {}
      BY <1>c, <2>1, <2>3, <3>3
    <3> QED
      BY <1>3, <1>f, <2>1, <2>3, <3>2, <3>4 DEF Goal
  <2> QED
    BY <1>3, <2>2, <2>3 DEF FinallyEnds
<1>4. Goal
  BY <1>1, <1>2, <1>3 DEF Raises
<1> QED
  BY <1>4 DEF Goal

\* Every other step keeps the frames nested.
LEMMA NestOthers ==
    ASSUME TypeOK, TypeOK', LinkedInv, LandedInv, NEW t \in Threads, Nested(ctl[t], top, frame),
           habits' = {}, status # "wild",
           \/ CallFunction(t) \/ Return(t) \/ \E s \in Sites : TryBegins(t, s)
           \/ CatchBegins(t) \/ AnyIgnores(t)
           \/ FinallyBegins(t) \/ CatchEnds(t) \/ BodyEnds(t) \/ Break(t)
    PROVE  Nested(ctl'[t], top', frame') /\ status' = "running"
<1> DEFINE Goal == Nested(ctl'[t], top', frame') /\ status' = "running"
<1> USE DEF counts
<1>a. /\ ctl[t] \in Seq(Regions) /\ DOMAIN ctl[t] = 1 .. Len(ctl[t]) /\ Len(ctl[t]) \in Nat
      /\ Len(ctl[t]) <= MaxDepth /\ IsControl(ctl[t], t)
  BY LenProperties DEF TypeOK
<1>b. ASSUME NEW d, NEW y, Nested(d, y, frame),
             \A s \in Slots : frame'[s].prev = frame[s].prev /\ frame'[s].ctx = frame[s].ctx,
             d = ctl'[t]
      PROVE  Nested(ctl'[t], y, frame')
  <2>1. \A i \in Prot(ctl'[t]) : ctl'[t][i].slot \in Slots
    BY SlotDepth DEF TypeOK, Prot, IsCall
  <2> QED
    BY <1>b, <2>1, NestedFrames
<1>c. ctl[t] # <<>> => Inner(t) = ctl[t][Len(ctl[t])] /\ Here(t) = ctl[t][Len(ctl[t])].slot
  BY DEF Inner, Here, Last
<1>d. ASSUME ctl[t] # <<>>, Leave(t), Inner(t).part \notin {"try", "landed"}
      PROVE  Nested(ctl'[t], top, frame)
  <2>1. Cut(ctl[t], ctl'[t], Len(ctl[t]) - 1)
    BY <1>d, LeaveShape
  <2>2. \A k \in (Len(ctl[t]) - 1) + 1 .. Len(ctl[t]) : ctl[t][k].part \notin {"try", "landed"}
    BY <1>a, <1>c, <1>d
  <2> QED
    BY <1>a, <2>1, <2>2, NestedCutPlain
<1> HIDE DEF Goal
<1>1. ASSUME CallFunction(t)
      PROVE  Goal
  <2> DEFINE r == Region("call", Nothing, Nothing, calls + 1)
  <2>1. r \in Regions /\ r.part = "call"
    BY RegionType DEF Region, TypeOK
  <2>2. /\ ctl' = [ctl EXCEPT ![t] = Append(@, r)] /\ UNCHANGED <<top, frame, status>>
        /\ status = "running"
    BY <1>1 DEF CallFunction, Running
  <2> HIDE DEF r
  <2>3. Longer(ctl[t], ctl'[t], r)
    BY <2>1, <2>2, EnterShape
  <2>4. Nested(ctl'[t], top, frame)
    BY <1>a, <2>1, <2>3, NestedMore
  <2> QED
    BY <2>2, <2>4 DEF Goal
<1>2. ASSUME Return(t)
      PROVE  Goal
  <2>1. /\ ~Inside(t, "landed") /\ UNCHANGED <<top, frame, status>> /\ status = "running"
    BY <1>2 DEF Return
  <2>2. PICK i \in 1 .. Len(ctl[t]) :
            /\ Cut(ctl[t], ctl'[t], i - 1)
            /\ \/ habits' = habits \cup {"leave"}
               \/ \A j \in i .. Len(ctl[t]) : ~Fragile(ctl[t][j])
    BY <1>2, ReturnShape
  <2>3. \A j \in i .. Len(ctl[t]) : ~Fragile(ctl[t][j])
    BY <2>2
  <2>4. NoLanded(ctl[t])
    BY <2>1, NotLanded
  <2>5. \A k \in (i - 1) + 1 .. Len(ctl[t]) : ctl[t][k].part \notin {"try", "landed"}
    BY <1>a, <2>3, <2>4 DEF Fragile, NoLanded
  <2>6. Nested(ctl'[t], top, frame)
    BY <1>a, <2>2, <2>5, NestedCutPlain
  <2> QED
    BY <2>1, <2>6 DEF Goal
<1>3. ASSUME NEW s \in Sites, TryBegins(t, s)
      PROVE  Goal
  <2> DEFINE x == <<t, Len(ctl[t]) + 1, s>>
             r == InTry("try", x)
  <2>1. /\ ctl' = [ctl EXCEPT ![t] = Append(@, r)] /\ status = "running" /\ top' = x
        /\ frame' = [frame EXCEPT ![x] = [EmptyFrame EXCEPT !.ctx = ctl[t], !.prev = top]]
        /\ Len(ctl[t]) < MaxDepth /\ UNCHANGED status
    BY <1>3 DEF TryBegins, Running, Push
  <2>2. x \in Slots /\ x[2] = Len(ctl[t]) + 1
    BY <1>a, <2>1, FramesAssumption DEF Slots
  <2>3. r \in Regions /\ r.part = "try" /\ r.slot = x
    BY <2>2, RegionType DEF InTry, Region
  <2> HIDE DEF r
  <2>4. Longer(ctl[t], ctl'[t], r)
    BY <2>1, <2>3, EnterShape
  <2> HIDE DEF x
  <2>5. /\ frame'[x].prev = top /\ frame'[x].ctx = ctl[t]
        /\ \A y \in Slots \ {x} : frame'[y] = frame[y]
    BY <2>1, <2>2 DEF TypeOK, EmptyFrame
  <2>6. \A i \in Prot(ctl[t]) : ctl[t][i].slot \in Slots \ {x}
    <3>1. ASSUME NEW i \in Prot(ctl[t])
          PROVE  ctl[t][i].slot \in Slots /\ ctl[t][i].slot[2] = i /\ i <= Len(ctl[t]) /\ i \in Nat
      BY <1>a, SlotDepth DEF Prot, IsCall
    <3> QED
      BY <1>a, <2>2, <3>1
  <2>7. Nested(ctl[t], top, frame')
    BY <2>5, <2>6, NestedFrames
  <2>8. frame'[x].ctx = SubSeq(ctl[t], 1, Len(ctl[t]))
    BY <1>a, <2>5, WholePrefix
  <2>9. Nested(ctl'[t], r.slot, frame')
    BY <1>a, <2>3, <2>4, <2>5, <2>7, <2>8, NestedPush
  <2> QED
    BY <2>1, <2>3, <2>9 DEF Goal
<1>4. ASSUME CatchBegins(t) \/ AnyIgnores(t)
      PROVE  Goal
  <2> DEFINE b == frame[Here(t)].prev
             d == Front(ctl[t])
             r == InTry("catch", Here(t))
  <2>1. /\ ctl[t] # <<>> /\ Here(t) \in Slots /\ Inner(t).part = "landed"
        /\ status = "running"
    BY <1>4, UntakenType DEF CatchBegins, AnyIgnores
  <2>2. /\ top' = b /\ UNCHANGED status
        /\ frame' = [frame EXCEPT ![Here(t)].thrown = Nothing]
    BY <1>4 DEF CatchBegins, AnyIgnores, Clear, Below
  <2>3. \A s \in Slots : frame'[s].prev = frame[s].prev /\ frame'[s].ctx = frame[s].ctx
    BY <2>1, <2>2 DEF TypeOK
  <2>4. r \in Regions /\ r.part = "catch"
    BY <2>1, RegionType DEF InTry, Region
  <2>5. Cut(ctl[t], d, Len(ctl[t]) - 1) /\ d \in Seq(Regions)
    BY <1>a, <2>1, PrefixCuts, FrontType
  <2> HIDE DEF d, r
  <2>6. Nested(d, b, frame)
    BY <1>a, <1>c, <2>1, <2>5, NestedPop
  <2>7. Nested(ctl'[t], b, frame)
    <3>1. CASE Leave(t)
      BY <2>6, <3>1 DEF Leave, TypeOK, d
    <3>2. CASE Become(t, r)
      <4>1. Longer(d, ctl'[t], r)
        BY <2>1, <2>4, <3>2, BecomeShape DEF d
      <4> QED
        BY <2>4, <2>5, <2>6, <4>1, NestedMore
    <3> QED
      BY <1>4, <3>1, <3>2 DEF CatchBegins, AnyIgnores, r
  <2> HIDE DEF b
  <2>8. Nested(ctl'[t], b, frame')
    BY <1>b, <2>3, <2>7
  <2> QED
    BY <2>1, <2>2, <2>8 DEF Goal
<1>5. ASSUME FinallyBegins(t)
      PROVE  Goal
  <2> DEFINE pend == IF top = Here(t) THEN frame[Here(t)].thrown ELSE Nothing
             r == Region("finally", Here(t), pend, 0)
             d == Front(ctl[t])
  <2>1. /\ ctl[t] # <<>> /\ ~IsCall(Inner(t)) /\ Here(t) \in Slots /\ status = "running"
        /\ Here(t)[2] = Len(ctl[t]) /\ Inner(t).part \in {"try", "catch", "landed"}
    BY <1>5, HereType DEF FinallyBegins, ReachesFinally, Untaken, Inside
  <2>2. pend \in Classes \cup {Nothing}
    BY <2>1 DEF TypeOK
  <2>3. /\ r \in Regions /\ r.part = "finally" /\ Become(t, r)
    BY <1>5, <2>1, <2>2, RegionType DEF Region, FinallyBegins
  <2>4. /\ top' = IF top = Here(t) THEN frame[Here(t)].prev ELSE top
        /\ frame' = [frame EXCEPT ![Here(t)].thrown = Nothing] \/ frame' = frame
        /\ UNCHANGED status
    BY <1>5 DEF FinallyBegins, Clear, Below
  <2> HIDE DEF r, pend
  <2>5. /\ Cut(ctl[t], d, Len(ctl[t]) - 1) /\ Longer(d, ctl'[t], r) /\ d \in Seq(Regions)
    BY <1>a, <2>1, <2>3, BecomeShape, FrontType
  <2>6. \A s \in Slots : frame'[s].prev = frame[s].prev /\ frame'[s].ctx = frame[s].ctx
    BY <2>1, <2>4 DEF TypeOK
  <2> HIDE DEF d
  <2>7. Nested(d, top', frame)
    <3>1. CASE Inner(t).part \in {"try", "landed"}
      <4>1. Nested(d, frame[Here(t)].prev, frame) /\ top = Here(t)
        BY <1>a, <1>c, <2>1, <2>5, <3>1, NestedPop
      <4> QED
        BY <2>4, <4>1
    <3>2. CASE Inner(t).part = "catch"
      <4>1. \A k \in (Len(ctl[t]) - 1) + 1 .. Len(ctl[t]) : ctl[t][k].part \notin {"try", "landed"}
        BY <1>a, <1>c, <2>1, <3>2
      <4>2. Nested(d, top, frame)
        BY <1>a, <2>5, <4>1, NestedCutPlain
      <4>3. ASSUME NEW i \in Prot(ctl[t])
            PROVE  ctl[t][i].slot # Here(t)
        <5>1. ctl[t][i].slot[2] = i
          BY <1>a, SlotDepth DEF Prot, IsCall
        <5>2. i # Len(ctl[t])
          BY <1>c, <2>1, <3>2 DEF Prot
        <5> QED
          BY <2>1, <5>1, <5>2
      <4>4. top # Here(t)
        BY <2>1, <4>3, FramesAssumption DEF Nested, InnermostOf
      <4> QED
        BY <2>4, <4>2, <4>4
    <3> QED
      BY <2>1, <3>1, <3>2
  <2>8. Nested(ctl'[t], top', frame)
    BY <2>3, <2>5, <2>7, NestedMore
  <2>9. Nested(ctl'[t], top', frame')
    BY <1>b, <2>6, <2>8
  <2> QED
    BY <2>1, <2>4, <2>9 DEF Goal
<1>6. ASSUME CatchEnds(t) \/ Break(t)
      PROVE  Goal
  <2>1. /\ ctl[t] # <<>> /\ Leave(t) /\ Inner(t).part \in {"catch", "finally"}
        /\ UNCHANGED <<top, frame, status>> /\ status = "running"
    BY <1>6 DEF CatchEnds, Break, Inside, Fragile, Shows
  <2>2. Nested(ctl'[t], top, frame)
    BY <1>d, <2>1
  <2> QED
    BY <2>1, <2>2 DEF Goal
<1>7. ~BodyEnds(t)
  BY DEF BodyEnds, Shows
<1>8. Goal
  BY <1>1, <1>2, <1>3, <1>4, <1>5, <1>6, <1>7
<1> QED
  BY <1>8 DEF Goal

\* A habit is never unlearned.
LEMMA HabitsGrow == [Next]_vars => habits \subseteq habits'
BY DEF Next, vars, CallFunction, Return, TryBegins, Throw, CatchBegins, AnyIgnores, Rethrow,
       FinallyBegins, FinallyEnds, CatchEnds, BodyEnds, Break, Jump, NotesSkip, Shows

\* Each step of a program whose exceptions are all in one thread keeps the
\* frames nested, and its throws land in the innermost try body.
LEMMA NestStep ==
    ASSUME OneThread
    PROVE  NestInv /\ [Next]_vars =>
              /\ NestInv'
              /\ [habits' = {} => ThrowsLand /\ ThrowsOutside]_vars
<1> SUFFICES ASSUME NestInv, [Next]_vars
             PROVE  NestInv' /\ [habits' = {} => ThrowsLand /\ ThrowsOutside]_vars
  OBVIOUS
<1>1. TypeOK /\ LinkedInv /\ LandedInv /\ TypeOK' /\ LinkedInv' /\ LandedInv'
  BY TypeStep, LandStep DEF NestInv
<1>2. ASSUME habits' = {}, UNCHANGED vars
      PROVE  TameInv' /\ FramesNest'
  BY <1>2, NestedMeans DEF NestInv, TameInv, vars
<1>3. ASSUME habits' = {}, NEW t \in Threads,
             \/ CallFunction(t) \/ Return(t) \/ \E s \in Sites : TryBegins(t, s)
             \/ \E c \in Classes : Throw(t, c)
             \/ CatchBegins(t) \/ AnyIgnores(t) \/ Rethrow(t)
             \/ FinallyBegins(t) \/ FinallyEnds(t)
             \/ CatchEnds(t) \/ BodyEnds(t) \/ Break(t)
      PROVE  TameInv' /\ FramesNest' /\ ThrowsLand /\ ThrowsOutside
  <2>1. habits = {} /\ status # "wild" /\ Nested(ctl[t], top, frame)
    BY <1>3, HabitsGrow, NestedMeans DEF NestInv, TameInv
  <2>2. \A u \in Threads : u = t
    BY DEF OneThread
  <2>3. CASE \E c : Raises(t, c)
    <3>1. Nested(ctl'[t], top', frame') /\ status' # "wild"
      BY <1>1, <2>1, <2>3, NestJumps
    <3>2. ASSUME NEW c \in Classes, Raises(t, c)
          PROVE  IF Protecting(t) # {} THEN LandsInnermost(t, c)
                 ELSE IF Throw(t, c) THEN status' = "exited"
                                     ELSE Leave(t) /\ UNCHANGED status
      BY <1>1, <2>1, <3>2, NestJumps, FramesAssumption
    <3> QED
      BY <2>2, <3>1, <3>2, NestedMeans DEF TameInv, ThrowsLand, ThrowsOutside
  <2>4. CASE ~\E c : Raises(t, c)
    <3>1. ~((\E c \in Classes : Throw(t, c)) \/ Rethrow(t) \/ FinallyEnds(t))
      BY <2>4 DEF Raises
    <3>2. Nested(ctl'[t], top', frame') /\ status' = "running"
      BY <1>1, <1>3, <2>1, <3>1, NestOthers
    <3> QED
      BY <2>2, <2>4, <3>2, NestedMeans DEF TameInv, ThrowsLand, ThrowsOutside
  <2> QED
    BY <2>3, <2>4
<1>4. habits' = {} => TameInv' /\ FramesNest' /\ ((ThrowsLand /\ ThrowsOutside) \/ UNCHANGED vars)
  BY <1>2, <1>3 DEF Next
<1>5. habits' # {} => TameInv' /\ FramesNest'
  BY NestedMeans DEF TameInv
<1> QED
  BY <1>1, <1>4, <1>5 DEF NestInv

\* No thread is in a region at first, so nothing is on the list.
LEMMA NestInit == Init => NestInv
<1> SUFFICES ASSUME Init PROVE NestInv
  OBVIOUS
<1>1. <<>> \in Seq(Regions) /\ Len(<<>>) = 0 /\ DOMAIN <<>> = {}
  BY EmptySeq, LenProperties
<1>2. LandedInv
  BY <1>1 DEF Init, LandedInv, EmptyFrame
<1>3. FramesNest
  <2>1. Prot(<<>>) = {}
    BY <1>1 DEF Prot
  <2>2. Nested(<<>>, Nothing, frame)
    BY <2>1 DEF Nested, InnermostOf
  <2> QED
    BY <2>2, NestedMeans DEF Init
<1> QED
  BY <1>2, <1>3, TypeInit DEF Init, NestInv, TameInv

\* As long as no habit of the program gets in the way, the frames reachable
\* from _tp_ex_top are exactly those of the try bodies it is inside of.
THEOREM FramesNestAlways ==
    ASSUME OneThread
    PROVE  Spec => []FramesNest
<1>1. NestInv /\ [Next]_vars => NestInv'
  BY NestStep
<1>2. NestInv => FramesNest
  BY DEF NestInv
<1> QED
  BY NestInit, <1>1, <1>2, PTL DEF Spec

\* Every exception such a program throws, passes on or has pending lands in the
\* innermost try body it is inside of, which resumes where its setjmp was.
\* Outside of all try bodies a throw ends the program, and any other exception
\* is forgotten where its try statement ends.
THEOREM CarefulThrows ==
    ASSUME OneThread
    PROVE  Spec => CarefulThrowsLand
<1>1. NestInv /\ [Next]_vars => NestInv'
  BY NestStep
<1>2. NestInv /\ [Next]_vars => [habits' = {} => ThrowsLand /\ ThrowsOutside]_vars
  BY NestStep
<1> QED
  BY NestInit, <1>1, <1>2, PTL DEF Spec, CarefulThrowsLand

-----------------------------------------------------------------------------
\* What is owed stays in reach

\* Frames that are linked and resume as before.
SameLinks(fr, fs) == \A x \in Slots : fs[x].ctx = fr[x].ctx /\ fs[x].prev = fr[x].prev

\* The statement at j stays guarded while the j outermost regions stay, even
\* when a frame other than its own is taken off.
LEMMA GuardedMoves ==
    ASSUME NEW c \in Seq(Regions), NEW d \in Seq(Regions), NEW j \in 1 .. Len(c),
           Agree(d, c, j), NEW tp, NEW fr, NEW fs, SameLinks(fr, fs),
           Guarded(c, j, tp, fr), NEW y,
           y = tp \/ (y = fr[tp].prev /\ c[j].slot # tp)
    PROVE  Guarded(d, j, y, fs)
<1> DEFINE x == c[j].slot
<1>1. PICK S \in SUBSET Slots : LeadsTo(tp, x, c, j, S, fr)
  BY DEF Guarded
<1>2. /\ Len(c) \in Nat /\ j \in Nat \ {0} /\ j - 1 \in Nat
      /\ j <= Len(c) /\ j <= Len(d) /\ \A k \in 1 .. j : d[k] = c[k]
  BY LenProperties DEF Agree
<1>3. Agree(d, c, j - 1) /\ d[j] = c[j]
  BY <1>2, LenProperties DEF Agree
<1>4. SubSeq(d, 1, j - 1) = SubSeq(c, 1, j - 1)
  BY <1>2, <1>3, SamePrefix
<1>5. d[j].slot \in Slots /\ fs[d[j].slot].ctx = SubSeq(d, 1, j - 1)
  BY <1>3, <1>4 DEF Guarded, SameLinks
<1>6. y \in S
  BY <1>1 DEF LeadsTo
<1>7. ASSUME NEW f \in S \ {x}
      PROVE  Agree(fs[f].ctx, d, j) /\ fs[f].prev \in S
  <2>1. f \in Slots /\ Agree(fr[f].ctx, c, j) /\ fr[f].prev \in S
    BY <1>1, <1>7 DEF LeadsTo
  <2> QED
    BY <1>2, <2>1 DEF SameLinks, Agree
<1>8. LeadsTo(y, d[j].slot, d, j, S, fs)
  BY <1>3, <1>6, <1>7 DEF LeadsTo
<1> QED
  BY <1>5, <1>8 DEF Guarded

\* The statement whose frame is on top is guarded.
LEMMA GuardedTop ==
    ASSUME NEW d, NEW j, NEW fs, d[j].slot \in Slots,
           fs[d[j].slot].ctx = SubSeq(d, 1, j - 1)
    PROVE  Guarded(d, j, d[j].slot, fs)
<1>1. {d[j].slot} \in SUBSET Slots
  OBVIOUS
<1>2. LeadsTo(d[j].slot, d[j].slot, d, j, {d[j].slot}, fs)
  BY DEF LeadsTo
<1> QED
  BY <1>1, <1>2 DEF Guarded

\* So is the one at j when a frame deeper inside is pushed.
LEMMA GuardedPush ==
    ASSUME NEW c \in Seq(Regions), NEW d \in Seq(Regions), NEW j \in 1 .. Len(c),
           Agree(d, c, Len(c)), NEW tp, NEW fr, Guarded(c, j, tp, fr),
           NEW x \in Slots, x # c[j].slot, NEW fs, fs[x].ctx = c, fs[x].prev = tp,
           \A y \in Slots \ {x} : fs[y] = fr[y]
    PROVE  Guarded(d, j, x, fs)
<1>1. PICK S \in SUBSET Slots : LeadsTo(tp, c[j].slot, c, j, S, fr)
  BY DEF Guarded
<1>2. /\ Len(c) \in Nat /\ j \in Nat \ {0} /\ j - 1 \in Nat
      /\ j <= Len(c) /\ Len(c) <= Len(d) /\ \A k \in 1 .. Len(c) : d[k] = c[k]
      /\ Len(d) \in Nat
  BY LenProperties DEF Agree
<1>3. Agree(d, c, j - 1) /\ d[j] = c[j] /\ Agree(c, d, j)
  BY <1>2 DEF Agree
<1>4. SubSeq(d, 1, j - 1) = SubSeq(c, 1, j - 1)
  BY <1>2, <1>3, SamePrefix
<1>5. d[j].slot \in Slots /\ fs[d[j].slot].ctx = SubSeq(d, 1, j - 1)
  BY <1>3, <1>4 DEF Guarded
<1>6. ASSUME NEW f \in (S \cup {x}) \ {d[j].slot}
      PROVE  Agree(fs[f].ctx, d, j) /\ fs[f].prev \in S \cup {x}
  <2>1. CASE f = x
    BY <1>1, <1>3, <2>1 DEF LeadsTo
  <2>2. CASE f # x
    <3>1. f \in Slots \ {x} /\ Agree(fr[f].ctx, c, j) /\ fr[f].prev \in S
      BY <1>1, <1>3, <1>6, <2>2 DEF LeadsTo
    <3> QED
      BY <1>2, <3>1 DEF Agree
  <2> QED
    BY <2>1, <2>2
<1>7. S \cup {x} \in SUBSET Slots /\ LeadsTo(x, d[j].slot, d, j, S \cup {x}, fs)
  BY <1>6 DEF LeadsTo
<1> QED
  BY <1>5, <1>7 DEF Guarded

\* The frame that the list begins with is that of the guarded statement, or
\* resumes inside of it.
LEMMA GuardedFrame ==
    ASSUME NEW c, NEW j, NEW tp, NEW fr, Guarded(c, j, tp, fr)
    PROVE  tp \in Slots /\ (tp = c[j].slot \/ Agree(fr[tp].ctx, c, j))
BY DEF Guarded, LeadsTo

\* A cut inside of the statement leaves it owed.  The frame of what was cut
\* may be taken off.
LEMMA OwesCut ==
    ASSUME NEW c \in Seq(Regions), NEW s, NEW tp, NEW fr, Owes(c, s, tp, fr),
           NEW d, NEW n, Cut(c, d, n), s[2] <= n, NEW fs, SameLinks(fr, fs), NEW y,
           \/ y = tp
           \/ /\ y = fr[tp].prev
              /\ \A k \in 1 .. n : c[k].part \in {"try", "landed"} => c[k].slot # tp
    PROVE  Owes(d, s, y, fs)
<1> DEFINE i == s[2]
<1>1. /\ DOMAIN c = 1 .. Len(c) /\ Len(c) \in Nat /\ d \in Seq(Regions) /\ n \in Nat
      /\ DOMAIN d = 1 .. n /\ n <= Len(c) /\ Len(d) = n /\ \A k \in 1 .. n : d[k] = c[k]
  BY LenProperties DEF Cut, Agree
<1>2. /\ i \in 1 .. n /\ c[i].part \in {"try", "landed", "catch"} /\ d[i] = c[i]
      /\ SiteOf(s) \in HasFinally /\ c[i].slot = s
  BY <1>1 DEF Owes, OwedAt
<1> HIDE DEF i
<1>3. CASE c[i].part = "catch" /\ \A k \in DOMAIN c : i < k => c[k].part # "try"
  <2>1. \A k \in DOMAIN d : i < k => d[k].part # "try"
    BY <1>1, <1>3
  <2> QED
    BY <1>1, <1>2, <1>3, <2>1 DEF Owes, OwedAt, i
<1>4. ASSUME NEW j \in DOMAIN c, KeptBy(c, i, j), Guarded(c, j, tp, fr)
      PROVE  Owes(d, s, y, fs)
  <2>1. CASE j <= n
    <3>1. j \in 1 .. n /\ j \in 1 .. Len(c) /\ Agree(d, c, j)
      BY <1>1, <2>1 DEF Agree
    <3>2. c[j].part \in {"try", "landed"}
      BY <1>4 DEF KeptBy
    <3>3. Guarded(d, j, y, fs)
      BY <1>1, <1>4, <3>1, <3>2, GuardedMoves
    <3>4. KeptBy(d, i, j)
      BY <1>1, <1>2, <1>4, <3>1 DEF KeptBy
    <3> QED
      BY <1>1, <1>2, <3>1, <3>3, <3>4 DEF Owes, OwedAt, i
  <2>2. CASE j > n
    <3>1. c[i].part = "catch" /\ \A k \in i + 1 .. j - 1 : c[k].part # "try"
      BY <1>1, <1>2, <1>4, <2>2 DEF KeptBy
    <3>2. \A k \in DOMAIN d : i < k => d[k].part # "try"
      BY <1>1, <1>2, <2>2, <3>1
    <3> QED
      BY <1>1, <1>2, <3>1, <3>2 DEF Owes, OwedAt, i
  <2> QED
    BY <1>1, <2>1, <2>2
<1> QED
  BY <1>3, <1>4 DEF Owes, OwedAt, i

\* So does a region more that is not a try body.
LEMMA OwesMore ==
    ASSUME NEW d \in Seq(Regions), NEW s, NEW tp, NEW fr, Owes(d, s, tp, fr),
           NEW e, NEW r, Longer(d, e, r), r.part # "try", NEW fs, SameLinks(fr, fs)
    PROVE  Owes(e, s, tp, fs)
<1> DEFINE i == s[2]
<1>1. /\ DOMAIN d = 1 .. Len(d) /\ Len(d) \in Nat /\ e \in Seq(Regions)
      /\ DOMAIN e = 1 .. Len(d) + 1 /\ Len(e) = Len(d) + 1 /\ e[Len(d) + 1] = r
      /\ \A k \in 1 .. Len(d) : e[k] = d[k]
  BY LenProperties DEF Longer, Agree
<1>2. /\ i \in 1 .. Len(d) /\ i \in DOMAIN e /\ e[i] = d[i]
      /\ e[i].part \in {"try", "landed", "catch"}
      /\ SiteOf(s) \in HasFinally /\ e[i].slot = s
  BY <1>1 DEF Owes, OwedAt
<1> HIDE DEF i
<1>3. CASE d[i].part = "catch" /\ \A k \in DOMAIN d : i < k => d[k].part # "try"
  <2>1. \A k \in DOMAIN e : k \in DOMAIN d \/ e[k] = r
    BY <1>1
  <2>2. \A k \in DOMAIN e : i < k => e[k].part # "try"
    BY <1>1, <1>3, <2>1
  <2> QED
    BY <1>2, <1>3, <2>2 DEF Owes, OwedAt, i
<1>4. ASSUME NEW j \in DOMAIN d, KeptBy(d, i, j), Guarded(d, j, tp, fr)
      PROVE  Owes(e, s, tp, fs)
  <2>1. j \in 1 .. Len(d) /\ j \in DOMAIN e /\ Agree(e, d, j)
    BY <1>1 DEF Agree
  <2>2. Guarded(e, j, tp, fs)
    BY <1>1, <1>4, <2>1, GuardedMoves
  <2>3. KeptBy(e, i, j)
    BY <1>1, <1>2, <1>4, <2>1 DEF KeptBy
  <2> QED
    BY <1>2, <2>1, <2>2, <2>3 DEF Owes, OwedAt, i
<1> QED
  BY <1>3, <1>4 DEF Owes, OwedAt, i

\* And a try body more, whose frame is pushed.
LEMMA OwesPush ==
    ASSUME NEW c \in Seq(Regions), NEW s, NEW tp, NEW fr, Owes(c, s, tp, fr),
           NEW d, NEW r, Longer(c, d, r), r.part = "try", NEW x \in Slots, r.slot = x,
           \A k \in DOMAIN c : c[k].part \in {"try", "landed"} => c[k].slot # x,
           NEW fs, fs[x].ctx = c, fs[x].prev = tp,
           \A y \in Slots \ {x} : fs[y] = fr[y]
    PROVE  Owes(d, s, x, fs)
<1> DEFINE i == s[2]
           n == Len(c) + 1
<1>1. /\ DOMAIN c = 1 .. Len(c) /\ Len(c) \in Nat /\ d \in Seq(Regions)
      /\ DOMAIN d = 1 .. n /\ Len(d) = n /\ d[n] = r /\ Agree(d, c, Len(c))
      /\ \A k \in 1 .. Len(c) : d[k] = c[k]
  BY LenProperties DEF Longer, Agree
<1>2. /\ i \in 1 .. Len(c) /\ i \in DOMAIN d /\ d[i] = c[i]
      /\ d[i].part \in {"try", "landed", "catch"}
      /\ SiteOf(s) \in HasFinally /\ d[i].slot = s
  BY <1>1 DEF Owes, OwedAt
<1> HIDE DEF i
<1>3. CASE c[i].part = "catch" /\ \A k \in DOMAIN c : i < k => c[k].part # "try"
  <2>1. Agree(c, d, Len(c)) /\ n - 1 = Len(c)
    BY <1>1 DEF Agree
  <2>2. SubSeq(d, 1, n - 1) = c
    BY <1>1, <2>1, SamePrefix, WholePrefix
  <2>3. Guarded(d, n, x, fs)
    <3>1. d[n].slot = x /\ fs[d[n].slot].ctx = SubSeq(d, 1, n - 1)
      BY <1>1, <2>2
    <3> HIDE DEF n
    <3> QED
      BY <3>1, GuardedTop
  <2>4. KeptBy(d, i, n)
    BY <1>1, <1>2, <1>3 DEF KeptBy
  <2> QED
    BY <1>1, <1>2, <2>3, <2>4 DEF Owes, OwedAt, i
<1>4. ASSUME NEW j \in DOMAIN c, KeptBy(c, i, j), Guarded(c, j, tp, fr)
      PROVE  Owes(d, s, x, fs)
  <2>1. j \in 1 .. Len(c) /\ j \in DOMAIN d /\ x # c[j].slot
    BY <1>1, <1>4 DEF KeptBy
  <2>2. Guarded(d, j, x, fs)
    BY <1>1, <1>4, <2>1, GuardedPush
  <2>3. KeptBy(d, i, j)
    BY <1>1, <1>2, <1>4, <2>1 DEF KeptBy
  <2> QED
    BY <1>2, <2>1, <2>2, <2>3 DEF Owes, OwedAt, i
<1> QED
  BY <1>3, <1>4 DEF Owes, OwedAt, i

\* A jump lands inside of the statement, unless it comes from a catch in which
\* no try body protects it.
LEMMA OwesJump ==
    ASSUME NEW c \in Seq(Regions), NEW s, NEW f, NEW fr, Owes(c, s, f, fr),
           c[s[2]].part = "catch" => \E k \in DOMAIN c : s[2] < k /\ c[k].part = "try",
           NEW d, fr[f].ctx \in Seq(Regions), Longer(fr[f].ctx, d, InTry("landed", f)),
           NEW fs, SameLinks(fr, fs)
    PROVE  Owes(d, s, f, fs)
<1> DEFINE i == s[2]
           g == fr[f].ctx
<1>1. /\ DOMAIN c = 1 .. Len(c) /\ Len(c) \in Nat
      /\ i \in 1 .. Len(c) /\ c[i].part \in {"try", "landed", "catch"}
      /\ SiteOf(s) \in HasFinally /\ c[i].slot = s
  BY LenProperties DEF Owes, OwedAt
<1>2. PICK j \in DOMAIN c : KeptBy(c, i, j) /\ Guarded(c, j, f, fr)
  BY DEF Owes, OwedAt
<1>3. /\ DOMAIN g = 1 .. Len(g) /\ Len(g) \in Nat /\ d \in Seq(Regions)
      /\ DOMAIN d = 1 .. Len(g) + 1 /\ Len(d) = Len(g) + 1 /\ Agree(d, g, Len(g))
      /\ d[Len(g) + 1] = InTry("landed", f) /\ \A k \in 1 .. Len(g) : d[k] = g[k]
  BY LenProperties DEF Longer, Agree
<1>4. InTry("landed", f).part = "landed" /\ InTry("landed", f).slot = f
  BY DEF InTry, Region
<1>5. /\ j \in 1 .. Len(c) /\ i <= j /\ f \in Slots
      /\ f = c[j].slot \/ Agree(g, c, j)
  BY <1>1, <1>2, GuardedFrame DEF KeptBy
<1> HIDE DEF i, g
<1>6. CASE f = c[j].slot
  <2>1. g = SubSeq(c, 1, j - 1) /\ j - 1 \in 0 .. Len(c)
    BY <1>2, <1>5, <1>6 DEF Guarded, g
  <2>2. Len(g) = j - 1 /\ \A k \in 1 .. j - 1 : g[k] = c[k]
    BY <2>1, PrefixType
  <2>3. d[j] = InTry("landed", f) /\ Len(g) + 1 = j
    BY <1>3, <1>5, <2>2
  <2>4. CASE j = i
    <3>1. d[i].part = "landed" /\ d[i].slot = s /\ i \in DOMAIN d /\ f = s
      BY <1>1, <1>3, <1>4, <1>5, <1>6, <2>3, <2>4
    <3>2. SubSeq(d, 1, i - 1) = g
      <4>1. Agree(d, g, Len(g)) /\ i - 1 = Len(g)
        BY <1>3, <2>2, <2>4
      <4> QED
        BY <1>3, <4>1, SamePrefix, WholePrefix DEF g
    <3>3. fs[f].ctx = SubSeq(d, 1, i - 1)
      BY <1>5, <3>2 DEF SameLinks, g
    <3>4. Guarded(d, i, f, fs)
      BY <1>5, <3>1, <3>3, GuardedTop
    <3>5. KeptBy(d, i, i)
      BY <3>1 DEF KeptBy
    <3> QED
      BY <1>1, <3>1, <3>4, <3>5 DEF Owes, OwedAt, i
  <2>5. CASE j # i
    <3>1. c[i].part = "catch" /\ i < j /\ \A k \in i + 1 .. j - 1 : c[k].part # "try"
      BY <1>2, <2>5 DEF KeptBy
    <3>2. d[i] = c[i] /\ i \in DOMAIN d
      BY <1>1, <1>3, <1>5, <2>2, <3>1
    <3>3. \A k \in DOMAIN d : k = j \/ (k \in 1 .. j - 1 /\ d[k] = c[k])
      BY <1>3, <1>5, <2>2
    <3>4. \A k \in DOMAIN d : i < k => d[k].part # "try"
      BY <1>1, <1>4, <1>5, <2>3, <3>1, <3>3
    <3> QED
      BY <1>1, <3>1, <3>2, <3>4 DEF Owes, OwedAt, i
  <2> QED
    BY <2>4, <2>5
<1>7. CASE Agree(g, c, j)
  <2>1. j <= Len(g) /\ \A k \in 1 .. j : g[k] = c[k]
    BY <1>7 DEF Agree
  <2>2. Agree(d, c, j) /\ j \in DOMAIN d
    BY <1>3, <1>5, <2>1 DEF Agree
  <2>3. Guarded(d, j, f, fs)
    BY <1>2, <1>3, <1>5, <2>2, GuardedMoves
  <2>4. \A k \in 1 .. j : d[k] = c[k]
    BY <2>2 DEF Agree
  <2>5. KeptBy(d, i, j) /\ d[i] = c[i] /\ i \in DOMAIN d
    BY <1>1, <1>2, <1>3, <1>5, <2>1, <2>4 DEF KeptBy
  <2> QED
    BY <1>1, <2>2, <2>3, <2>5 DEF Owes, OwedAt, i
<1> QED
  BY <1>5, <1>6, <1>7

\* Each step keeps every owed finally block in reach.
LEMMA OwedStep ==
    ASSUME OneThread, TypeOK, TypeOK', LinkedInv, LandedInv, OwedInv, [Next]_vars
    PROVE  OwedInv'
<1> SUFFICES ASSUME habits' \subseteq {"plain"}, NEW s \in owed'
             PROVE  Owes(ctl'[s[1]], s, top', frame')
  BY DEF OwedInv
<1> USE DEF counts
<1>a. s \in Slots /\ s[1] \in Threads /\ \A t \in Threads : s[1] = t
  BY DEF TypeOK, Slots, OneThread
<1> DEFINE t == s[1]
           c == ctl[t]
           n == Len(c)
           Goal == Owes(ctl'[t], s, top', frame')
<1> HIDE DEF t
<1>t. t \in Threads /\ \A u \in Threads : u = t
  BY <1>a DEF t
<1>b. s \in owed => Owes(c, s, top, frame)
  BY HabitsGrow DEF OwedInv, t
<1>c. /\ c \in Seq(Regions) /\ DOMAIN c = 1 .. n /\ n \in Nat /\ n <= MaxDepth
      /\ IsControl(c, t)
      /\ c # <<>> => Inner(t) = c[n] /\ Here(t) = c[n].slot
  BY <1>t, LenProperties DEF TypeOK, Inner, Here, Last
\* The innermost statement is not the owed one.
<1>d. ASSUME s \in owed, c # <<>>, Inner(t).part \in {"call", "finally"} \/ Here(t) # s
      PROVE  s[2] \in 1 .. n - 1 /\ n - 1 < n
  BY <1>b, <1>c, <1>d, EmptySeq DEF Owes, OwedAt
\* A region that is not owed is left, and its frame is taken off or not.
<1>e. ASSUME s \in owed, c # <<>>, s[2] \in 1 .. n - 1, SameLinks(frame, frame'),
             top' = top \/ (top' = frame[top].prev /\ top = Here(t) /\ ~IsCall(Inner(t))),
             NEW d, Cut(c, d, n - 1)
      PROVE  Owes(d, s, top', frame')
  <2>1. n \in 1 .. n /\ n - 1 \in Nat
    BY <1>c, <1>e, EmptySeq
  <2>2. ASSUME ~IsCall(Inner(t)), NEW k \in 1 .. n - 1, c[k].part \in {"try", "landed"}
        PROVE  c[k].slot # Here(t)
    <3>1. c[k].slot[2] = k /\ k # n
      BY <1>c, <1>t, <2>1, <2>2, SlotDepth DEF IsCall
    <3>2. c[n].slot[2] = n
      BY <1>c, <1>t, <1>e, <2>1, <2>2, SlotDepth
    <3> QED
      BY <1>c, <1>e, <3>1, <3>2
  <2>3. s[2] <= n - 1
    BY <1>c, <1>e
  <2> HIDE DEF n, c
  <2> QED
    BY <1>b, <1>c, <1>e, <2>2, <2>3, OwesCut
\* A jump, from the frame f, that the list leads to.
<1>f. ASSUME NEW f \in Slots, Linked(f, frame), Jump(t, f), Owes(c, s, f, frame),
             SameLinks(frame, frame'), top' = f
      PROVE  Goal
  <2>1. ~SkipsFinally(t)
    BY <1>f DEF Jump, NotesSkip, Shows
  <2>2. ASSUME c[s[2]].part = "catch"
        PROVE  \E k \in DOMAIN c : s[2] < k /\ c[k].part = "try"
    <3>1. s[2] \in DOMAIN c /\ Fragile(c[s[2]])
      BY <1>f, <2>2 DEF Owes, OwedAt, Fragile
    <3>2. PICK k \in s[2] + 1 .. n : c[k].part = "try"
      BY <2>1, <2>2, <3>1 DEF SkipsFinally
    <3> QED
      BY <1>c, <3>1, <3>2
  <2>3. CASE UNCHANGED ctl
    <3>1. Cut(c, c, n) /\ s[2] <= n
      BY <1>c, <1>f DEF Cut, Agree, Owes, OwedAt
    <3> HIDE DEF c, n
    <3> QED
      BY <1>c, <1>f, <2>3, <3>1, OwesCut DEF c
  <2>4. CASE ctl' # ctl
    <3>1. frame[f].ctx \in Seq(Regions) /\ Longer(frame[f].ctx, ctl'[t], InTry("landed", f))
      BY <1>f, <1>t, <2>4, JumpShape
    <3> HIDE DEF c
    <3> QED
      BY <1>c, <1>f, <2>2, <3>1, OwesJump
  <2> QED
    BY <2>3, <2>4
<1>g. ASSUME NEW f \in Slots, NEW x, frame' = [frame EXCEPT ![f].thrown = x]
      PROVE  SameLinks(frame, frame')
  BY <1>g DEF SameLinks, TypeOK
<1>h. UNCHANGED frame => SameLinks(frame, frame')
  BY DEF SameLinks
\* The innermost region is left.
<1>i. ASSUME s \in owed, c # <<>>, s[2] \in 1 .. n - 1, SameLinks(frame, frame'),
             top' = top \/ (top' = frame[top].prev /\ top = Here(t) /\ ~IsCall(Inner(t))),
             Leave(t)
      PROVE  Goal
  <2>1. Cut(c, ctl'[t], n - 1)
    BY <1>i, <1>t, LeaveShape
  <2> QED
    BY <1>e, <1>i, <2>1
\* The innermost region is replaced by one that is not a try body.
<1>j. ASSUME s \in owed, c # <<>>, s[2] \in 1 .. n - 1, SameLinks(frame, frame'),
             top' = top \/ (top' = frame[top].prev /\ top = Here(t) /\ ~IsCall(Inner(t))),
             NEW r \in Regions, Become(t, r), r.part # "try"
      PROVE  Goal
  <2> DEFINE d == Front(c)
  <2>1. Cut(c, d, n - 1) /\ Longer(d, ctl'[t], r)
    BY <1>j, <1>t, BecomeShape
  <2> HIDE DEF d
  <2>2. Owes(d, s, top', frame') /\ d \in Seq(Regions) /\ SameLinks(frame', frame')
    BY <1>e, <1>j, <2>1 DEF Cut, SameLinks
  <2> QED
    BY <1>j, <2>1, <2>2, OwesMore
<1> HIDE DEF c, n, Goal
<1>1. ASSUME CallFunction(t)
      PROVE  Goal
  <2> DEFINE r == Region("call", Nothing, Nothing, calls + 1)
  <2>1. r \in Regions /\ r.part = "call"
    BY RegionType DEF Region, TypeOK
  <2>2. ctl' = [ctl EXCEPT ![t] = Append(@, r)] /\ UNCHANGED <<top, frame, owed>>
    BY <1>1 DEF CallFunction
  <2> HIDE DEF r
  <2>3. Longer(c, ctl'[t], r)
    BY <1>t, <2>1, <2>2, EnterShape DEF c
  <2>4. Owes(ctl'[t], s, top, frame')
    BY <1>b, <1>c, <1>h, <2>1, <2>2, <2>3, OwesMore
  <2> QED
    BY <2>2, <2>4 DEF Goal
<1>2. ASSUME Return(t)
      PROVE  Goal
  <2>1. ~Inside(t, "landed") /\ UNCHANGED <<top, frame, owed>>
    BY <1>2, <1>t, ReturnShape
  <2>2. PICK i \in 1 .. n :
            /\ Cut(c, ctl'[t], i - 1)
            /\ \/ habits' = habits \cup {"leave"}
               \/ \A j \in i .. n : ~Fragile(c[j])
    BY <1>2, <1>t, ReturnShape DEF c, n
  <2>3. \A j \in i .. n : ~Fragile(c[j])
    BY <2>2
  <2>4. NoLanded(c) /\ Owes(c, s, top, frame)
    BY <1>b, <1>t, <2>1, NotLanded DEF c
  <2>5. s[2] \in 1 .. n /\ Fragile(c[s[2]])
    BY <1>c, <2>4 DEF Owes, OwedAt, Fragile, NoLanded
  <2>6. s[2] <= i - 1
    BY <1>c, <2>3, <2>5
  <2>7. Owes(ctl'[t], s, top, frame')
    BY <1>c, <1>h, <2>1, <2>2, <2>4, <2>6, OwesCut
  <2> QED
    BY <2>1, <2>7 DEF Goal
<1>3. ASSUME NEW w \in Sites, TryBegins(t, w)
      PROVE  Goal
  <2> DEFINE x == <<t, n + 1, w>>
             r == InTry("try", x)
  <2>1. /\ ctl' = [ctl EXCEPT ![t] = Append(@, r)] /\ top' = x
        /\ frame' = [frame EXCEPT ![x] = [EmptyFrame EXCEPT !.ctx = c, !.prev = top]]
        /\ n < MaxDepth /\ owed' = IF w \in HasFinally THEN owed \cup {x} ELSE owed
    BY <1>3 DEF TryBegins, Running, Push, c, n
  <2>2. x \in Slots /\ x[2] = n + 1 /\ SiteOf(x) = w
    BY <1>c, <1>t, <2>1, FramesAssumption DEF Slots, SiteOf
  <2>3. r \in Regions /\ r.part = "try" /\ r.slot = x
    BY <2>2, RegionType DEF InTry, Region
  <2> HIDE DEF r
  <2>4. Longer(c, ctl'[t], r)
    BY <1>t, <2>1, <2>3, EnterShape DEF c
  <2> HIDE DEF x
  <2>5. /\ frame'[x].prev = top /\ frame'[x].ctx = c
        /\ \A y \in Slots \ {x} : frame'[y] = frame[y]
    BY <2>1, <2>2 DEF TypeOK, EmptyFrame
  <2>6. CASE s \in owed
    <3>1. ASSUME NEW k \in DOMAIN c, c[k].part \in {"try", "landed"}
          PROVE  c[k].slot # x
      <4>1. c[k].slot[2] = k /\ k \in 1 .. n
        BY <1>c, <1>t, <3>1, SlotDepth DEF IsCall, n
      <4> QED
        BY <1>c, <2>2, <4>1
    <3>2. Owes(ctl'[t], s, x, frame')
      BY <1>b, <1>c, <2>2, <2>3, <2>4, <2>5, <2>6, <3>1, OwesPush
    <3> QED
      BY <2>1, <3>2 DEF Goal
  <2>7. CASE s \notin owed
    <3> DEFINE d == ctl'[t]
    <3>1. s = x /\ w \in HasFinally
      BY <2>1, <2>7
    <3>2. /\ d \in Seq(Regions) /\ Len(d) = n + 1 /\ DOMAIN d = 1 .. n + 1
          /\ Agree(d, c, n) /\ d[n + 1] = r
      BY <2>4, LenProperties DEF Longer, n
    <3> HIDE DEF d
    <3>3. SubSeq(d, 1, n) = c
      BY <1>c, <3>2, SamePrefix, WholePrefix DEF n
    <3>4. (n + 1) - 1 = n /\ n + 1 \in DOMAIN d
      BY <1>c, <3>2
    <3> DEFINE m == n + 1
    <3>5. d[m].slot = x /\ frame'[x].ctx = SubSeq(d, 1, m - 1) /\ d[m].part = "try"
      BY <2>3, <2>5, <3>2, <3>3, <3>4
    <3>6. s[2] = m /\ m \in DOMAIN d
      BY <2>2, <3>1, <3>4
    <3> HIDE DEF m
    <3>7. Guarded(d, m, x, frame')
      BY <2>2, <3>5, GuardedTop
    <3>8. KeptBy(d, m, m)
      BY <3>5 DEF KeptBy
    <3>9. Owes(d, s, x, frame')
      BY <2>2, <3>1, <3>5, <3>6, <3>7, <3>8 DEF Owes, OwedAt
    <3> QED
      BY <2>1, <3>9 DEF Goal, d
  <2> QED
    BY <2>6, <2>7
<1>4. ASSUME NEW e \in Classes, Throw(t, e)
      PROVE  Goal
  <2>1. top' = top /\ owed' = owed
    BY <1>4 DEF Throw
  <2>2. CASE top # Nothing /\ frame' = [frame EXCEPT ![top].thrown = e] /\ Jump(t, top)
    <3>1. top \in Slots /\ Linked(top, frame)
      BY <2>2 DEF TypeOK, LinkedInv
    <3> QED
      BY <1>b, <1>f, <1>g, <2>1, <2>2, <3>1
  <2>3. CASE UNCHANGED <<ctl, frame>>
    BY <1>b, <2>1, <2>3 DEF Goal, c
  <2> QED
    BY <1>4, <2>2, <2>3 DEF Throw
<1>5. ASSUME CatchBegins(t) \/ AnyIgnores(t)
      PROVE  Goal
  <2> DEFINE r == InTry("catch", Here(t))
  <2>1. /\ c # <<>> /\ ~IsCall(Inner(t)) /\ Here(t) \in Slots /\ top = Here(t)
        /\ Inner(t).part = "landed"
    BY <1>5, <1>t, UntakenType DEF CatchBegins, AnyIgnores, c
  <2>2. /\ top' = frame[top].prev /\ owed' = owed
        /\ frame' = [frame EXCEPT ![Here(t)].thrown = Nothing]
    BY <1>5, <2>1 DEF CatchBegins, AnyIgnores, Clear, Below
  <2>3. SameLinks(frame, frame')
    BY <1>g, <2>1, <2>2
  <2>4. r \in Regions /\ r.part = "catch" /\ r.slot = Here(t)
    BY <2>1, RegionType DEF InTry, Region
  <2>5. ASSUME AnyIgnores(t)
        PROVE  Goal
    <3>1. Leave(t) /\ SiteOf(Here(t)) \notin HasFinally
      BY <2>5, FramesAssumption DEF AnyIgnores
    <3>2. Here(t) # s
      BY <1>b, <2>2, <3>1 DEF Owes
    <3> QED
      BY <1>d, <1>i, <2>1, <2>2, <2>3, <3>1, <3>2
  <2>6. ASSUME CatchBegins(t)
        PROVE  Goal
    <3>1. Become(t, r)
      BY <2>6 DEF CatchBegins
    <3> HIDE DEF r
    <3>2. CASE Here(t) # s
      BY <1>d, <1>j, <2>1, <2>2, <2>3, <2>4, <3>1, <3>2
    <3>3. CASE Here(t) = s
      <4> DEFINE d == ctl'[t]
      <4>1. /\ Len(Front(c)) = n - 1 /\ Longer(Front(c), d, r) /\ n \in Nat \ {0}
        BY <1>t, <2>1, <2>4, <3>1, BecomeShape DEF c, n, Cut
      <4>2. DOMAIN d = 1 .. n /\ n \in DOMAIN d /\ d[n] = r
        BY <4>1, LenProperties DEF Longer
      <4>3. s[2] = n
        BY <1>c, <1>t, <2>1, <3>3, <4>1, SlotDepth DEF n
      <4>4. \A k \in DOMAIN d : ~(n < k)
        BY <4>1, <4>2
      <4> HIDE DEF d
      <4>5. SiteOf(s) \in HasFinally
        BY <1>b, <2>2 DEF Owes
      <4>6. Owes(d, s, top', frame')
        BY <2>4, <3>3, <4>2, <4>3, <4>4, <4>5 DEF Owes, OwedAt
      <4> QED
        BY <4>6 DEF Goal, d
    <3> QED
      BY <3>2, <3>3
  <2> QED
    BY <1>5, <2>5, <2>6
<1>6. ASSUME Rethrow(t)
      PROVE  Goal
  <2> DEFINE b == Below(Here(t))
             d == Front(c)
  <2>1. /\ c # <<>> /\ ~IsCall(Inner(t)) /\ Here(t) \in Slots /\ top = Here(t)
        /\ b = frame[top].prev /\ b \in Slots \cup {Nothing} /\ Linked(b, frame)
        /\ Inner(t).part = "landed"
    BY <1>6, <1>t, UntakenType DEF Rethrow, Below, TypeOK, LinkedInv, c
  <2>2. top' = b /\ owed' = owed /\ SiteOf(Here(t)) \notin HasFinally
    BY <1>6 DEF Rethrow
  <2> HIDE DEF b, d
  <2>3. Here(t) # s
    BY <1>b, <2>2 DEF Owes
  <2>4. s[2] \in 1 .. n - 1
    BY <1>d, <2>1, <2>2, <2>3
  <2>5. CASE b # Nothing /\ frame' = [frame EXCEPT ![b].thrown = Caught(t)] /\ Jump(t, b)
    <3>1. b \in Slots /\ SameLinks(frame, frame') /\ SameLinks(frame', frame)
      BY <1>g, <2>1, <2>5 DEF SameLinks
    <3>2. Cut(c, d, n - 1)
      BY <1>c, <2>1, PrefixCuts DEF d, n
    <3>3. Owes(d, s, b, frame') /\ d \in Seq(Regions)
      BY <1>e, <2>1, <2>2, <2>4, <3>1, <3>2 DEF Cut
    <3>4. Longer(d, c, c[n])
      BY <1>c, <3>2 DEF Longer, Cut, Agree, n
    <3>5. Owes(c, s, b, frame)
      BY <1>c, <2>1, <3>1, <3>3, <3>4, OwesMore
    <3> QED
      BY <1>f, <2>1, <2>2, <2>5, <3>1, <3>5
  <2>6. CASE Leave(t) /\ UNCHANGED frame
    BY <1>h, <1>i, <2>1, <2>2, <2>4, <2>6
  <2> QED
    BY <1>6, <2>5, <2>6 DEF Rethrow, b
<1>7. ASSUME FinallyBegins(t)
      PROVE  Goal
  <2> DEFINE pend == IF top = Here(t) THEN frame[Here(t)].thrown ELSE Nothing
             r == Region("finally", Here(t), pend, 0)
  <2>1. /\ c # <<>> /\ ~IsCall(Inner(t)) /\ Here(t) \in Slots
    BY <1>7, <1>t, HereType DEF FinallyBegins, ReachesFinally, c
  <2>2. pend \in Classes \cup {Nothing}
    BY <2>1 DEF TypeOK
  <2>3. r \in Regions /\ r.part = "finally" /\ Become(t, r)
    BY <1>7, <2>1, <2>2, RegionType DEF Region, FinallyBegins
  <2>4. /\ top' = top \/ (top = Here(t) /\ top' = frame[top].prev)
        /\ frame' = [frame EXCEPT ![Here(t)].thrown = Nothing] \/ frame' = frame
        /\ owed' = owed \ {Here(t)}
    BY <1>7 DEF FinallyBegins, Clear, Below
  <2> HIDE DEF r, pend
  <2>5. SameLinks(frame, frame')
    BY <1>g, <1>h, <2>1, <2>4
  <2>6. s \in owed /\ s[2] \in 1 .. n - 1
    BY <1>d, <2>1, <2>4
  <2> QED
    BY <1>j, <2>1, <2>3, <2>4, <2>5, <2>6
<1>8. ASSUME FinallyEnds(t)
      PROVE  Goal
  <2>1. c # <<>> /\ Inner(t).part = "finally" /\ top' = top /\ owed' = owed
    BY <1>8 DEF FinallyEnds, Inside, c
  <2>2. CASE top # Nothing /\ frame' = [frame EXCEPT ![top].thrown = Inner(t).pend] /\ Jump(t, top)
    <3>1. top \in Slots /\ Linked(top, frame)
      BY <2>2 DEF TypeOK, LinkedInv
    <3> QED
      BY <1>b, <1>f, <1>g, <2>1, <2>2, <3>1
  <2>3. CASE Leave(t) /\ UNCHANGED frame
    BY <1>d, <1>h, <1>i, <2>1, <2>3
  <2> QED
    BY <1>8, <2>2, <2>3 DEF FinallyEnds
<1>9. ASSUME CatchEnds(t) \/ BodyEnds(t) \/ Break(t)
      PROVE  Goal
  <2>1. /\ c # <<>> /\ Leave(t) /\ UNCHANGED <<top, frame, owed>>
        /\ Inner(t).part \in {"try", "catch", "finally"}
    BY <1>9 DEF CatchEnds, BodyEnds, Break, Inside, c
  <2>2. Inner(t).part = "finally" \/ SiteOf(Here(t)) \notin HasFinally
    BY <1>9 DEF CatchEnds, BodyEnds, Break, Fragile, Shows, Here
  <2>3. Inner(t).part = "finally" \/ Here(t) # s
    BY <1>b, <2>1, <2>2 DEF Owes
  <2> QED
    BY <1>d, <1>h, <1>i, <2>1, <2>3
<1>10. ASSUME UNCHANGED vars
       PROVE  Goal
  BY <1>10, <1>b DEF vars, Goal, c
<1>11. PICK u \in Threads :
          \/ UNCHANGED vars
          \/ CallFunction(u) \/ Return(u) \/ \E w \in Sites : TryBegins(u, w)
          \/ \E e \in Classes : Throw(u, e)
          \/ CatchBegins(u) \/ AnyIgnores(u) \/ Rethrow(u)
          \/ FinallyBegins(u) \/ FinallyEnds(u)
          \/ CatchEnds(u) \/ BodyEnds(u) \/ Break(u)
  BY <1>t DEF Next
<1>12. Goal
  BY <1>t, <1>1, <1>2, <1>3, <1>4, <1>5, <1>6, <1>7, <1>8, <1>9, <1>10, <1>11
<1> QED
  BY <1>12 DEF Goal, t

\* In a program that leaves no try statement by return, break or a throw out
\* of a catch, a statement with a finally block is left only through the block,
\* whatever frames other statements leave behind.
THEOREM FinallyRuns ==
    ASSUME OneThread
    PROVE  Spec => []FinallyOfCareful
<1>1. Init => FinallyInv
  BY NestInit DEF NestInv, FinallyInv, OwedInv, Init
<1>2. FinallyInv /\ [Next]_vars => FinallyInv'
  BY TypeStep, LandStep, OwedStep DEF FinallyInv
<1>3. FinallyInv => FinallyOfCareful
  <2> SUFFICES ASSUME FinallyInv, habits \subseteq {"plain"}, NEW s \in owed
               PROVE  \E i \in DOMAIN ctl[s[1]] :
                         /\ ctl[s[1]][i].slot = s
                         /\ ctl[s[1]][i].part \in {"try", "landed", "catch"}
    BY DEF FinallyOfCareful, StillOpen
  <2>1. Owes(ctl[s[1]], s, top, frame)
    BY DEF FinallyInv, OwedInv
  <2> QED
    BY <2>1 DEF Owes, OwedAt
<1> QED
  BY <1>1, <1>2, <1>3, PTL DEF Spec
=============================================================================
