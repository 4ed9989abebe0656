-------------------------- MODULE GeneratorProofs --------------------------
(* Theorems about Generator, for every number of yields and calls and every *)
(* size of the storage that holds a yielded pair.                           *)
EXTENDS Generator, SequenceTheorems, TLAPS

-----------------------------------------------------------------------------
\* The storage

\* mco_push stores values or leaves the storage as it was.
LEMMA PushType ==
    ASSUME NEW s \in Seq(Values), Len(s) <= Room, NEW vs \in Seq(Values)
    PROVE  Push(s, vs) \in Seq(Values) /\ Len(Push(s, vs)) <= Room
BY GeneratorAssumption, ConcatProperties DEF Push

\* mco_pop leaves values on the storage.
LEMMA DropType ==
    ASSUME storage \in Seq(Values), Len(storage) <= Room,
           NEW k \in Nat, k <= Len(storage)
    PROVE  Drop(k) \in Seq(Values) /\ Len(Drop(k)) <= Room
<1>1. \A i \in 1 .. Len(storage) - k : storage[i] \in Values
  BY ElementOfSeq
<1>2. Len(storage) \in Nat
  BY LenProperties
<1> QED
  BY <1>1, <1>2, SubSeqProperties, GeneratorAssumption DEF Drop

\* What is read off the storage is a value.
LEMMA TopType ==
    ASSUME storage \in Seq(Values), Len(storage) <= Room
    PROVE  Top \in Values /\ DropTop \in Seq(Values) /\ Len(DropTop) <= Room
<1>1. CASE storage = <<>>
  BY <1>1 DEF Top, DropTop, Values
<1>2. CASE storage # <<>>
  <2>1. Len(storage) \in Nat /\ Len(storage) >= 1
    BY <1>2, EmptySeq, LenProperties
  <2>2. storage[Len(storage)] \in Values
    BY <2>1, ElementOfSeq
  <2> QED
    BY <1>2, <2>1, <2>2, DropType DEF Top, DropTop
<1> QED
  BY <1>1, <1>2

\* An empty storage takes one value, or the pair of a yield.
LEMMA PushOnEmpty ==
    ASSUME NEW s, s = <<>>, NEW v
    PROVE  Push(s, <<v>>) = <<v>> /\ Push(s, <<v, v>>) = <<v, v>>
BY GeneratorAssumption DEF Push

\* Taking the one value leaves nothing.
LEMMA PopOne ==
    ASSUME NEW v, storage = <<v>>
    PROVE  Top = v /\ DropTop = <<>>
<1>1. Len(storage) = 1 /\ storage # <<>> /\ storage[1] = v
  OBVIOUS
<1>2. SubSeq(storage, 1, 0) = <<>>
  BY SubSeqEmpty
<1> QED
  BY <1>1, <1>2 DEF Top, DropTop, Drop

\* Taking the pair leaves nothing.
LEMMA PopPair ==
    ASSUME NEW v, storage = <<v, v>>
    PROVE  HasPair /\ Top = v /\ DropPair = <<>>
<1>1. Len(storage) = 2 /\ storage[2] = v /\ storage # <<>>
  OBVIOUS
<1>2. SubSeq(storage, 1, 0) = <<>>
  BY SubSeqEmpty
<1> QED
  BY <1>1, <1>2 DEF HasPair, Top, DropPair, Drop

-----------------------------------------------------------------------------
\* Type correctness

\* Every step keeps the types.
LEMMA TypeStep == TypeOK /\ [Next]_vars => TypeOK'
<1> SUFFICES ASSUME TypeOK, [Next]_vars
             PROVE  TypeOK'
  OBVIOUS
<1> USE GeneratorAssumption
<1>n. 0 .. MaxYields \subseteq Values /\ 1 .. MaxCalls \subseteq Values
      /\ MaxCalls + 1 \in Values /\ Null \in Values
  BY DEF Values
<1>1. ASSUME NEW m \in {"look", "next", "send"}, Call(m) PROVE TypeOK'
  <2> DEFINE v == IF m = "send" THEN calls + 1 ELSE Null
  <2>1. v \in Values /\ calls + 1 \in 0 .. MaxCalls
    BY <1>1, <1>n DEF Call, TypeOK
  <2>2. <<v>> \in Seq(Values) /\ Append(sent, v) \in Seq(Values)
    BY <2>1, AppendProperties DEF TypeOK
  <2>3. sent' \in Seq(Values) /\ storage' \in Seq(Values) /\ Len(storage') <= Room
    BY <1>1, <2>2, PushType DEF Call, TypeOK
  <2> QED
    BY <1>1, <2>1, <2>3 DEF Call, TypeOK, co, body
<1>2. CASE Resume
  BY <1>2 DEF Resume, SignalBody, TypeOK, object
<1>3. CASE AwaitBody
  BY <1>3 DEF AwaitBody, TypeOK, object, body
<1>4. CASE CacheReturn
  BY <1>4, TopType DEF CacheReturn, TypeOK, co, body
<1>5. CASE CacheYield
  <2>1. Top \in Values /\ cur' \in Values
    BY <1>5, <1>n, TopType DEF CacheYield, TypeOK
  <2>2. DropPair \in Seq(Values) /\ Len(DropPair) <= Room
    BY DropType DEF DropPair, HasPair, TypeOK
  <2>3. calls \in Values
    BY DEF Values, TypeOK
  <2>4. <<calls>> \in Seq(Values)
    BY <2>3
  <2>5. Push(DropPair, <<calls>>) \in Seq(Values) /\ Len(Push(DropPair, <<calls>>)) <= Room
    BY <2>2, <2>4, PushType
  <2> QED
    BY <1>5, <2>1, <2>2, <2>4, <2>5 DEF CacheYield, TypeOK, co, body
<1>6. CASE Destroy
  BY <1>6 DEF Destroy, SignalBody, TypeOK, object
<1>7. CASE Joined
  BY <1>7 DEF Joined, TypeOK, co, object, body
<1>8. CASE Enter
  BY <1>8 DEF Enter, TypeOK, object, caller
<1>9. CASE Yield
  <2>1. yields' \in 0 .. MaxYields /\ yields' \in Values
    BY <1>9, <1>n DEF Yield, TypeOK
  <2>2. <<yields', yields'>> \in Seq(Values)
    BY <2>1
  <2>3. storage' \in Seq(Values) /\ Len(storage') <= Room
    BY <1>9, <2>2, PushType DEF Yield, TypeOK
  <2> QED
    BY <1>9, <2>1, <2>3 DEF Yield, TypeOK, co, object, caller
<1>10. CASE Suspend
  BY <1>10 DEF Suspend, SignalMain, TypeOK, object
<1>11. CASE Unpark
  BY <1>11 DEF Unpark, TypeOK, object, caller
<1>12. CASE Refuse
  BY <1>12 DEF Refuse, TypeOK, co, object, caller
<1>13. CASE Receive
  BY <1>13, TopType, AppendProperties DEF Receive, TypeOK, co, object, caller
<1>14. CASE Return
  <2>1. <<MaxCalls + 1>> \in Seq(Values)
    BY <1>n
  <2>2. result' \in Values /\ storage' \in Seq(Values) /\ Len(storage') <= Room
    BY <1>14, <1>n, <2>1, PushType DEF Return, TypeOK
  <2> QED
    BY <1>14, <2>2 DEF Return, TypeOK, co, object, caller
<1>15. CASE Finish
  BY <1>15 DEF Finish, SignalMain, TypeOK, object
<1>16. CASE WakeMain
  BY <1>16 DEF WakeMain, TypeOK, co, object, body
<1>17. CASE WakeBody
  BY <1>17 DEF WakeBody, SignalBody, TypeOK, co, object, caller
<1>18. CASE UNCHANGED vars
  BY <1>18 DEF vars, co, object, caller, body, TypeOK
<1> QED
  BY <1>1, <1>2, <1>3, <1>4, <1>5, <1>6, <1>7, <1>8, <1>9, <1>10, <1>11,
     <1>12, <1>13, <1>14, <1>15, <1>16, <1>17, <1>18
     DEF Next, InCall, InBody

\* Every variable keeps its type and the storage never overflows, however often
\* the generator is called and yields.
THEOREM TypeCorrect == Spec => []TypeOK
<1>1. Init => TypeOK
  <2>1. <<>> \in Seq(Values) /\ Len(<<>>) = 0
    BY EmptySeq
  <2>2. Null \in Values /\ 0 \in 0 .. MaxYields /\ 0 \in 0 .. MaxCalls /\ 0 <= Room
    BY GeneratorAssumption DEF Values
  <2> QED
    BY <2>1, <2>2 DEF Init, TypeOK
<1> QED
  BY <1>1, TypeStep, PTL DEF Spec

-----------------------------------------------------------------------------
\* The inductive invariant

Parked == gpc \in {"parked", "unparked"}

\* The object's cached value when the body has not yielded a newer one.
Cached == cur = IF yields = 0 THEN Null ELSE yields

\* The data, by how far a round trip has come: nothing has run;
Fresh ==
    /\ gpc \in {"entry", "waiting"} /\ yields = 0
    /\ sent = <<>> /\ got = <<>> /\ storage = <<>> /\ cur = Null /\ result = Null

\* a value was sent that the body has not taken;
Given ==
    /\ \E v \in Values : storage = <<v>> /\ sent = Append(got, v)
    /\ yields = Len(sent) /\ yields > 0 /\ cur = yields /\ result = Null

\* the body has taken all that was sent;
Level ==
    storage = <<>> /\ got = sent /\ yields = Len(sent) /\ Cached /\ result = Null

\* it has yielded a pair that the caller has not taken;
Offered ==
    /\ storage = <<yields, yields>> /\ got = sent
    /\ yields = Len(sent) + 1 /\ result = Null

\* the caller has taken it;
Taken ==
    /\ storage = <<>> /\ got = sent
    /\ yields = Len(sent) + 1 /\ cur = yields /\ result = Null

\* the body has returned, and the caller has not looked at what;
Returned ==
    /\ (storage = <<>> /\ result = Null) \/ storage = <<result>>
    /\ got = sent /\ yields = Len(sent) /\ Cached

\* it has looked.
Over ==
    storage = <<>> /\ got = sent /\ yields = Len(sent) /\ Cached /\ ret = result

\* Whose turn it is, and what the flags say then.
Handed ==
    \/ state = "SUSPENDED" /\ Parked /\ Offered
    \/ state = "DEAD" /\ gpc = "ended" /\ Returned

IdleInv ==
    pc = "idle" =>
        /\ ~gen_resume /\ ~main_resume
        /\ \/ ~started /\ ~done /\ state = "SUSPENDED" /\ Fresh /\ ret = Null
           \/ started /\ ~done /\ state = "SUSPENDED" /\ Parked /\ Taken /\ ret = Null
           \/ started /\ done /\ state = "DEAD" /\ gpc = "ended" /\ Over

ResumeInv ==
    pc = "resume" =>
        /\ ~gen_resume /\ ~main_resume /\ started /\ ~done /\ ret = Null
        /\ state = "SUSPENDED" /\ (Fresh \/ (Parked /\ Given))

WaitInv ==
    pc \in {"asleep", "awake"} =>
        /\ started /\ ~done /\ ret = Null
        /\ \/ /\ gen_resume /\ ~main_resume /\ state = "RUNNING"
              /\ (gpc = "entry" /\ Fresh) \/ (gpc = "unparked" /\ Given)
           \/ /\ ~gen_resume /\ ~main_resume /\ state = "RUNNING"
              /\ \/ gpc = "receive" /\ Given
                 \/ gpc = "run" /\ Level
                 \/ gpc = "yield" /\ Offered
                 \/ gpc = "finish" /\ Returned
           \/ ~gen_resume /\ main_resume /\ pc = "awake" /\ Handed

CacheInv ==
    pc = "cache" =>
        ~gen_resume /\ ~main_resume /\ started /\ ~done /\ ret = Null /\ Handed

GoneInv == pc = "gone" => gpc = "ended"

TurnInv == IdleInv /\ ResumeInv /\ WaitInv /\ CacheInv /\ GoneInv

IInv == TypeOK /\ TurnInv

-----------------------------------------------------------------------------
\* The steps of the caller keep the invariant

\* A call sends its value and goes to mco_resume; the body is where it was.
LEMMA CallStep ==
    ASSUME IInv, NEW m \in {"look", "next", "send"}, Call(m)
    PROVE  TurnInv'
<1> DEFINE v == IF m = "send" THEN calls + 1 ELSE Null
<1> USE DEF IInv
<1>1. pc' = "resume" /\ pc = "idle" /\ ~done /\ started'
  BY DEF Call
<1>2. CASE ~started
  <2>1. Fresh /\ state = "SUSPENDED" /\ ~gen_resume /\ ~main_resume /\ ret = Null
    BY <1>1, <1>2 DEF TurnInv, IdleInv
  <2>2. Fresh' /\ UNCHANGED <<state, gen_resume, main_resume, ret, done>>
    BY <1>2, <2>1 DEF Call, Fresh, co, body
  <2>3. ResumeInv'
    BY <1>1, <2>1, <2>2 DEF ResumeInv
  <2> QED
    BY <1>1, <2>3 DEF TurnInv, IdleInv, WaitInv, CacheInv, GoneInv
<1>3. CASE started
  <2>1. Taken /\ Parked /\ state = "SUSPENDED" /\ ~gen_resume /\ ~main_resume /\ ret = Null
    BY <1>1, <1>3 DEF TurnInv, IdleInv
  <2>2. v \in Values
    BY <1>1, GeneratorAssumption DEF TypeOK, Values, Call
  <2>3. sent' = Append(sent, v) /\ storage' = <<v>>
    BY <1>3, <2>1, PushOnEmpty DEF Call, Taken
  <2>4. UNCHANGED <<state, gen_resume, main_resume, ret, done, cur, gpc, yields, got, result>>
    BY DEF Call, co, body
  <2>5. Len(sent') = Len(sent) + 1 /\ Len(sent) \in Nat
    BY <2>2, <2>3, AppendProperties, LenProperties DEF TypeOK
  <2>6. Given' /\ Parked'
    BY <2>1, <2>2, <2>3, <2>4, <2>5 DEF Taken, Given, Parked
  <2>7. ResumeInv'
    BY <1>1, <2>1, <2>4, <2>6 DEF ResumeInv
  <2> QED
    BY <1>1, <2>7 DEF TurnInv, IdleInv, WaitInv, CacheInv, GoneInv
<1> QED
  BY <1>2, <1>3 DEF TypeOK

\* mco_resume hands the turn over: what the caller left is what the body finds.
LEMMA ResumeStep ==
    ASSUME IInv, Resume
    PROVE  TurnInv'
<1> USE DEF IInv
<1>1. pc = "resume" /\ ResumeInv
  BY DEF TurnInv, Resume
<1>2. pc' = "asleep" /\ state' = "RUNNING" /\ gen_resume' /\ ~main_resume'
      /\ UNCHANGED <<started, done, ret, storage, sent, got, yields, cur, result>>
  BY <1>1 DEF Resume, ResumeInv, object
<1>3. (gpc' = "entry" /\ Fresh') \/ (gpc' = "unparked" /\ Given')
  BY <1>1, <1>2 DEF Resume, ResumeInv, SignalBody, Fresh, Given, Parked
<1>4. WaitInv'
  BY <1>1, <1>2, <1>3 DEF WaitInv, ResumeInv
<1> QED
  BY <1>2, <1>4 DEF TurnInv, IdleInv, ResumeInv, CacheInv, GoneInv

\* Steps that leave the data alone leave every phase of it alone.
LEMMA DataUnchanged ==
    ASSUME UNCHANGED <<storage, sent, got, yields, cur, result, ret>>
    PROVE  /\ Given' = Given /\ Level' = Level /\ Offered' = Offered
           /\ Taken' = Taken /\ Returned' = Returned /\ Over' = Over
           /\ Cached' = Cached
BY DEF Given, Level, Offered, Taken, Returned, Over, Cached

\* The caller leaves the wait only when the body has handed the turn back.
LEMMA AwaitBodyStep ==
    ASSUME IInv, AwaitBody
    PROVE  TurnInv'
<1> USE DEF IInv
<1>1. pc = "awake" /\ WaitInv
  BY DEF TurnInv, AwaitBody
<1>2. ~main_resume' /\ UNCHANGED <<state, gen_resume, storage, started, done, cur, ret,
                                  sent, gpc, yields, got, result>>
  BY DEF AwaitBody, object, body
<1>3. CASE main_resume
  <2>1. pc' = "cache"
    BY <1>3 DEF AwaitBody
  <2>2. Handed' = Handed
    BY <1>2, DataUnchanged DEF Handed, Parked
  <2>3. CacheInv'
    BY <1>1, <1>2, <1>3, <2>2 DEF WaitInv, CacheInv
  <2> QED
    BY <2>1, <2>3 DEF TurnInv, IdleInv, ResumeInv, WaitInv, GoneInv
<1>4. CASE ~main_resume
  <2>1. pc' = "asleep"
    BY <1>4 DEF AwaitBody
  <2>2. Fresh' = Fresh /\ Given' = Given /\ Level' = Level /\ Offered' = Offered
        /\ Returned' = Returned
    BY <1>2, DataUnchanged DEF Fresh
  <2>3. WaitInv'
    BY <1>1, <1>2, <1>4, <2>1, <2>2 DEF WaitInv
  <2> QED
    BY <2>1, <2>3 DEF TurnInv, IdleInv, ResumeInv, CacheInv, GoneInv
<1> QED
  BY <1>3, <1>4

\* What the object takes from a body that ended is what the body returned.
LEMMA CacheReturnStep ==
    ASSUME IInv, CacheReturn
    PROVE  TurnInv'
<1> USE DEF IInv
<1>1. CacheInv /\ pc = "cache" /\ state = "DEAD"
  BY DEF TurnInv, CacheReturn
<1>2. gpc = "ended" /\ Returned /\ ~gen_resume /\ ~main_resume /\ started
  BY <1>1 DEF CacheInv, Handed
<1>3. pc' = "idle" /\ done' /\ ret' = Top /\ storage' = DropTop
      /\ UNCHANGED <<state, gen_resume, main_resume, started, cur, sent, gpc, yields, got, result>>
  BY DEF CacheReturn, co, body
<1>4. ret' = result /\ storage' = <<>>
  <2>1. CASE storage = <<>> /\ result = Null
    BY <1>3, <2>1 DEF Top, DropTop
  <2>2. CASE storage = <<result>>
    BY <1>3, <2>2, PopOne
  <2> QED
    BY <1>2, <2>1, <2>2 DEF Returned
<1>5. Over'
  BY <1>2, <1>3, <1>4 DEF Returned, Over, Cached
<1>6. IdleInv'
  BY <1>1, <1>2, <1>3, <1>5 DEF IdleInv
<1> QED
  BY <1>3, <1>6 DEF TurnInv, ResumeInv, WaitInv, CacheInv, GoneInv

\* What the object takes from a body that yielded is its last pair.
LEMMA CacheYieldStep ==
    ASSUME IInv, CacheYield
    PROVE  TurnInv'
<1> USE DEF IInv
<1>1. CacheInv /\ pc = "cache" /\ state # "DEAD"
  BY DEF TurnInv, CacheYield
<1>2. state = "SUSPENDED" /\ Parked /\ Offered /\ ~gen_resume /\ ~main_resume
      /\ started /\ ~done /\ ret = Null
  BY <1>1 DEF CacheInv, Handed
<1>3. cur' = yields /\ DropPair = <<>>
  BY <1>2, PopPair DEF CacheYield, Offered
<1>4. UNCHANGED <<state, gen_resume, main_resume, started, done, ret, gpc, yields, got, result>>
  BY DEF CacheYield, co, body
<1>5. CASE op = "send" /\ sent = <<>>
  <2>1. pc' = "resume" /\ sent' = <<calls>> /\ storage' = <<calls>>
    BY <1>3, <1>5, PushOnEmpty DEF CacheYield
  <2>2. yields = 1 /\ got = <<>>
    BY <1>2, <1>5 DEF Offered
  <2>3. calls \in Values /\ sent' = Append(got, calls) /\ Len(sent') = 1
    BY <2>1, <2>2, GeneratorAssumption DEF TypeOK, Values
  <2>4. Given' /\ Parked'
    BY <1>2, <1>3, <1>4, <2>1, <2>2, <2>3 DEF Given, Parked, Offered
  <2>5. ResumeInv'
    BY <1>2, <1>4, <2>4 DEF ResumeInv
  <2> QED
    BY <2>1, <2>5 DEF TurnInv, IdleInv, WaitInv, CacheInv, GoneInv
<1>6. CASE ~(op = "send" /\ sent = <<>>)
  <2>1. pc' = "idle" /\ sent' = sent /\ storage' = <<>>
    BY <1>3, <1>6 DEF CacheYield
  <2>2. Taken' /\ Parked'
    BY <1>2, <1>3, <1>4, <2>1 DEF Taken, Offered, Parked
  <2>3. IdleInv'
    BY <1>2, <1>4, <2>2 DEF IdleInv
  <2> QED
    BY <2>1, <2>3 DEF TurnInv, ResumeInv, WaitInv, CacheInv, GoneInv
<1> QED
  BY <1>5, <1>6

-----------------------------------------------------------------------------
\* The steps of the body keep the invariant

\* A body that executes has the caller in a wait, or in the destructor.
LEMMA RunsDuringWait ==
    ASSUME IInv, gpc \in {"run", "yield", "receive", "finish"}
    PROVE  pc \in {"asleep", "awake", "joining"}
BY DEF IInv, TypeOK, TurnInv, IdleInv, ResumeInv, CacheInv, GoneInv, Handed,
       Fresh, Parked

\* A step that leaves the caller in the destructor has nothing to keep.
LEMMA JoiningStep ==
    ASSUME pc' = "joining"
    PROVE  TurnInv'
BY DEF TurnInv, IdleInv, ResumeInv, WaitInv, CacheInv, GoneInv

\* Nor one in a wait, except what the wait asks for.
LEMMA WaitingStep ==
    ASSUME pc' \in {"asleep", "awake"}, WaitInv'
    PROVE  TurnInv'
BY DEF TurnInv, IdleInv, ResumeInv, CacheInv, GoneInv

\* The body starts only when it was resumed for the first time.
LEMMA EnterStep ==
    ASSUME IInv, Enter
    PROVE  TurnInv'
<1> USE DEF IInv
<1>1. gpc = "entry" /\ ~gen_resume' /\ gpc' = (IF gen_resume THEN "run" ELSE "waiting")
      /\ UNCHANGED <<state, main_resume, storage, started, done, cur, ret, pc, sent,
                     yields, got, result>>
  BY DEF Enter, object, caller
<1>2. CASE pc \in {"idle", "resume"}
  <2>1. Fresh /\ ~gen_resume
    BY <1>1, <1>2 DEF TurnInv, IdleInv, ResumeInv, Parked
  <2>2. Fresh'
    BY <1>1, <2>1 DEF Fresh
  <2>3. IdleInv' /\ ResumeInv'
    BY <1>1, <1>2, <2>1, <2>2 DEF TurnInv, IdleInv, ResumeInv, Parked
  <2> QED
    BY <1>1, <1>2, <2>3 DEF TurnInv, WaitInv, CacheInv, GoneInv
<1>3. CASE pc \in {"asleep", "awake"}
  <2>1. gen_resume /\ ~main_resume /\ state = "RUNNING" /\ Fresh /\ started /\ ~done /\ ret = Null
    BY <1>1, <1>3 DEF TurnInv, WaitInv, Handed, Parked
  <2>2. Level' /\ gpc' = "run"
    BY <1>1, <2>1 DEF Fresh, Level, Cached
  <2>3. WaitInv'
    BY <1>1, <2>1, <2>2 DEF WaitInv
  <2> QED
    BY <1>1, <1>3, <2>3, WaitingStep
<1>4. CASE pc = "joining"
  BY <1>1, <1>4, JoiningStep
<1>5. pc \notin {"cache", "gone"}
  BY <1>1 DEF TurnInv, CacheInv, GoneInv, Handed, Parked
<1> QED
  BY <1>2, <1>3, <1>4, <1>5 DEF TypeOK

\* A yield puts its pair on an empty storage.
LEMMA YieldStep ==
    ASSUME IInv, Yield
    PROVE  TurnInv'
<1> USE DEF IInv
<1>1. gpc = "run" /\ storage' = Push(storage, <<yields', yields'>>)
      /\ gpc' = "yield"
      /\ UNCHANGED <<state, gen_resume, main_resume, started, done, cur, ret, pc, sent, got, result>>
  BY DEF Yield, co, object, caller
<1>2. CASE pc \in {"asleep", "awake"}
  <2>1. ~gen_resume /\ ~main_resume /\ state = "RUNNING" /\ Level /\ started /\ ~done /\ ret = Null
    BY <1>1, <1>2 DEF TurnInv, WaitInv, Handed, Parked
  <2>2. yields' = yields + 1
    BY <2>1 DEF Yield
  <2>3. storage' = <<yields', yields'>>
    BY <1>1, <2>1, PushOnEmpty DEF Level
  <2>4. Offered'
    BY <1>1, <2>1, <2>2, <2>3 DEF Level, Offered
  <2>5. WaitInv'
    BY <1>1, <2>1, <2>4 DEF WaitInv
  <2> QED
    BY <1>1, <1>2, <2>5, WaitingStep
<1>3. CASE pc = "joining"
  BY <1>1, <1>3, JoiningStep
<1> QED
  BY <1>1, <1>2, <1>3, RunsDuringWait

\* mco_yield hands the turn back with the pair on the storage.
LEMMA SuspendStep ==
    ASSUME IInv, Suspend
    PROVE  TurnInv'
<1> USE DEF IInv
<1>1. gpc = "yield" /\ main_resume' /\ ~gen_resume'
      /\ UNCHANGED <<storage, started, done, cur, ret, sent, yields, got, result>>
  BY DEF Suspend, object
<1>2. CASE pc \in {"asleep", "awake"}
  <2>1. ~gen_resume /\ Offered /\ started /\ ~done /\ ret = Null
    BY <1>1, <1>2 DEF TurnInv, WaitInv, Handed, Parked
  <2>2. pc' = "awake" /\ gpc' = "parked" /\ state' = "SUSPENDED"
    BY <1>2, <2>1 DEF Suspend, SignalMain
  <2>3. Offered'
    BY <1>1, <2>1, DataUnchanged
  <2>4. WaitInv'
    BY <1>1, <2>1, <2>2, <2>3 DEF WaitInv, Handed, Parked
  <2> QED
    BY <2>2, <2>4, WaitingStep
<1>3. CASE pc = "joining"
  <2>1. pc' = "joining"
    BY <1>3 DEF Suspend, SignalMain
  <2> QED
    BY <2>1, JoiningStep
<1> QED
  BY <1>1, <1>2, <1>3, RunsDuringWait

\* The body leaves the wait only when it was resumed again.
LEMMA UnparkStep ==
    ASSUME IInv, Unpark
    PROVE  TurnInv'
<1> USE DEF IInv
<1>1. gpc = "unparked" /\ ~gen_resume'
      /\ UNCHANGED <<main_resume, storage, started, done, cur, ret, pc, sent, yields, got, result>>
  BY DEF Unpark, object, caller
<1>2. CASE pc \in {"idle", "resume", "cache"} \/ (pc \in {"asleep", "awake"} /\ main_resume)
  <2>1. ~gen_resume /\ Parked
    BY <1>1, <1>2 DEF TurnInv, IdleInv, ResumeInv, WaitInv, CacheInv, Handed, Parked
  <2>2. gpc' = "parked" /\ Parked' /\ state' = state
    BY <2>1 DEF Unpark, Parked
  <2>3. Given' = Given /\ Offered' = Offered /\ Taken' = Taken
    BY <1>1, DataUnchanged
  <2>4. ~Fresh /\ gpc # "ended"
    BY <1>1 DEF Fresh
  <2>5. IdleInv' /\ ResumeInv' /\ WaitInv' /\ CacheInv'
    BY <1>1, <1>2, <2>1, <2>2, <2>3, <2>4
       DEF TurnInv, IdleInv, ResumeInv, WaitInv, CacheInv, Handed
  <2> QED
    BY <1>1, <1>2, <2>5 DEF TurnInv, GoneInv
<1>3. CASE pc \in {"asleep", "awake"} /\ ~main_resume
  <2>1. gen_resume /\ state = "RUNNING" /\ Given /\ started /\ ~done /\ ret = Null
    BY <1>1, <1>3 DEF TurnInv, WaitInv
  <2>2. gpc' = "receive" /\ state' = "RUNNING" /\ Given'
    BY <1>1, <2>1, DataUnchanged DEF Unpark
  <2>3. WaitInv'
    BY <1>1, <1>3, <2>1, <2>2 DEF WaitInv
  <2> QED
    BY <1>1, <1>3, <2>3, WaitingStep
<1>4. CASE pc = "joining"
  BY <1>1, <1>4, JoiningStep
<1>5. pc # "gone"
  BY <1>1 DEF TurnInv, GoneInv
<1> QED
  BY <1>2, <1>3, <1>4, <1>5 DEF TypeOK

\* mco_yield of a destroyed coroutine leaves the caller in the destructor.
LEMMA RefuseStep ==
    ASSUME IInv, Refuse
    PROVE  TurnInv'
<1> USE DEF IInv
<1>1. gpc = "yield" /\ state # "RUNNING" /\ pc' = pc
  BY DEF Refuse, caller
<1>2. pc = "joining"
  BY <1>1, RunsDuringWait DEF TurnInv, WaitInv, Handed, Parked
<1> QED
  BY <1>1, <1>2, JoiningStep

\* The body receives the value of this turn, and the storage is empty again.
LEMMA ReceiveStep ==
    ASSUME IInv, Receive
    PROVE  TurnInv'
<1> USE DEF IInv
<1>1. gpc = "receive" /\ gpc' = "run" /\ storage' = DropTop
      /\ UNCHANGED <<state, gen_resume, main_resume, started, done, cur, ret, pc, sent,
                     yields, result>>
  BY DEF Receive, co, object, caller
<1>2. CASE pc \in {"asleep", "awake"}
  <2>1. ~gen_resume /\ ~main_resume /\ state = "RUNNING" /\ Given /\ started /\ ~done /\ ret = Null
    BY <1>1, <1>2 DEF TurnInv, WaitInv, Handed, Parked
  <2>2. PICK v \in Values : storage = <<v>> /\ sent = Append(got, v)
    BY <2>1 DEF Given
  <2>3. storage' = <<>> /\ got' = sent
    BY <1>1, <2>1, <2>2, PopOne DEF Receive
  <2>4. Level'
    BY <1>1, <2>1, <2>3 DEF Given, Level, Cached
  <2>5. WaitInv'
    BY <1>1, <2>1, <2>4 DEF WaitInv
  <2> QED
    BY <1>1, <1>2, <2>5, WaitingStep
<1>3. CASE pc = "joining"
  BY <1>1, <1>3, JoiningStep
<1> QED
  BY <1>1, <1>2, <1>3, RunsDuringWait

\* A body that returns leaves its value, or nothing, on the storage.
LEMMA ReturnStep ==
    ASSUME IInv, Return
    PROVE  TurnInv'
<1> USE DEF IInv
<1>1. gpc = "run" /\ gpc' = "finish"
      /\ UNCHANGED <<state, gen_resume, main_resume, started, done, cur, ret, pc, sent,
                     yields, got>>
  BY DEF Return, co, object, caller
<1>2. CASE pc \in {"asleep", "awake"}
  <2>1. ~gen_resume /\ ~main_resume /\ state = "RUNNING" /\ Level /\ started /\ ~done /\ ret = Null
    BY <1>1, <1>2 DEF TurnInv, WaitInv, Handed, Parked
  <2>2. (storage' = <<>> /\ result' = Null) \/ storage' = <<result'>>
    BY <2>1, PushOnEmpty DEF Return, Level
  <2>3. Returned'
    BY <1>1, <2>1, <2>2 DEF Level, Returned, Cached
  <2>4. WaitInv'
    BY <1>1, <2>1, <2>3 DEF WaitInv
  <2> QED
    BY <1>1, <1>2, <2>4, WaitingStep
<1>3. CASE pc = "joining"
  BY <1>1, <1>3, JoiningStep
<1> QED
  BY <1>1, <1>2, <1>3, RunsDuringWait

\* The end of the body hands the turn back for the last time.
LEMMA FinishStep ==
    ASSUME IInv, Finish
    PROVE  TurnInv'
<1> USE DEF IInv
<1>1. gpc = "finish" /\ gpc' = "ended" /\ state' = "DEAD" /\ main_resume'
      /\ UNCHANGED <<gen_resume, storage, started, done, cur, ret, sent, yields, got, result>>
  BY DEF Finish, object
<1>2. CASE pc \in {"asleep", "awake"}
  <2>1. ~gen_resume /\ Returned /\ started /\ ~done /\ ret = Null
    BY <1>1, <1>2 DEF TurnInv, WaitInv, Handed, Parked
  <2>2. pc' = "awake"
    BY <1>2 DEF Finish, SignalMain
  <2>3. Returned'
    BY <1>1, <2>1, DataUnchanged
  <2>4. WaitInv'
    BY <1>1, <2>1, <2>2, <2>3 DEF WaitInv, Handed
  <2> QED
    BY <2>2, <2>4, WaitingStep
<1>3. CASE pc = "joining"
  <2>1. pc' = "joining"
    BY <1>3 DEF Finish, SignalMain
  <2> QED
    BY <2>1, JoiningStep
<1> QED
  BY <1>1, <1>2, <1>3, RunsDuringWait

\* Spurious wake-ups find the same flags.
LEMMA WakeStep ==
    ASSUME IInv, WakeMain \/ WakeBody
    PROVE  TurnInv'
<1> USE DEF IInv
<1>1. UNCHANGED <<co, storage, object, op, calls, sent, yields, got, result>>
  BY DEF WakeMain, WakeBody, caller, body
<1>2. Given' = Given /\ Level' = Level /\ Offered' = Offered /\ Taken' = Taken
      /\ Returned' = Returned /\ Over' = Over
  BY <1>1, DataUnchanged DEF object
<1>3. CASE WakeMain
  <2>1. pc = "asleep" /\ pc' = "awake" /\ gpc' = gpc
    BY <1>3 DEF WakeMain, body
  <2>2. Fresh' = Fresh
    BY <1>1, <2>1 DEF Fresh, object
  <2>3. WaitInv'
    BY <1>1, <1>2, <2>1, <2>2 DEF TurnInv, WaitInv, co, object
  <2> QED
    BY <2>1, <2>3, WaitingStep
<1>4. CASE WakeBody
  <2>1. /\ pc' = pc
        /\ (gpc = "waiting" /\ gpc' = "entry") \/ (gpc = "parked" /\ gpc' = "unparked")
    BY <1>4 DEF WakeBody, SignalBody, caller
  <2>2. Fresh' = Fresh /\ Parked' = Parked
    BY <1>1, <2>1 DEF Fresh, Parked, object
  <2>3. Handed' = Handed
    BY <1>1, <1>2, <2>1, <2>2 DEF Handed, co
  <2>4. IdleInv' /\ ResumeInv' /\ CacheInv' /\ GoneInv'
    BY <1>1, <1>2, <2>1, <2>2, <2>3
       DEF TurnInv, IdleInv, ResumeInv, CacheInv, GoneInv, co, object
  <2>5. WaitInv'
    BY <1>1, <1>2, <2>1, <2>2, <2>3 DEF TurnInv, WaitInv, co, object
  <2> QED
    BY <2>4, <2>5 DEF TurnInv
<1> QED
  BY <1>3, <1>4

-----------------------------------------------------------------------------
\* The invariant and what it implies

\* Every step keeps the turns.
LEMMA TurnStep ==
    ASSUME IInv, [Next]_vars
    PROVE  TurnInv'
<1>1. CASE Destroy
  BY <1>1, JoiningStep DEF Destroy
<1>2. CASE Joined
  BY <1>2 DEF Joined, body, TurnInv, IdleInv, ResumeInv, WaitInv, CacheInv, GoneInv
<1>3. CASE UNCHANGED vars
  <2>1. UNCHANGED <<state, gen_resume, main_resume, storage, pc, started, done, cur, ret,
                   gpc, yields, sent, got, result>>
    BY <1>3 DEF vars, co, object, caller, body
  <2>2. Given' = Given /\ Level' = Level /\ Offered' = Offered /\ Taken' = Taken
        /\ Returned' = Returned /\ Over' = Over /\ Fresh' = Fresh /\ Parked' = Parked
    BY <2>1, DataUnchanged DEF Fresh, Parked
  <2> QED
    BY <2>1, <2>2 DEF IInv, TurnInv, IdleInv, ResumeInv, WaitInv, CacheInv, GoneInv, Handed
<1> QED
  BY <1>1, <1>2, <1>3, CallStep, ResumeStep, AwaitBodyStep, CacheReturnStep,
     CacheYieldStep, EnterStep, YieldStep, SuspendStep, UnparkStep, RefuseStep,
     ReceiveStep, ReturnStep, FinishStep, WakeStep
     DEF Next, InCall, InBody

\* The turns are kept in every behaviour.
THEOREM TurnsTaken == Spec => []IInv
<1>1. Init => TurnInv
  BY DEF Init, TurnInv, IdleInv, ResumeInv, WaitInv, CacheInv, GoneInv, Fresh
<1>2. TypeOK /\ TurnInv /\ [Next]_vars => TurnInv'
  BY TurnStep DEF IInv
<1> QED
  BY <1>1, <1>2, TypeCorrect, PTL DEF Spec, IInv

\* The two threads of a generator never run at once.
THEOREM OneThreadRuns == Spec => []OneRuns
<1>1. IInv => OneRuns
  BY RunsDuringWait DEF OneRuns
<1> QED
  BY <1>1, TurnsTaken, PTL

\* Between two calls every value sent has been received, in order, nothing is
\* left on the storage, and the object holds what the body last produced.
THEOREM CallerAndBodyAgree == Spec => []InStep
<1>1. IInv => InStep
  <2> SUFFICES ASSUME IInv, pc = "idle"
               PROVE  InStep
    BY DEF InStep
  <2>1. IdleInv /\ TypeOK
    BY DEF IInv, TurnInv
  <2>2. Len(sent) \in Nat /\ yields \in Nat
    BY <2>1, LenProperties, GeneratorAssumption DEF TypeOK
  <2> QED
    BY <2>1, <2>2, GeneratorAssumption
       DEF IdleInv, InStep, Fresh, Taken, Over, Cached
<1> QED
  BY <1>1, TurnsTaken, PTL
=============================================================================
