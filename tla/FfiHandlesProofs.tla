-------------------------- MODULE FfiHandlesProofs --------------------------
(***************************************************************************)
(* What holds of the handles whatever the number of calls, stores, sessions *)
(* and scans: every call is answered once, a closed store stays closed and *)
(* quiet, and rekey and commit work alone.                                 *)
(*                                                                         *)
(* None of the four is inductive.  The first needs the state of a callback *)
(* in every state of its call.  The second and RekeyAlone need to know     *)
(* that a handle which rekey or close took out of the map is out of it, is *)
(* not closed, and was taken out by one call only.  CommitAlone needs that *)
(* a resource whose commit goes on is out of its map, and that the map a   *)
(* call waits to write is the one its resource is in.  ClosedQuiet needs   *)
(* that the pool of a store is shut before its close waits for it.         *)
(***************************************************************************)
EXTENDS FfiHandles, TLAPS

\* The callback of a call in every state of the call.
Callback(k) ==
    IF k.op \in Ops THEN ~k.resolved /\ k.answers = 0 ELSE k.resolved /\ k.answers = 1

\* The states a call of each kind goes through.
Placed(k) ==
    /\ k.op \notin Ops => k.pc = "end"
    /\ k.pc \in {"rekey", "replace"} => k.op = "rekey"
    /\ k.pc = "pool" => k.op = "close"
    /\ k.pc = "mutex" => k.op = "use"
    /\ k.pc = "commit" => k.op = "end"
    /\ k.pc = "ping" => k.op = "start"
    /\ k.pc = "write" => k.op \in {"close", "start", "end"}

\* A rekey or a close that has taken its store out of the map.
Out(k) == k.op \in {"rekey", "close"} /\ k.pc # "start"

\* A call on a session or a scan.
OnResource(k) == k.op \in {"use", "end"}

Counted ==
    /\ storeCount <= MaxStores /\ resCount <= MaxRes
    /\ stores \subseteq 1 .. storeCount
    /\ closed \subseteq 1 .. storeCount
    /\ \A c \in Calls :
         /\ call[c].op \in {"work", "start", "rekey", "close"} => call[c].h \in 1 .. storeCount
         /\ OnResource(call[c]) => call[c].h \in 1 .. resCount

TakenOut ==
    /\ closed \cap stores = {}
    /\ \A c \in Calls : Out(call[c]) => call[c].h \notin stores /\ call[c].h \notin closed
    /\ \A c, d \in Calls : Out(call[c]) /\ Out(call[d]) /\ c # d => call[c].h # call[d].h

Mapped ==
    \A c \in Calls : OnResource(call[c]) =>
        /\ res[call[c].h].mapped => res[call[c].h].map = call[c].map
        /\ call[c].pc = "commit" => ~res[call[c].h].mapped

\* RekeyAlone and CommitAlone, call by call.
Apart ==
    \A c, d \in Calls :
        /\ call[c].op = "rekey" /\ call[c].pc = "run" => d \notin Sharing(call[c].h)
        /\ call[c].pc = "commit" /\ c # d => ~Uses(call[d], call[c].h)

\* The inductive invariant.
IInv ==
    /\ TypeOK
    /\ \A c \in Calls : Callback(call[c]) /\ Placed(call[c])
    /\ Counted
    /\ TakenOut
    /\ Mapped
    /\ Apart
----------------------------------------------------------------------------
\* What an action has to show about the state k it leaves its call in.
Shares(k) == k.op \in {"work", "start"} /\ k.pc \in {"run", "ping", "write"}

Advances(c, k) ==
    /\ k \in Call
    /\ call' = [call EXCEPT ![c] = k]
    /\ Callback(k) /\ Placed(k)
    /\ k.op \in {"work", "start", "rekey", "close"} => k.h \in 1 .. storeCount
    /\ OnResource(k) => k.h \in 1 .. resCount
    /\ OnResource(k) /\ res[k.h].mapped => res[k.h].map = k.map

\* Resources stay what they are, or leave their map, and new ones get new handles.
ResKept ==
    /\ res' \in [1 .. MaxRes -> Resource]
    /\ \A r \in 1 .. resCount : res'[r].mapped => res[r].mapped /\ res'[r].map = res[r].map

\* Store handles are taken out of the map and put back by those who may.
Passes(c, k) ==
    \/ /\ stores' = stores /\ closed' = closed /\ storeCount' = storeCount
       /\ Out(k) => Out(call[c]) /\ k.h = call[c].h
    \/ /\ stores' = stores \ {k.h} /\ closed' = closed /\ storeCount' = storeCount
       /\ k.h \in stores
    \/ /\ stores' = stores \cup {storeCount + 1} /\ closed' = closed
       /\ storeCount' = storeCount + 1 /\ storeCount < MaxStores
       /\ ~Out(k)
    \/ /\ Out(call[c]) /\ ~Out(k) /\ storeCount' = storeCount
       /\ \/ stores' = stores \cup {call[c].h} /\ closed' = closed
          \/ closed' = closed \cup {call[c].h} /\ stores' = stores

\* Nobody gets in the way of a rekey or a commit.
GivesWay(c, k) ==
    /\ k.op = "rekey" /\ k.pc = "run" => Sharing(k.h) = {}
    /\ Shares(k) => (Shares(call[c]) /\ call[c].h = k.h) \/ k.h \in stores
    /\ k.pc = "commit" => /\ ~res'[k.h].mapped
                          /\ \A d \in Calls \ {c} : ~Uses(call[d], k.h)
    /\ Uses(k, k.h) => Uses(call[c], k.h) \/ res[k.h].mapped

\* The rest of the state.
Bounded ==
    /\ resCount' \in Nat /\ resCount <= resCount' /\ resCount' <= MaxRes
    /\ pooled' \subseteq 1 .. MaxStores

LEMMA CountedKept ==
    ASSUME IInv, NEW c \in Calls, NEW k, Advances(c, k), ResKept, Passes(c, k), Bounded
    PROVE  TypeOK' /\ Counted' /\ \A d \in Calls : (Callback(call[d]) /\ Placed(call[d]))'
  <1>1. /\ call' \in [Calls -> Call]
        /\ call'[c] = k
        /\ \A d \in Calls \ {c} : call'[d] = call[d]
    BY Zenon DEF IInv, TypeOK, Advances
  <1>2. MaxStores \in Nat /\ storeCount \in Nat
    BY FfiAssumption, Zenon DEF FfiAssumption, IInv, TypeOK
  <1>6. storeCount' \in Nat /\ storeCount <= storeCount' /\ storeCount' <= MaxStores
    BY <1>2 DEF IInv, Counted, Passes
  <1>7. Out(call[c]) => call[c].h \in 1 .. storeCount
    BY Zenon DEF IInv, Counted, Out
  <1>10. 1 .. storeCount \subseteq 1 .. storeCount'
    BY <1>2, <1>6
  <1>11. storeCount' = storeCount + 1 => storeCount + 1 \in 1 .. storeCount'
    BY <1>2
  <1>12. stores \subseteq 1 .. storeCount /\ closed \subseteq 1 .. storeCount
    BY Zenon DEF IInv, Counted
  <1>8. stores' \subseteq 1 .. storeCount'
    <2>1. \A s \in stores' : \/ s \in stores
                             \/ s = storeCount + 1 /\ storeCount' = storeCount + 1
                             \/ s = call[c].h /\ Out(call[c])
      BY DEF Passes
    <2> QED
      BY ZenonT(60), <1>7, <1>10, <1>11, <1>12, <2>1
  <1>9. closed' \subseteq 1 .. storeCount'
    <2>1. \/ closed' = closed
          \/ closed' = closed \cup {call[c].h} /\ Out(call[c])
      BY Zenon DEF Passes
    <2> QED
      BY ZenonT(60), <1>7, <1>10, <1>12, <2>1
  <1>3. TypeOK'
    BY <1>1, <1>2, <1>6, <1>8, <1>9 DEF TypeOK, ResKept, Bounded
  <1>4. \A d \in Calls : Callback(call'[d]) /\ Placed(call'[d])
    BY <1>1, Zenon DEF IInv, Advances
  <1>5. \A d \in Calls :
          /\ call'[d].op \in {"work", "start", "rekey", "close"} => call'[d].h \in 1 .. storeCount'
          /\ OnResource(call'[d]) => call'[d].h \in 1 .. resCount'
    BY <1>1, <1>2, <1>6 DEF IInv, Counted, Advances, Bounded, TypeOK, OnResource
  <1> QED
    BY <1>3, <1>4, <1>5, <1>6, <1>8, <1>9, Zenon DEF Counted, Bounded, Callback, Placed, OnResource

LEMMA TakenOutKept ==
    ASSUME IInv, NEW c \in Calls, NEW k, Advances(c, k), Passes(c, k)
    PROVE  TakenOut'
  <1>1. /\ call'[c] = k
        /\ \A d \in Calls \ {c} : call'[d] = call[d]
    BY Zenon DEF IInv, TypeOK, Advances
  <1>2. storeCount + 1 \notin closed /\ \A d \in Calls : Out(call[d]) => call[d].h # storeCount + 1
    BY DEF IInv, TypeOK, Counted, Out
  <1>3. closed' \cap stores' = {}
    BY <1>2, Zenon DEF IInv, TakenOut, Passes
  <1>4. \A d \in Calls : Out(call'[d]) => call'[d].h \notin stores' /\ call'[d].h \notin closed'
    BY <1>1, <1>2, Zenon DEF IInv, TakenOut, Passes
  <1>5. \A d, e \in Calls : Out(call'[d]) /\ Out(call'[e]) /\ d # e => call'[d].h # call'[e].h
    BY <1>1 DEF IInv, TakenOut, Passes
  <1> QED
    BY <1>3, <1>4, <1>5, Zenon DEF TakenOut, Out

LEMMA MappedKept ==
    ASSUME IInv, NEW c \in Calls, NEW k, Advances(c, k), ResKept, GivesWay(c, k)
    PROVE  Mapped'
  <1>1. /\ call'[c] = k
        /\ \A d \in Calls \ {c} : call'[d] = call[d]
    BY Zenon DEF IInv, TypeOK, Advances
  <1>2. ASSUME NEW d \in Calls, OnResource(call'[d])
        PROVE  /\ res'[call'[d].h].mapped => res'[call'[d].h].map = call'[d].map
               /\ call'[d].pc = "commit" => ~res'[call'[d].h].mapped
    <2>1. CASE d = c
      BY <1>1, <1>2, <2>1, Zenon DEF Advances, ResKept, GivesWay
    <2>2. CASE d # c
      BY <1>1, <1>2, <2>2 DEF IInv, Mapped, Counted, ResKept
    <2> QED
      BY <2>1, <2>2, Zenon
  <1> QED
    BY <1>2, Zenon DEF Mapped, OnResource

LEMMA ApartKept ==
    ASSUME IInv, NEW c \in Calls, NEW k, Advances(c, k), GivesWay(c, k)
    PROVE  Apart'
  <1>1. /\ call'[c] = k
        /\ \A d \in Calls \ {c} : call'[d] = call[d]
    BY Zenon DEF IInv, TypeOK, Advances
  <1>2. ASSUME NEW a \in Calls, NEW b \in Calls, call'[a].op = "rekey", call'[a].pc = "run",
               Shares(call'[b]), call'[b].h = call'[a].h
        PROVE  FALSE
    <2>1. b # a
      BY <1>2, Zenon DEF Shares
    <2>2. CASE a = c
      <3>1. call[b] = call'[b]
        BY <1>1, <2>1, <2>2, Zenon
      <3> QED
        BY <1>1, <1>2, <2>2, <3>1, Zenon DEF GivesWay, Sharing, Shares
    <2>3. CASE a # c
      <3>1. Out(call[a]) /\ call[a] = call'[a]
        BY <1>1, <1>2, <2>3, Zenon DEF Out
      <3>2. call[a].h \notin stores
        BY <3>1, Zenon DEF IInv, TakenOut
      <3>3. Shares(call[b]) /\ call[b].h = call[a].h
        BY <1>1, <1>2, <3>1, <3>2, Zenon DEF GivesWay
      <3> QED
        BY <1>2, <3>1, <3>3, Zenon DEF IInv, Apart, Sharing, Shares
    <2> QED
      BY <2>2, <2>3, Zenon
  <1>3. ASSUME NEW a \in Calls, NEW b \in Calls, call'[a].pc = "commit", a # b,
               Uses(call'[b], call'[a].h)
        PROVE  FALSE
    <2>1. CASE a = c
      BY <1>1, <1>3, <2>1, Zenon DEF GivesWay
    <2>2. CASE a # c
      <3>1. call[a] = call'[a] /\ OnResource(call[a])
        BY <1>1, <1>3, <2>2, Zenon DEF IInv, Placed, OnResource
      <3>2. ~res[call[a].h].mapped
        BY <1>3, <3>1, Zenon DEF IInv, Mapped
      <3>3. Uses(call[b], call[a].h)
        BY <1>1, <1>3, <3>1, <3>2, Zenon DEF GivesWay, Uses
      <3> QED
        BY <1>3, <3>1, <3>3, Zenon DEF IInv, Apart
    <2> QED
      BY <2>1, <2>2, Zenon
  <1> QED
    BY <1>2, <1>3, Zenon DEF Apart, Sharing, Shares, Uses

\* An action that does these four things keeps the invariant.
LEMMA StepKeeps ==
    ASSUME IInv, NEW c \in Calls, NEW k, Advances(c, k), ResKept, Passes(c, k),
           GivesWay(c, k), Bounded
    PROVE  IInv'
  BY CountedKept, TakenOutKept, MappedKept, ApartKept, Zenon DEF IInv
----------------------------------------------------------------------------
(***************************************************************************)
(* The two ways most actions leave their call: answered, or further on.    *)
(***************************************************************************)
Done(c) == [NoCall EXCEPT !.op = "done", !.answers = call[c].answers + 1]

At(c, pc) == [call[c] EXCEPT !.pc = pc]

\* Resources as they are, but for some that leave their map.
Thinned(rs) ==
    /\ rs \in [1 .. MaxRes -> Resource]
    /\ \A r \in 1 .. resCount : rs[r].mapped => res[r].mapped /\ rs[r].map = res[r].map

LEMMA SweptThinned ==
    ASSUME IInv, NEW rs, Thinned(rs), NEW cs, res' = Swept(rs, cs)
    PROVE  ResKept /\ \A r \in 1 .. MaxRes : ~rs[r].mapped => ~res'[r].mapped
  <1>1. NoResource \in Resource /\ ~NoResource.mapped
    BY Zenon DEF NoResource, Resource, Maps
  <1>2. \A r \in 1 .. MaxRes : res'[r] = rs[r] \/ res'[r] = NoResource
    BY Zenon DEF Swept
  <1>3. res' \in [1 .. MaxRes -> Resource]
    BY <1>1, Zenon DEF Swept, Thinned
  <1>4. 1 .. resCount \subseteq 1 .. MaxRes
    BY FfiAssumption DEF FfiAssumption, IInv, TypeOK, Counted
  <1> QED
    BY <1>1, <1>2, <1>3, <1>4, Zenon DEF ResKept, Thinned

LEMMA ResThinned == IInv => Thinned(res)
  BY Zenon DEF IInv, TypeOK, Thinned

LEMMA ResolvesKeeps ==
    ASSUME IInv, NEW c \in Calls, call[c].op \in Ops, NEW rs, Thinned(rs), Resolves(c, rs)
    PROVE  Advances(c, Done(c)) /\ ResKept /\ GivesWay(c, Done(c)) /\ ~Out(Done(c))
  <1>1. call[c].answers = 0
    BY Zenon DEF IInv, Callback
  <1>2. /\ Done(c) \in Call
        /\ Done(c).op = "done" /\ Done(c).pc = "end" /\ Done(c).resolved /\ Done(c).answers = 1
    <2>1. NoCall \in Call /\ NoCall.pc = "end" /\ NoCall.resolved
      BY Zenon DEF NoCall, Call, Maps
    <2>2. Done(c) = [NoCall EXCEPT !.op = "done", !.answers = 1]
      BY <1>1 DEF Done
    <2>3. \A k \in Call : [k EXCEPT !.op = "done", !.answers = 1] \in Call
      BY ZenonT(60) DEF Call, Ops
    <2>4. Done(c) \in Call
      BY ZenonT(60), <2>1, <2>2, <2>3
    <2>5. Done(c).op = "done" /\ Done(c).pc = "end" /\ Done(c).answers = 1
      BY <2>1, <2>2, Zenon DEF Call
    <2>6. Done(c).resolved = NoCall.resolved
      BY ZenonT(60), <2>1, <2>2 DEF Call
    <2> QED
      BY <2>1, <2>4, <2>5, <2>6, Zenon
  <1>3. call' = [call EXCEPT ![c] = Done(c)]
    BY Zenon DEF Resolves, Done
  <1>4. Advances(c, Done(c))
    BY <1>2, <1>3, Zenon DEF Advances, Callback, Placed, OnResource, Ops
  <1>5. ResKept
    BY SweptThinned, Zenon DEF Resolves
  <1> QED
    BY <1>2, <1>4, <1>5, Zenon DEF GivesWay, Shares, Uses, Out

LEMMA GoesKeeps ==
    ASSUME IInv, NEW c \in Calls, call[c].op \in Ops, NEW rs, Thinned(rs),
           NEW pc \in {"ping", "write", "mutex", "run", "rekey", "replace", "pool", "commit"},
           Placed(At(c, pc)), Goes(c, pc, rs)
    PROVE  /\ Advances(c, At(c, pc)) /\ ResKept
           /\ At(c, pc).pc = pc /\ At(c, pc).op = call[c].op /\ At(c, pc).h = call[c].h
           /\ \A r \in 1 .. MaxRes : ~rs[r].mapped => ~res'[r].mapped
  <1>1. call[c] \in Call
    BY Zenon DEF IInv, TypeOK
  <1>2. /\ At(c, pc) \in Call
        /\ At(c, pc).pc = pc /\ At(c, pc).op = call[c].op /\ At(c, pc).h = call[c].h
        /\ At(c, pc).map = call[c].map
        /\ At(c, pc).resolved = call[c].resolved /\ At(c, pc).answers = call[c].answers
    BY <1>1, Zenon DEF At, Call
  <1>3. call' = [call EXCEPT ![c] = At(c, pc)]
    BY Zenon DEF Goes, At
  <1>4. Callback(At(c, pc))
    BY <1>2, Zenon DEF IInv, Callback
  <1>5. Advances(c, At(c, pc))
    BY <1>2, <1>3, <1>4, Zenon DEF Advances, IInv, Counted, Mapped, OnResource
  <1>6. ResKept /\ \A r \in 1 .. MaxRes : ~rs[r].mapped => ~res'[r].mapped
    BY ZenonT(60), SweptThinned DEF Goes
  <1> QED
    BY <1>2, <1>5, <1>6, Zenon

\* Actions that touch the call and the resources only.
LEMMA ResolvesOnly ==
    ASSUME IInv, NEW c \in Calls, call[c].op \in Ops, NEW rs, Thinned(rs), Resolves(c, rs),
           UNCHANGED <<stores, storeCount, resCount, pooled, closed>>
    PROVE  IInv'
  <1>1. Advances(c, Done(c)) /\ ResKept /\ GivesWay(c, Done(c)) /\ ~Out(Done(c))
    BY ResolvesKeeps, Zenon
  <1>2. Passes(c, Done(c)) /\ Bounded
    BY <1>1 DEF Passes, Bounded, IInv, TypeOK, Counted
  <1> QED
    BY <1>1, <1>2, StepKeeps, Zenon

LEMMA GoesOnly ==
    ASSUME IInv, NEW c \in Calls, call[c].op \in Ops, NEW rs, Thinned(rs),
           NEW pc \in {"ping", "write", "mutex", "run", "rekey", "replace", "pool", "commit"},
           Placed(At(c, pc)), Goes(c, pc, rs), GivesWay(c, At(c, pc)),
           Out(At(c, pc)) => Out(call[c]),
           UNCHANGED <<stores, storeCount, resCount, pooled, closed>>
    PROVE  IInv'
  <1>1. Advances(c, At(c, pc)) /\ ResKept /\ At(c, pc).h = call[c].h
    BY GoesKeeps, Zenon
  <1>2. Passes(c, At(c, pc)) /\ Bounded
    BY <1>1 DEF Passes, Bounded, IInv, TypeOK, Counted
  <1> QED
    BY <1>1, <1>2, StepKeeps, Zenon

LEMMA AtFields ==
    ASSUME IInv, NEW c \in Calls, NEW pc
    PROVE  At(c, pc).pc = pc /\ At(c, pc).op = call[c].op /\ At(c, pc).h = call[c].h
  BY Zenon DEF At, IInv, TypeOK, Call
----------------------------------------------------------------------------
(***************************************************************************)
(* The actions.                                                            *)
(***************************************************************************)
LEMMA SubmitKeeps ==
    ASSUME IInv, NEW c \in Calls, NEW q \in Requests, NEW h \in 0 .. MaxStores + MaxRes,
           Submit(c, q, h)
    PROVE  IInv'
  <1> DEFINE k == [op |-> q.op, h |-> h, flag |-> q.flag, map |-> q.map,
                   pc |-> "start", resolved |-> FALSE, answers |-> 0]
  <1>1. q.op \in Ops /\ q.map \in Maps /\ q.flag \in BOOLEAN /\ h \in Nat
    BY FfiAssumption DEF FfiAssumption, Ops, Maps
  <1>2. /\ k \in Call
        /\ k.op = q.op /\ k.h = h /\ k.map = q.map /\ k.pc = "start"
        /\ ~k.resolved /\ k.answers = 0
    BY <1>1, Zenon DEF Call
  <1>3. call' = [call EXCEPT ![c] = k]
    BY Zenon DEF Submit
  <1>4. /\ q.op \in {"work", "start", "rekey", "close"} => h \in 1 .. storeCount
        /\ q.op \in {"use", "end"} => h \in 1 .. resCount /\ q.map = res[h].map
    BY Zenon DEF Submit
  <1> HIDE DEF k
  <1>5. Advances(c, k)
    BY <1>1, <1>2, <1>3, <1>4, Zenon DEF Advances, Callback, Placed, OnResource
  <1>6. ResKept /\ Bounded
    BY DEF Submit, ResKept, Bounded, IInv, TypeOK, Counted
  <1>7. Passes(c, k) /\ GivesWay(c, k)
    BY <1>2, Zenon DEF Submit, Passes, GivesWay, Out, Shares, Uses
  <1> QED
    BY <1>5, <1>6, <1>7, StepKeeps, Zenon

LEMMA OpenKeeps ==
    ASSUME IInv, NEW c \in Calls, Open(c)
    PROVE  IInv'
  <1>1. call[c].op \in Ops
    BY Zenon DEF Open, Ops
  <1>2. Advances(c, Done(c)) /\ ResKept /\ GivesWay(c, Done(c)) /\ ~Out(Done(c))
    BY <1>1, ResThinned, ResolvesKeeps, Zenon DEF Open
  <1>3. Passes(c, Done(c))
    BY <1>2, Zenon DEF Open, Fetched, Passes
  <1>4. storeCount < MaxStores => storeCount + 1 \in 1 .. MaxStores
    BY FfiAssumption DEF FfiAssumption, IInv, TypeOK
  <1>5. Bounded
    <2>1. pooled \subseteq 1 .. MaxStores
      BY Zenon DEF Open, IInv, TypeOK
    <2>2. pooled' = pooled \/ (storeCount < MaxStores /\ pooled' = pooled \cup {storeCount + 1})
      BY Zenon DEF Open, Fetched
    <2>3. pooled' \subseteq 1 .. MaxStores
      BY ZenonT(60), <1>4, <2>1, <2>2
    <2> QED
      BY <2>1, <2>3 DEF Open, Bounded, IInv, TypeOK, Counted
  <1> QED
    BY <1>2, <1>3, <1>5, StepKeeps, Zenon

LEMMA LoadKeeps ==
    ASSUME IInv, NEW c \in Calls, Load(c)
    PROVE  IInv'
  <1>1. call[c].op \in Ops
    BY Zenon DEF Load, Ops
  <1>2. CASE Resolves(c, res)
    BY <1>1, <1>2, ResThinned, ResolvesOnly, Zenon DEF Load
  <1>3. CASE call[c].h \in stores /\ Goes(c, "run", res)
    <2>1. Placed(At(c, "run")) /\ GivesWay(c, At(c, "run")) /\ ~Out(At(c, "run"))
      BY SMTT(60), <1>1, <1>3, AtFields DEF Load, Placed, GivesWay, Shares, Uses, Out
    <2> QED
      BY <1>1, <1>3, <2>1, ResThinned, GoesOnly, Zenon DEF Load
  <1> QED
    BY <1>2, <1>3, Zenon DEF Load

LEMMA WorkKeeps ==
    ASSUME IInv, NEW c \in Calls, Work(c)
    PROVE  IInv'
  BY ResThinned, ResolvesOnly, Zenon DEF Work, Ops

LEMMA TakeStoreKeeps ==
    ASSUME IInv, NEW c \in Calls, TakeStore(c)
    PROVE  IInv'
  <1>1. call[c].op \in Ops /\ call[c].op \in {"rekey", "close"}
    BY Zenon DEF TakeStore, Ops
  <1>2. CASE call[c].h \in stores
    <2> DEFINE pc == IF call[c].op = "close" THEN "write" ELSE "rekey"
    <2>1. Goes(c, pc, res) /\ stores' = stores \ {call[c].h}
      BY ZenonT(60), <1>2 DEF TakeStore, Take
    <2>2. \/ call[c].op = "close" /\ pc = "write"
          \/ call[c].op = "rekey" /\ pc = "rekey"
      BY <1>1, Zenon
    <2> HIDE DEF pc
    <2>3. At(c, pc).pc = pc /\ At(c, pc).op = call[c].op
      BY AtFields, Zenon
    <2>4. Placed(At(c, pc)) /\ GivesWay(c, At(c, pc))
      <3>1. Placed(At(c, pc))
        BY <2>2, <2>3, Zenon DEF Placed, Ops
      <3>2. GivesWay(c, At(c, pc))
        BY <2>2, <2>3, Zenon DEF GivesWay, Shares, Uses
      <3> QED
        BY <3>1, <3>2, Zenon
    <2>5. Advances(c, At(c, pc)) /\ ResKept /\ At(c, pc).h = call[c].h
      BY <1>1, <2>1, <2>2, <2>4, ResThinned, GoesKeeps, ZenonT(60)
    <2>6. Passes(c, At(c, pc))
      BY <1>2, <2>1, <2>5, Zenon DEF TakeStore, Passes
    <2>7. Bounded
      BY DEF TakeStore, Bounded, IInv, TypeOK, Counted
    <2> QED
      BY <2>4, <2>5, <2>6, <2>7, StepKeeps, Zenon
  <1>3. CASE call[c].h \notin stores
    BY <1>1, <1>3, ResThinned, ResolvesOnly, Zenon DEF TakeStore
  <1> QED
    BY <1>2, <1>3, Zenon

LEMMA RekeyBeginKeeps ==
    ASSUME IInv, NEW c \in Calls, RekeyBegin(c)
    PROVE  IInv'
  <1> DEFINE pc == IF Alone(call[c].h) THEN "run" ELSE "replace"
  <1>1. call[c].op = "rekey" /\ call[c].op \in Ops /\ Out(call[c])
    BY Zenon DEF RekeyBegin, IInv, Placed, Out, Ops
  <1>2. /\ Goes(c, pc, res)
        /\ UNCHANGED <<stores, storeCount, resCount, pooled, closed>>
    BY ZenonT(60) DEF RekeyBegin
  <1>3. /\ pc \in {"run", "replace"}
        /\ pc = "run" => Sharing(call[c].h) = {}
    BY Zenon DEF Alone
  <1> HIDE DEF pc
  <1>4. /\ At(c, pc).op = "rekey" /\ At(c, pc).pc = pc
        /\ At(c, pc).h = call[c].h
    BY <1>1, AtFields, Zenon
  <1>5. Placed(At(c, pc))
    BY <1>3, <1>4, Zenon DEF Placed, Ops
  <1>6. GivesWay(c, At(c, pc))
    BY <1>3, <1>4, Zenon DEF GivesWay, Shares, Uses
  <1>7. Thinned(res)
    BY ResThinned, Zenon
  <1> QED
    BY <1>1, <1>2, <1>3, <1>5, <1>6, <1>7, GoesOnly, Zenon

LEMMA RekeyEndKeeps ==
    ASSUME IInv, NEW c \in Calls, RekeyEnd(c)
    PROVE  IInv'
  <1>1. call[c].op = "rekey" /\ Out(call[c])
    BY Zenon DEF RekeyEnd, Out
  <1>2. Placed(At(c, "replace")) /\ GivesWay(c, At(c, "replace"))
    BY <1>1, AtFields, ZenonT(60) DEF Placed, GivesWay, Shares, Uses, Ops
  <1> QED
    BY <1>1, <1>2, ResThinned, GoesOnly, Zenon DEF RekeyEnd, Ops

LEMMA ReplaceKeeps ==
    ASSUME IInv, NEW c \in Calls, Replace(c)
    PROVE  IInv'
  <1>1. call[c].op \in Ops /\ Out(call[c])
    BY Zenon DEF Replace, IInv, Placed, Out, Ops
  <1>2. Advances(c, Done(c)) /\ ResKept /\ GivesWay(c, Done(c)) /\ ~Out(Done(c))
    BY <1>1, ResThinned, ResolvesKeeps, Zenon DEF Replace
  <1>3. Passes(c, Done(c)) /\ Bounded
    BY <1>1, <1>2 DEF Replace, Passes, Bounded, IInv, TypeOK, Counted
  <1> QED
    BY <1>2, <1>3, StepKeeps, Zenon

LEMMA Unmapped ==
    ASSUME NEW x \in Resource
    PROVE  LET y == [x EXCEPT !.mapped = FALSE] IN y \in Resource /\ ~y.mapped
  BY ZenonT(60) DEF Resource

LEMMA RemoveAllKeeps ==
    ASSUME IInv, NEW c \in Calls, RemoveAll(c)
    PROVE  IInv'
  <1> DEFINE m == call[c].map
             rs == [r \in 1 .. MaxRes |->
                      IF r \in Leftover(call[c].h, m) THEN [res[r] EXCEPT !.mapped = FALSE]
                                                      ELSE res[r]]
             k == IF m = "session" THEN [call[c] EXCEPT !.map = "scan"]
                                   ELSE [call[c] EXCEPT !.pc = "pool"]
  <1>1. call[c] \in Call /\ call[c].op = "close" /\ call[c].pc = "write"
    BY Zenon DEF RemoveAll, IInv, TypeOK
  <1>2. /\ k \in Call
        /\ k.op = "close" /\ k.h = call[c].h /\ k.pc \in {"write", "pool"}
        /\ k.resolved = call[c].resolved /\ k.answers = call[c].answers
    BY <1>1, Zenon DEF Call, Maps
  <1>3. Thinned(rs)
    <2>1. \A r \in 1 .. MaxRes : rs[r] = res[r] \/ rs[r] = [res[r] EXCEPT !.mapped = FALSE]
      BY Zenon
    <2>2. \A r \in 1 .. MaxRes : rs[r] \in Resource /\ (rs[r].mapped => rs[r] = res[r])
      <3> SUFFICES ASSUME NEW r \in 1 .. MaxRes
                   PROVE  rs[r] \in Resource /\ (rs[r].mapped => rs[r] = res[r])
        BY Zenon
      <3>1. res[r] \in Resource
        BY Zenon DEF IInv, TypeOK
      <3> HIDE DEF rs
      <3> QED
        BY ZenonT(60), <2>1, <3>1, Unmapped
    <2>3. 1 .. resCount \subseteq 1 .. MaxRes
      BY FfiAssumption DEF FfiAssumption, IInv, TypeOK, Counted
    <2> QED
      BY <2>2, <2>3, Zenon DEF Thinned
  <1>4. call' = [call EXCEPT ![c] = k] /\ res' = Swept(rs, call')
    BY Zenon DEF RemoveAll
  <1> HIDE DEF rs, k
  <1>5. Advances(c, k)
    BY <1>1, <1>2, <1>4, Zenon DEF Advances, IInv, Callback, Placed, Counted, OnResource, Ops
  <1>6. ResKept
    BY <1>3, <1>4, SweptThinned, Zenon
  <1>7. Passes(c, k) /\ GivesWay(c, k)
    BY <1>1, <1>2, Zenon DEF RemoveAll, Passes, GivesWay, Out, Shares, Uses
  <1>8. Bounded
    BY SMTT(60) DEF RemoveAll, Bounded, IInv, TypeOK, Counted
  <1> QED
    BY <1>5, <1>6, <1>7, <1>8, StepKeeps, Zenon

LEMMA ClosePoolKeeps ==
    ASSUME IInv, NEW c \in Calls, ClosePool(c)
    PROVE  IInv'
  <1>1. call[c].op \in Ops /\ Out(call[c])
    BY Zenon DEF ClosePool, IInv, Placed, Out, Ops
  <1>2. Advances(c, Done(c)) /\ ResKept /\ GivesWay(c, Done(c)) /\ ~Out(Done(c))
    BY <1>1, ResThinned, ResolvesKeeps, Zenon DEF ClosePool
  <1>3. Passes(c, Done(c)) /\ Bounded
    BY SMTT(60), <1>1, <1>2 DEF ClosePool, Passes, Bounded, IInv, TypeOK, Counted
  <1> QED
    BY <1>2, <1>3, StepKeeps, Zenon

LEMMA ConnectKeeps ==
    ASSUME IInv, NEW c \in Calls, Connect(c)
    PROVE  IInv'
  <1>1. call[c].op = "start" /\ call[c].op \in Ops /\ call[c].pc = "run"
    BY Zenon DEF Connect, Ops
  <1>2. CASE Resolves(c, res)
    BY <1>1, <1>2, ResThinned, ResolvesOnly, Zenon DEF Connect
  <1>3. CASE Goes(c, "ping", res)
    <2>1. Placed(At(c, "ping")) /\ GivesWay(c, At(c, "ping")) /\ ~Out(At(c, "ping"))
      BY SMTT(60), <1>1, AtFields DEF Placed, GivesWay, Shares, Uses, Out
    <2> QED
      BY <1>1, <1>3, <2>1, ResThinned, GoesOnly, Zenon DEF Connect
  <1> QED
    BY <1>2, <1>3, Zenon DEF Connect

LEMMA StartedKeeps ==
    ASSUME IInv, NEW c \in Calls, Started(c)
    PROVE  IInv'
  <1>1. call[c].op = "start" /\ call[c].op \in Ops /\ call[c].pc = "ping"
    BY Zenon DEF Started, Ops
  <1>2. CASE Resolves(c, res)
    BY <1>1, <1>2, ResThinned, ResolvesOnly, Zenon DEF Started
  <1>3. CASE Goes(c, "write", res)
    <2>1. Placed(At(c, "write")) /\ GivesWay(c, At(c, "write")) /\ ~Out(At(c, "write"))
      BY SMTT(60), <1>1, AtFields DEF Placed, GivesWay, Shares, Uses, Out
    <2> QED
      BY <1>1, <1>3, <2>1, ResThinned, GoesOnly, Zenon DEF Started
  <1> QED
    BY <1>2, <1>3, Zenon DEF Started

LEMMA StartFailsKeeps ==
    ASSUME IInv, NEW c \in Calls, StartFails(c)
    PROVE  IInv'
  BY ResThinned, ResolvesOnly, Zenon DEF StartFails, Ops

LEMMA InsertKeeps ==
    ASSUME IInv, NEW c \in Calls, Insert(c)
    PROVE  IInv'
  <1>1. call[c].op \in Ops
    BY Zenon DEF Insert, Ops
  <1>2. CASE resCount < MaxRes
    <2> DEFINE x == [NoResource EXCEPT !.map = call[c].map, !.store = call[c].h,
                                       !.txn = call[c].flag, !.mapped = TRUE, !.conn = TRUE]
               rs == [res EXCEPT ![resCount + 1] = x]
    <2>1. x \in Resource
      <3>1. call[c].map \in Maps /\ call[c].h \in Nat /\ call[c].flag \in BOOLEAN
        BY Zenon DEF IInv, TypeOK, Call
      <3> QED
        BY ZenonT(60), <3>1 DEF NoResource, Resource, Maps
    <2> HIDE DEF x
    <2>2. resCount \in Nat /\ MaxRes \in Nat
      BY FfiAssumption, Zenon DEF FfiAssumption, IInv, TypeOK
    <2>3. Thinned(rs)
      BY <1>2, <2>1, <2>2 DEF Thinned, IInv, TypeOK
    <2>4. Resolves(c, rs)
      BY <1>2, Zenon DEF Insert, Fetched, x
    <2>5. Advances(c, Done(c)) /\ ResKept /\ GivesWay(c, Done(c)) /\ ~Out(Done(c))
      BY <1>1, <2>3, <2>4, ResolvesKeeps, Zenon
    <2>6. Passes(c, Done(c))
      BY <2>5, Zenon DEF Insert, Passes
    <2>9. Bounded
      BY <1>2, <2>2 DEF Insert, Bounded, IInv, TypeOK, Counted
    <2> QED
      BY <2>5, <2>6, <2>9, StepKeeps, Zenon
  <1>3. CASE ~(resCount < MaxRes)
    BY <1>1, <1>3, ResThinned, ResolvesOnly, Zenon DEF Insert
  <1> QED
    BY <1>2, <1>3, Zenon

LEMMA BorrowKeeps ==
    ASSUME IInv, NEW c \in Calls, Borrow(c)
    PROVE  IInv'
  <1>1. call[c].op = "use" /\ call[c].op \in Ops
    BY Zenon DEF Borrow, Ops
  <1>2. CASE res[call[c].h].mapped
    <2> DEFINE pc == IF InUse(call[c].h) THEN "mutex" ELSE "run"
    <2>1. /\ Goes(c, pc, res)
          /\ UNCHANGED <<stores, storeCount, resCount, pooled, closed>>
      BY ZenonT(60), <1>2 DEF Borrow
    <2>2. pc \in {"mutex", "run"}
      BY Zenon
    <2> HIDE DEF pc
    <2>3. /\ At(c, pc).pc = pc /\ At(c, pc).op = "use"
          /\ At(c, pc).h = call[c].h
      BY <1>1, AtFields, Zenon
    <2>4. Placed(At(c, pc)) /\ ~Out(At(c, pc))
      BY <2>2, <2>3, Zenon DEF Placed, Out, Ops
    <2>5. GivesWay(c, At(c, pc))
      BY <1>2, <2>2, <2>3, Zenon DEF GivesWay, Shares, Uses
    <2>6. Thinned(res)
      BY ResThinned, Zenon
    <2> QED
      BY <1>1, <2>1, <2>2, <2>4, <2>5, <2>6, GoesOnly, Zenon
  <1>3. CASE ~res[call[c].h].mapped
    BY <1>1, <1>3, ResThinned, ResolvesOnly, Zenon DEF Borrow
  <1> QED
    BY <1>2, <1>3, Zenon

LEMMA LockKeeps ==
    ASSUME IInv, NEW c \in Calls, Lock(c)
    PROVE  IInv'
  <1>1. call[c].op = "use" /\ call[c].op \in Ops
    BY Zenon DEF Lock, IInv, Placed, Ops
  <1>2. Placed(At(c, "run")) /\ GivesWay(c, At(c, "run")) /\ ~Out(At(c, "run"))
    BY <1>1, AtFields DEF Lock, Placed, GivesWay, Shares, Uses, Out
  <1> QED
    BY <1>1, <1>2, ResThinned, GoesOnly, Zenon DEF Lock

\* Resources as they are, but for what r says of its transaction and its connection.
LEMMA SameMap ==
    ASSUME IInv, NEW r \in 1 .. MaxRes, NEW b \in BOOLEAN, NEW d \in BOOLEAN
    PROVE  Thinned([res EXCEPT ![r].wrote = b, ![r].conn = d])
  <1>1. \A x \in Resource : /\ [x EXCEPT !.wrote = b, !.conn = d] \in Resource
                            /\ [x EXCEPT !.wrote = b, !.conn = d].mapped = x.mapped
                            /\ [x EXCEPT !.wrote = b, !.conn = d].map = x.map
    BY Zenon DEF Resource
  <1>2. res \in [1 .. MaxRes -> Resource]
    BY Zenon DEF IInv, TypeOK
  <1>3. 1 .. resCount \subseteq 1 .. MaxRes
    BY FfiAssumption DEF FfiAssumption, IInv, TypeOK, Counted
  <1> QED
    BY <1>1, <1>2, <1>3, Zenon DEF Thinned

LEMMA HandleInRange ==
    ASSUME IInv, NEW c \in Calls, OnResource(call[c])
    PROVE  call[c].h \in 1 .. MaxRes
  BY FfiAssumption DEF FfiAssumption, IInv, TypeOK, Counted

\* The resources after an operation of the call, which may have been the last of a scan.
Used(c, last) ==
    LET r == call[c].h IN
    [res EXCEPT ![r].wrote = @ \/ (res[r].txn /\ call[c].flag),
                ![r].conn = @ /\ ~(last /\ res[r].map = "scan")]

LEMMA UsedThinned ==
    ASSUME IInv, NEW c \in Calls, OnResource(call[c]), NEW last \in BOOLEAN
    PROVE  Thinned(Used(c, last))
  <1> DEFINE r == call[c].h
             b == res[r].wrote \/ (res[r].txn /\ call[c].flag)
             d == res[r].conn /\ ~(last /\ res[r].map = "scan")
  <1>1. r \in 1 .. MaxRes
    BY HandleInRange, Zenon
  <1>2. b \in BOOLEAN /\ d \in BOOLEAN
    BY Zenon
  <1>3. Used(c, last) = [res EXCEPT ![r].wrote = b, ![r].conn = d]
    BY Zenon DEF Used
  <1> HIDE DEF b, d, r
  <1> QED
    BY <1>1, <1>2, <1>3, SameMap, Zenon

LEMMA UseKeeps ==
    ASSUME IInv, NEW c \in Calls, Use(c)
    PROVE  IInv'
  <1>1. call[c].op = "use" /\ call[c].op \in Ops /\ OnResource(call[c])
    BY Zenon DEF Use, Ops, OnResource
  <1>2. Resolves(c, res) \/ \E last \in BOOLEAN : Resolves(c, Used(c, last))
    BY Zenon DEF Use, Used
  <1>3. CASE Resolves(c, res)
    BY <1>1, <1>3, ResThinned, ResolvesOnly, Zenon DEF Use
  <1>4. ASSUME NEW last \in BOOLEAN, Resolves(c, Used(c, last))
        PROVE  IInv'
    BY <1>1, <1>4, UsedThinned, ResolvesOnly, Zenon DEF Use
  <1> QED
    BY <1>2, <1>3, <1>4, Zenon

LEMMA EndKeeps ==
    ASSUME IInv, NEW c \in Calls, End(c)
    PROVE  IInv'
  <1>1. Placed(At(c, "write")) /\ GivesWay(c, At(c, "write")) /\ ~Out(At(c, "write"))
    BY SMTT(60), AtFields DEF End, Placed, GivesWay, Shares, Uses, Out, Ops
  <1> QED
    BY <1>1, ResThinned, GoesOnly, Zenon DEF End, Ops

LEMMA RemoveKeeps ==
    ASSUME IInv, NEW c \in Calls, Remove(c)
    PROVE  IInv'
  <1> DEFINE r == call[c].h
             rs == [res EXCEPT ![r].mapped = FALSE]
  <1>1. call[c].op = "end" /\ call[c].op \in Ops /\ OnResource(call[c])
    BY Zenon DEF Remove, Ops, OnResource
  <1>2. r \in 1 .. MaxRes /\ res \in [1 .. MaxRes -> Resource]
    BY <1>1, HandleInRange, Zenon DEF IInv, TypeOK
  <1>3. Thinned(rs) /\ ~rs[r].mapped
    <2>1. 1 .. resCount \subseteq 1 .. MaxRes
      BY FfiAssumption DEF FfiAssumption, IInv, TypeOK, Counted
    <2>2. /\ rs[r] = [res[r] EXCEPT !.mapped = FALSE]
          /\ \A q \in 1 .. MaxRes \ {r} : rs[q] = res[q]
      BY ZenonT(60), <1>2
    <2>3. rs[r] \in Resource /\ ~rs[r].mapped
      BY <1>2, <2>2, Unmapped, Zenon
    <2> QED
      BY <1>2, <2>1, <2>2, <2>3, Zenon DEF Thinned
  <1>4. CASE res[r].mapped /\ ~Busy(r) /\ call[c].flag
    <2>1. Goes(c, "commit", rs)
      BY <1>4, Zenon DEF Remove
    <2>2. Placed(At(c, "commit")) /\ ~Out(At(c, "commit"))
      BY <1>1, AtFields, ZenonT(60) DEF Placed, Out
    <2>3. ~res'[r].mapped
      BY ZenonT(60), <1>1, <1>2, <1>3, <2>1, <2>2, GoesKeeps
    <2>4. ASSUME NEW d \in Calls \ {c}, Uses(call[d], r)
          PROVE  FALSE
      <3>1. CASE call[d].op = "use" /\ call[d].pc = "mutex"
        <4>1. Mapped
          BY Zenon DEF IInv
        <4>2. call[d].h = r
          BY <2>4, Zenon DEF Uses
        <4>3. res[call[d].h].map = call[c].map
          BY <1>1, <1>4, <4>1, <4>2, Zenon DEF Mapped
        <4> QED
          BY <3>1, <4>3, Zenon DEF Remove, Reading
      <3>2. CASE call[d].op = "use" /\ call[d].pc = "run"
        BY <1>4, <2>4, <3>2, Zenon DEF Busy, InUse, Uses
      <3>3. CASE call[d].op = "end" /\ call[d].pc = "commit"
        BY <1>4, <2>4, <3>3, Zenon DEF Uses, IInv, Mapped, OnResource
      <3> QED
        BY <2>4, <3>1, <3>2, <3>3, Zenon DEF Uses
    <2>5. GivesWay(c, At(c, "commit"))
      BY <1>1, <1>4, <2>3, <2>4, AtFields, ZenonT(60) DEF GivesWay, Shares
    <2> QED
      BY <1>1, <1>3, <2>1, <2>2, <2>5, GoesOnly, Zenon DEF Remove
  <1>5. CASE ~(res[r].mapped /\ ~Busy(r) /\ call[c].flag)
    <2>1. Resolves(c, rs)
      BY <1>5, Zenon DEF Remove
    <2> QED
      BY <1>1, <1>3, <2>1, ResolvesOnly, Zenon DEF Remove
  <1> QED
    BY <1>4, <1>5, Zenon

LEMMA CommitKeeps ==
    ASSUME IInv, NEW c \in Calls, Commit(c)
    PROVE  IInv'
  <1>1. call[c].op \in Ops
    BY Zenon DEF Commit, IInv, Placed, Ops
  <1> QED
    BY <1>1, ResThinned, ResolvesOnly, Zenon DEF Commit

LEMMA DropCallKeeps ==
    ASSUME IInv, NEW c \in Calls, DropCall(c)
    PROVE  IInv'
  <1> DEFINE k == [NoCall EXCEPT !.answers = 1]
  <1>1. (IF call[c].resolved THEN call[c].answers ELSE call[c].answers + 1) = 1
    BY DEF IInv, Callback
  <1>2. call' = [call EXCEPT ![c] = k] /\ res' = Swept(res, call')
    BY ZenonT(60), <1>1 DEF DropCall
  <1>3. NoCall \in Call /\ NoCall.op = "none" /\ NoCall.pc = "end" /\ NoCall.resolved
    BY Zenon DEF NoCall, Call, Maps
  <1>4. k \in Call /\ k.op = "none" /\ k.pc = "end" /\ k.resolved = NoCall.resolved /\ k.answers = 1
    BY ZenonT(60), <1>3 DEF Call
  <1> HIDE DEF k
  <1>5. Advances(c, k)
    BY <1>2, <1>3, <1>4, Zenon DEF Advances, Callback, Placed, OnResource, Ops
  <1>6. ResKept
    BY <1>2, ResThinned, SweptThinned, Zenon
  <1>7. Passes(c, k) /\ GivesWay(c, k)
    BY <1>4, Zenon DEF DropCall, Passes, GivesWay, Out, Shares, Uses
  <1>8. Bounded
    BY DEF DropCall, Bounded, IInv, TypeOK, Counted
  <1> QED
    BY <1>5, <1>6, <1>7, <1>8, StepKeeps, Zenon
----------------------------------------------------------------------------
LEMMA InitEstablishes == Init => IInv
  <1> SUFFICES ASSUME Init PROVE IInv
    BY Zenon
  <1>1. /\ NoCall \in Call
        /\ NoCall.op = "none" /\ NoCall.pc = "end" /\ NoCall.resolved /\ NoCall.answers = 1
    BY Zenon DEF NoCall, Call, Maps
  <1>2. NoResource \in Resource
    BY Zenon DEF NoResource, Resource, Maps
  <1>3. \A c \in Calls : call[c] = NoCall
    BY Zenon DEF Init
  <1>4. TypeOK
    BY <1>1, <1>2, Zenon DEF Init, TypeOK
  <1>5. \A c \in Calls : Callback(call[c]) /\ Placed(call[c])
    BY <1>1, <1>3, Zenon DEF Callback, Placed, Ops
  <1>6. Counted /\ TakenOut /\ Mapped /\ Apart
    BY <1>1, <1>3, FfiAssumption DEF FfiAssumption, Init, Counted, TakenOut, Mapped, Apart, Out,
       OnResource
  <1> QED
    BY <1>4, <1>5, <1>6, Zenon DEF IInv

LEMMA NextKeeps == IInv /\ [Next]_vars => IInv'
  <1> SUFFICES ASSUME IInv, [Next]_vars PROVE IInv'
    BY Zenon
  <1>1. CASE UNCHANGED vars
    BY <1>1, ZenonT(60) DEF vars, IInv, TypeOK, Counted, TakenOut, Mapped, Apart, Sharing, Uses,
       Callback, Placed, Out, OnResource
  <1>2. ASSUME NEW c \in Calls, NEW q \in Requests, NEW h \in 0 .. MaxStores + MaxRes,
               Submit(c, q, h)
        PROVE  IInv'
    BY <1>2, SubmitKeeps, Zenon
  <1>3. ASSUME NEW c \in Calls, Step(c)
        PROVE  IInv'
    BY <1>3, OpenKeeps, LoadKeeps, WorkKeeps, TakeStoreKeeps, RekeyBeginKeeps, RekeyEndKeeps,
       ReplaceKeeps, RemoveAllKeeps, ClosePoolKeeps, ConnectKeeps, StartedKeeps, InsertKeeps,
       BorrowKeeps, LockKeeps, UseKeeps, EndKeeps, RemoveKeeps, CommitKeeps, Zenon
       DEF Step
  <1>4. ASSUME NEW c \in Calls, DropCall(c)
        PROVE  IInv'
    BY <1>4, DropCallKeeps, Zenon
  <1>5. ASSUME NEW c \in Calls, StartFails(c)
        PROVE  IInv'
    BY <1>5, StartFailsKeeps, Zenon
  <1> QED
    BY <1>1, <1>2, <1>3, <1>4, <1>5, Zenon DEF Next

LEMMA HandleInvariant == Spec => []IInv
  BY InitEstablishes, NextKeeps, PTL DEF Spec
----------------------------------------------------------------------------
(***************************************************************************)
(* A closed store stays quiet.                                             *)
(***************************************************************************)
\* The pool of a store that is closed, or whose connections are waited for, gives none.
Shut ==
    /\ closed \cap pooled = {}
    /\ \A c \in Calls : call[c].pc = "pool" => call[c].h \notin pooled

QInv == ClosedQuiet /\ Shut

\* A resource has the connection it had, or the one its start call had.
Linked(c, rs) ==
    \A r \in 1 .. MaxRes : rs[r].conn =>
        \/ res[r].conn /\ rs[r].store = res[r].store
        \/ Connected(call[c], rs[r].store)

\* The call gets no connection but from a pool.
Draws(c, k) == \A s : Connected(k, s) => Connected(call[c], s) \/ s \in pooled

LEMMA SweptLinked ==
    ASSUME NEW c, NEW rs, Linked(c, rs), NEW cs, res' = Swept(rs, cs)
    PROVE  Linked(c, res')
  <1>1. ~NoResource.conn
    BY Zenon DEF NoResource
  <1>2. \A r \in 1 .. MaxRes : res'[r] = rs[r] \/ res'[r] = NoResource
    BY Zenon DEF Swept
  <1> QED
    BY <1>1, <1>2, Zenon DEF Linked

LEMMA QuietKept ==
    ASSUME IInv, ClosedQuiet, closed \cap pooled = {},
           NEW c \in Calls, NEW k, call' = [call EXCEPT ![c] = k], Draws(c, k),
           Linked(c, res'),
           \/ closed' = closed
           \/ ClosePool(c)
    PROVE  ClosedQuiet'
  <1>1. /\ call'[c] = k
        /\ \A d \in Calls \ {c} : call'[d] = call[d]
    BY Zenon DEF IInv, TypeOK
  <1> DEFINE Quiet(s) == /\ \A r \in 1 .. MaxRes : res[r].store = s => ~res[r].conn
                         /\ \A d \in Calls : ~Connected(call[d], s)
  <1>2. ASSUME NEW s, Quiet(s), s \notin pooled \/ ~Connected(k, s)
        PROVE  /\ \A r \in 1 .. MaxRes : res'[r].store = s => ~res'[r].conn
               /\ \A d \in Calls : ~Connected(call'[d], s)
    <2>1. ASSUME NEW r \in 1 .. MaxRes, res'[r].store = s, res'[r].conn
          PROVE  FALSE
      BY <1>2, <2>1, Zenon DEF Linked
    <2>2. ASSUME NEW d \in Calls, Connected(call'[d], s)
          PROVE  FALSE
      BY <1>1, <1>2, <2>2, Zenon DEF Draws
    <2> QED
      BY <2>1, <2>2, Zenon
  <1>3. \A s \in closed : Quiet(s) /\ s \notin pooled
    BY Zenon DEF ClosedQuiet
  <1>4. ASSUME ClosePool(c)
        PROVE  closed' = closed \cup {call[c].h} /\ Quiet(call[c].h) /\ ~Connected(k, call[c].h)
    <2>1. k = Done(c)
      BY <1>1, <1>4, Zenon DEF ClosePool, Resolves, Done, IInv, TypeOK
    <2>2. Done(c).op = "done"
      BY Zenon DEF Done, NoCall
    <2> QED
      BY <1>4, <2>1, <2>2, Zenon DEF ClosePool, Connected
  <1> HIDE DEF Quiet
  <1>5. \A s \in closed' : Quiet(s) /\ (s \notin pooled \/ ~Connected(k, s))
    BY <1>3, <1>4, Zenon
  <1> QED
    BY <1>2, <1>5, Zenon DEF ClosedQuiet, Connected

\* Actions that leave the pools and the closed stores alone.
LEMMA QuietOnly ==
    ASSUME IInv, QInv, NEW c \in Calls, NEW k, call' = [call EXCEPT ![c] = k], Draws(c, k),
           k.pc # "pool", Linked(c, res'), UNCHANGED <<pooled, closed>>
    PROVE  QInv'
  <1>1. /\ call'[c] = k
        /\ \A d \in Calls \ {c} : call'[d] = call[d]
    BY Zenon DEF IInv, TypeOK
  <1>2. ClosedQuiet'
    BY QuietKept, Zenon DEF QInv, Shut
  <1>3. closed' = closed /\ pooled' = pooled
    BY Zenon
  <1>4. \A d \in Calls : call'[d].pc = "pool" => call'[d] = call[d]
    BY <1>1, Zenon
  <1>5. Shut'
    BY <1>3, <1>4, Zenon DEF QInv, Shut
  <1> QED
    BY <1>2, <1>5, Zenon DEF QInv

LEMMA DoneFields ==
    ASSUME NEW c
    PROVE  Done(c).op = "done" /\ Done(c).pc = "end" /\ Draws(c, Done(c))
  <1>1. Done(c).op = "done" /\ Done(c).pc = "end"
    BY Zenon DEF Done, NoCall
  <1> QED
    BY <1>1, Zenon DEF Draws, Connected

LEMMA ResolvesQuiet ==
    ASSUME IInv, QInv, NEW c \in Calls, NEW rs, Linked(c, rs), Resolves(c, rs),
           UNCHANGED <<pooled, closed>>
    PROVE  QInv'
  <1>1. call' = [call EXCEPT ![c] = Done(c)] /\ Linked(c, res')
    BY SweptLinked, Zenon DEF Resolves, Done
  <1>2. Done(c).pc # "pool" /\ Draws(c, Done(c))
    BY DoneFields, Zenon
  <1> QED
    BY <1>1, <1>2, QuietOnly, Zenon

LEMMA GoesQuiet ==
    ASSUME IInv, QInv, NEW c \in Calls, NEW rs, Linked(c, rs), NEW pc, pc # "pool",
           Goes(c, pc, rs), UNCHANGED <<pooled, closed>>,
           \/ call[c].op # "start"
           \/ pc \notin {"ping", "write"}
           \/ call[c].pc \in {"ping", "write"}
           \/ call[c].h \in pooled
    PROVE  QInv'
  <1>1. call' = [call EXCEPT ![c] = At(c, pc)] /\ Linked(c, res')
    BY SweptLinked, Zenon DEF Goes, At
  <1>2. At(c, pc).pc = pc /\ At(c, pc).op = call[c].op /\ At(c, pc).h = call[c].h
    BY AtFields, Zenon
  <1>3. Draws(c, At(c, pc))
    BY <1>2, Zenon DEF Draws, Connected
  <1> QED
    BY <1>1, <1>2, <1>3, QuietOnly, Zenon

LEMMA ResLinked == \A c : Linked(c, res)
  BY Zenon DEF Linked

LEMMA ActionsQuiet ==
    ASSUME IInv, QInv, NEW c \in Calls,
           \/ Load(c) \/ Work(c) \/ TakeStore(c) \/ RekeyBegin(c) \/ RekeyEnd(c) \/ Replace(c)
           \/ Connect(c) \/ Started(c) \/ StartFails(c) \/ Borrow(c) \/ Lock(c)
           \/ End(c) \/ Commit(c)
    PROVE  QInv'
  <1>1. UNCHANGED <<pooled, closed>>
    BY Zenon DEF Load, Work, TakeStore, RekeyBegin, RekeyEnd, Replace, Connect, Started,
       StartFails, Borrow, Lock, End, Commit
  <1>2. CASE Resolves(c, res)
    BY <1>1, <1>2, ResLinked, ResolvesQuiet, Zenon
  <1>3. ASSUME NEW pc, Goes(c, pc, res), pc # "pool",
               \/ call[c].op # "start"
               \/ pc \notin {"ping", "write"}
               \/ call[c].pc \in {"ping", "write"}
               \/ call[c].h \in pooled
        PROVE  QInv'
    BY <1>1, <1>3, ResLinked, GoesQuiet, Zenon
  <1>4. CASE Load(c)
    BY <1>2, <1>3, <1>4, Zenon DEF Load
  <1>5. CASE TakeStore(c)
    <2>1. call[c].op # "start"
      BY <1>5, Zenon DEF TakeStore
    <2> DEFINE pc == IF call[c].op = "close" THEN "write" ELSE "rekey"
    <2>2. Resolves(c, res) \/ Goes(c, pc, res)
      BY <1>5, Zenon DEF TakeStore
    <2>3. pc # "pool"
      BY Zenon
    <2> HIDE DEF pc
    <2> QED
      BY <1>2, <1>3, <2>1, <2>2, <2>3, Zenon
  <1>6. CASE RekeyBegin(c)
    <2> DEFINE pc == IF Alone(call[c].h) THEN "run" ELSE "replace"
    <2>1. Goes(c, pc, res) /\ pc # "pool" /\ pc \notin {"ping", "write"}
      BY <1>6, Zenon DEF RekeyBegin
    <2> HIDE DEF pc
    <2> QED
      BY <1>3, <2>1, Zenon
  <1>7. CASE RekeyEnd(c) \/ Lock(c)
    BY <1>3, <1>7, Zenon DEF RekeyEnd, Lock
  <1>8. CASE Connect(c)
    BY <1>2, <1>3, <1>8, Zenon DEF Connect
  <1>9. CASE Started(c)
    BY <1>2, <1>3, <1>9, Zenon DEF Started
  <1>10. CASE Borrow(c)
    <2> DEFINE pc == IF InUse(call[c].h) THEN "mutex" ELSE "run"
    <2>1. Resolves(c, res) \/ Goes(c, pc, res)
      BY <1>10, Zenon DEF Borrow
    <2>2. pc # "pool" /\ pc \notin {"ping", "write"}
      BY Zenon
    <2> HIDE DEF pc
    <2> QED
      BY <1>2, <1>3, <2>1, <2>2, Zenon
  <1>11. CASE End(c)
    BY <1>3, <1>11, Zenon DEF End
  <1>12. CASE Work(c) \/ Replace(c) \/ StartFails(c) \/ Commit(c)
    BY <1>2, <1>12, Zenon DEF Work, Replace, StartFails, Commit
  <1> QED
    BY <1>4, <1>5, <1>6, <1>7, <1>8, <1>9, <1>10, <1>11, <1>12, Zenon

LEMMA SubmitQuiet ==
    ASSUME IInv, QInv, NEW c \in Calls, NEW q, NEW h, Submit(c, q, h)
    PROVE  QInv'
  <1> DEFINE k == [op |-> q.op, h |-> h, flag |-> q.flag, map |-> q.map,
                   pc |-> "start", resolved |-> FALSE, answers |-> 0]
  <1>1. call' = [call EXCEPT ![c] = k] /\ res' = res /\ UNCHANGED <<pooled, closed>>
    BY Zenon DEF Submit
  <1>2. k.pc = "start"
    BY Zenon
  <1> HIDE DEF k
  <1>3. Draws(c, k) /\ k.pc # "pool"
    BY <1>2, Zenon DEF Draws, Connected
  <1>4. Linked(c, res')
    BY <1>1, ResLinked, Zenon DEF Linked
  <1> QED
    BY <1>1, <1>3, <1>4, QuietOnly, Zenon

LEMMA DropQuiet ==
    ASSUME IInv, QInv, NEW c \in Calls, DropCall(c)
    PROVE  QInv'
  <1> DEFINE n == IF call[c].resolved THEN call[c].answers ELSE call[c].answers + 1
             k == [NoCall EXCEPT !.answers = n]
  <1>1. call' = [call EXCEPT ![c] = k] /\ res' = Swept(res, call') /\ UNCHANGED <<pooled, closed>>
    BY Zenon DEF DropCall
  <1>2. k.pc = "end"
    BY Zenon DEF NoCall
  <1> HIDE DEF k
  <1>3. Draws(c, k) /\ k.pc # "pool"
    BY <1>2, Zenon DEF Draws, Connected
  <1>4. Linked(c, res')
    BY <1>1, ResLinked, SweptLinked, Zenon
  <1> QED
    BY <1>1, <1>3, <1>4, QuietOnly, Zenon

LEMMA OpenQuiet ==
    ASSUME IInv, QInv, NEW c \in Calls, Open(c)
    PROVE  QInv'
  <1>1. /\ Resolves(c, res) /\ closed' = closed
        /\ pooled' = pooled \/ pooled' = pooled \cup {storeCount + 1}
    BY Zenon DEF Open, Fetched
  <1>2. call' = [call EXCEPT ![c] = Done(c)] /\ Linked(c, res')
    BY <1>1, ResLinked, SweptLinked, Zenon DEF Resolves, Done
  <1>3. ClosedQuiet'
    BY <1>1, <1>2, DoneFields, QuietKept, Zenon DEF QInv, Shut
  <1>4. storeCount \in Nat
    BY Zenon DEF IInv, TypeOK
  <1>5. storeCount + 1 \notin 1 .. storeCount
    BY <1>4
  <1>6. \A d \in Calls : call[d].pc = "pool" => call[d].h \in 1 .. storeCount
    BY Zenon DEF IInv, Placed, Counted
  <1>7. closed \subseteq 1 .. storeCount
    BY Zenon DEF IInv, Counted
  <1>8. closed' \cap pooled' = {}
    BY <1>1, <1>5, <1>7, Zenon DEF QInv, Shut
  <1>9. \A d \in Calls : call'[d].pc = "pool" => call'[d] = call[d]
    BY <1>2, DoneFields, Zenon DEF IInv, TypeOK
  <1>10. \A d \in Calls : call'[d].pc = "pool" => call'[d].h \notin pooled'
    <2>1. \A d \in Calls : call[d].pc = "pool" => call[d].h \notin pooled
      BY Zenon DEF QInv, Shut
    <2>2. \A d \in Calls : call[d].pc = "pool" => call[d].h # storeCount + 1
      BY <1>5, <1>6, Zenon
    <2> QED
      BY <1>1, <1>9, <2>1, <2>2, Zenon
  <1> QED
    BY <1>3, <1>8, <1>10, Zenon DEF QInv, Shut

\* Leaving the map does not change who has a connection.
LEMMA UnmappedLinked ==
    ASSUME IInv, NEW c, NEW rs,
           \A r \in 1 .. MaxRes : rs[r] = res[r] \/ rs[r] = [res[r] EXCEPT !.mapped = FALSE]
    PROVE  Linked(c, rs)
  <1>1. \A x \in Resource : LET y == [x EXCEPT !.mapped = FALSE] IN
                            y.conn = x.conn /\ y.store = x.store
    BY ZenonT(60) DEF Resource
  <1>2. \A r \in 1 .. MaxRes : res[r] \in Resource
    BY Zenon DEF IInv, TypeOK
  <1> QED
    BY <1>1, <1>2, Zenon DEF Linked

LEMMA RemoveAllQuiet ==
    ASSUME IInv, QInv, NEW c \in Calls, RemoveAll(c)
    PROVE  QInv'
  <1> DEFINE m == call[c].map
             rs == [r \in 1 .. MaxRes |->
                      IF r \in Leftover(call[c].h, m) THEN [res[r] EXCEPT !.mapped = FALSE]
                                                      ELSE res[r]]
             k == IF m = "session" THEN [call[c] EXCEPT !.map = "scan"]
                                   ELSE [call[c] EXCEPT !.pc = "pool"]
  <1>1. /\ call[c] \in Call /\ call[c].op = "close" /\ call[c].pc = "write"
        /\ call[c].map \in {"session", "scan"}
    BY Zenon DEF RemoveAll, IInv, TypeOK, Call, Maps
  <1>2. /\ k.op = "close" /\ k.h = call[c].h
        /\ k.pc = "pool" => m = "scan"
    BY <1>1, Zenon DEF Call
  <1>3. Linked(c, rs)
    <2>1. \A r \in 1 .. MaxRes : rs[r] = res[r] \/ rs[r] = [res[r] EXCEPT !.mapped = FALSE]
      BY Zenon
    <2> HIDE DEF rs
    <2> QED
      BY <2>1, UnmappedLinked, Zenon
  <1>4. /\ call' = [call EXCEPT ![c] = k] /\ res' = Swept(rs, call') /\ closed' = closed
        /\ pooled' = IF m = "scan" THEN pooled \ {call[c].h} ELSE pooled
    BY Zenon DEF RemoveAll
  <1> HIDE DEF rs, k, m
  <1>5. Linked(c, res')
    BY <1>3, <1>4, SweptLinked, Zenon
  <1>6. Draws(c, k)
    BY <1>2, Zenon DEF Draws, Connected
  <1>7. ClosedQuiet'
    BY <1>4, <1>5, <1>6, QuietKept, Zenon DEF QInv, Shut
  <1>8. call'[c] = k /\ \A d \in Calls \ {c} : call'[d] = call[d]
    BY <1>4, Zenon DEF IInv, TypeOK
  <1>9. pooled' \subseteq pooled /\ (k.pc = "pool" => k.h \notin pooled')
    BY <1>2, <1>4, Zenon
  <1>10. closed' \cap pooled' = {}
    BY <1>4, <1>9, Zenon DEF QInv, Shut
  <1>11. \A d \in Calls : call'[d].pc = "pool" => call'[d].h \notin pooled'
    BY <1>8, <1>9, Zenon DEF QInv, Shut
  <1> QED
    BY <1>7, <1>10, <1>11, Zenon DEF QInv, Shut

LEMMA ClosePoolQuiet ==
    ASSUME IInv, QInv, NEW c \in Calls, ClosePool(c)
    PROVE  QInv'
  <1>1. /\ Resolves(c, res) /\ call[c].pc = "pool"
        /\ closed' = closed \cup {call[c].h} /\ pooled' = pooled
    BY Zenon DEF ClosePool
  <1>2. call' = [call EXCEPT ![c] = Done(c)] /\ Linked(c, res')
    BY <1>1, ResLinked, SweptLinked, Zenon DEF Resolves, Done
  <1>3. ClosedQuiet'
    BY <1>2, DoneFields, QuietKept, Zenon DEF QInv, Shut
  <1>4. closed' \cap pooled' = {}
    BY <1>1, Zenon DEF QInv, Shut
  <1>5. \A d \in Calls : call'[d].pc = "pool" => call'[d] = call[d]
    BY <1>2, DoneFields, Zenon DEF IInv, TypeOK
  <1>6. \A d \in Calls : call'[d].pc = "pool" => call'[d].h \notin pooled'
    BY <1>1, <1>5, Zenon DEF QInv, Shut
  <1> QED
    BY <1>3, <1>4, <1>6, Zenon DEF QInv, Shut

LEMMA InsertQuiet ==
    ASSUME IInv, QInv, NEW c \in Calls, Insert(c)
    PROVE  QInv'
  <1>1. UNCHANGED <<pooled, closed>> /\ Connected(call[c], call[c].h)
    BY Zenon DEF Insert, Connected
  <1>2. CASE resCount < MaxRes
    <2> DEFINE x == [NoResource EXCEPT !.map = call[c].map, !.store = call[c].h,
                                       !.txn = call[c].flag, !.mapped = TRUE, !.conn = TRUE]
               rs == [res EXCEPT ![resCount + 1] = x]
    <2>1. Resolves(c, rs)
      BY <1>2, Zenon DEF Insert, Fetched
    <2>2. x.store = call[c].h
      BY Zenon DEF NoResource
    <2> HIDE DEF x
    <2>3. \A r \in 1 .. MaxRes : rs[r] = res[r] \/ rs[r] = x
      BY Zenon DEF IInv, TypeOK
    <2> HIDE DEF rs
    <2>4. Linked(c, rs)
      BY <1>1, <2>2, <2>3, Zenon DEF Linked
    <2> QED
      BY <1>1, <2>1, <2>4, ResolvesQuiet, Zenon
  <1>3. CASE ~(resCount < MaxRes)
    BY <1>1, <1>3, ResLinked, ResolvesQuiet, Zenon DEF Insert
  <1> QED
    BY <1>2, <1>3, Zenon

LEMMA UseQuiet ==
    ASSUME IInv, QInv, NEW c \in Calls, Use(c)
    PROVE  QInv'
  <1>1. /\ Resolves(c, res) \/ \E last \in BOOLEAN : Resolves(c, Used(c, last))
        /\ UNCHANGED <<pooled, closed>>
    BY Zenon DEF Use, Used
  <1>2. ASSUME NEW last \in BOOLEAN
        PROVE  Linked(c, Used(c, last))
    <2> DEFINE r == call[c].h
               b == res[r].wrote \/ (res[r].txn /\ call[c].flag)
               d == res[r].conn /\ ~(last /\ res[r].map = "scan")
               y == [res[r] EXCEPT !.wrote = b, !.conn = d]
               rs == Used(c, last)
    <2>1. rs = [res EXCEPT ![r].wrote = b, ![r].conn = d]
      BY Zenon DEF Used
    <2>2. (d => res[r].conn) /\ d \in BOOLEAN
      BY Zenon
    <2> HIDE DEF b, d, rs, r
    <2>3. \A q \in 1 .. MaxRes : rs[q] = res[q] \/ (q = r /\ rs[q] = y)
      BY <2>1, Zenon DEF IInv, TypeOK
    <2>4. r \in 1 .. MaxRes => y.conn = d /\ y.store = res[r].store
      <3>1. r \in 1 .. MaxRes => res[r] \in Resource
        BY Zenon DEF IInv, TypeOK
      <3> QED
        BY <3>1, Zenon DEF Resource
    <2>5. r \in 1 .. MaxRes => (y.conn => res[r].conn)
      BY <2>2, <2>4, Zenon
    <2> HIDE DEF y
    <2>6. \A q \in 1 .. MaxRes : rs[q].conn => res[q].conn /\ rs[q].store = res[q].store
      BY <2>3, <2>4, <2>5, Zenon
    <2> QED
      BY <2>6, Zenon DEF Linked, rs
  <1> QED
    BY <1>1, <1>2, ResLinked, ResolvesQuiet, Zenon

LEMMA RemoveQuiet ==
    ASSUME IInv, QInv, NEW c \in Calls, Remove(c)
    PROVE  QInv'
  <1> DEFINE rs == [res EXCEPT ![call[c].h].mapped = FALSE]
  <1>1. /\ Resolves(c, rs) \/ Goes(c, "commit", rs)
        /\ UNCHANGED <<pooled, closed>>
    BY Zenon DEF Remove
  <1>2. Linked(c, rs)
    <2>1. \A r \in 1 .. MaxRes : rs[r] = res[r] \/ rs[r] = [res[r] EXCEPT !.mapped = FALSE]
      BY Zenon DEF IInv, TypeOK
    <2> HIDE DEF rs
    <2> QED
      BY <2>1, UnmappedLinked, Zenon
  <1> HIDE DEF rs
  <1> QED
    BY <1>1, <1>2, ResolvesQuiet, GoesQuiet, Zenon

LEMMA QuietInvariant == Spec => []QInv
  <1>1. Init => QInv
    <2> SUFFICES ASSUME Init PROVE QInv
      BY Zenon
    <2>1. NoCall.pc = "end"
      BY Zenon DEF NoCall
    <2> QED
      BY <2>1, Zenon DEF Init, QInv, ClosedQuiet, Shut
  <1>2. IInv /\ QInv /\ [Next]_vars => QInv'
    <2> SUFFICES ASSUME IInv, QInv, [Next]_vars PROVE QInv'
      BY Zenon
    <2>1. CASE UNCHANGED vars
      BY <2>1, Zenon DEF vars, QInv, ClosedQuiet, Shut, Connected
    <2>2. ASSUME NEW c \in Calls, NEW q \in Requests, NEW h \in 0 .. MaxStores + MaxRes,
                 Submit(c, q, h)
          PROVE  QInv'
      BY <2>2, SubmitQuiet, Zenon
    <2>3. ASSUME NEW c \in Calls, Step(c)
          PROVE  QInv'
      BY <2>3, OpenQuiet, RemoveAllQuiet, ClosePoolQuiet, InsertQuiet, UseQuiet, RemoveQuiet,
         ActionsQuiet, Zenon DEF Step
    <2>4. ASSUME NEW c \in Calls, DropCall(c) \/ StartFails(c)
          PROVE  QInv'
      BY <2>4, DropQuiet, ActionsQuiet, Zenon
    <2> QED
      BY <2>1, <2>2, <2>3, <2>4, Zenon DEF Next
  <1> QED
    BY <1>1, <1>2, HandleInvariant, PTL DEF Spec
----------------------------------------------------------------------------
\* Every call is answered exactly once by the time its future is gone, however many calls
\* are in flight and wherever they are dropped (EnsureCallback::resolve and its Drop).
THEOREM EveryCallAnswered == Spec => []AnsweredOnce
  <1>1. IInv => AnsweredOnce
    BY Zenon DEF IInv, Callback, AnsweredOnce, Ops
  <1> QED
    BY <1>1, HandleInvariant, PTL

\* A store handle that askar_store_close has closed is never in FFI_STORES again, though
\* askar_store_rekey puts back what it took out.
THEOREM ClosedStaysClosed == Spec => []HandlesInOrder
  <1>1. IInv => HandlesInOrder
    BY Zenon DEF IInv, TakenOut, HandlesInOrder, ClosedForGood
  <1> QED
    BY <1>1, HandleInvariant, PTL

\* No call works on a store while it is rekeyed (Arc::get_mut), nor on a session while it
\* is committed (Arc::try_unwrap).
THEOREM RekeyAndCommitAlone == Spec => []WorksAlone
  <1>1. IInv => WorksAlone
    BY Zenon DEF IInv, Apart, WorksAlone, RekeyAlone, CommitAlone, Sharing
  <1> QED
    BY <1>1, HandleInvariant, PTL

\* Once askar_store_close has reported a success nothing of the store has a connection or
\* gets one, whatever calls were on their way (Store::close, remove_all).
THEOREM ClosedStaysQuiet == Spec => []ClosedQuiet
  <1>1. QInv => ClosedQuiet
    BY Zenon DEF QInv
  <1> QED
    BY <1>1, QuietInvariant, PTL
============================================================================
