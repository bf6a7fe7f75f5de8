------------------------ MODULE SequenceStoreProofs -------------------------
(***************************************************************************)
(* Proofs about SequenceStore, for any number of callers, attempts and     *)
(* writes of other Nest keys.                                              *)
(***************************************************************************)
EXTENDS SequenceStore, TLAPS

\* The initial states satisfy the inductive invariant.
LEMMA InitIInv == Init => IInv
<1> SUFFICES ASSUME Init PROVE IInv
    BY Zenon
<1> USE SequenceAssumption DEF Init
<1>1. TypeOK
    BY DEF TypeOK, Key
<1>2. Faithful
    BY DEF Faithful
<1>3. OneOwner
    BY DEF OneOwner, NeverReturnedTwice
<1> QED BY <1>1, <1>2, <1>3, Zenon DEF IInv

\* Call preserves the inductive invariant.
LEMMA CallIInv == ASSUME IInv, NEW c \in Callers, Call(c) PROVE IInv'
<1> USE DEF IInv, Call, etcdVars, netVars
<1>1. TypeOK'
    BY Zenon DEF TypeOK, Key
<1>2. Faithful'
    BY DEF Faithful, Knows, Matches, TypeOK, Key
<1>3. OneOwner'
    BY DEF OneOwner, NeverReturnedTwice
<1> QED BY <1>1, <1>2, <1>3, Zenon

\* Read preserves the inductive invariant.
LEMMA ReadIInv == ASSUME IInv, NEW c \in Callers, Read(c) PROVE IInv'
<1> USE DEF IInv, Read, etcdVars, netVars
<1>1. TypeOK'
    BY Zenon DEF TypeOK, Key
<1>2. Faithful'
    BY DEF Faithful, Knows, Matches, TypeOK, Key
<1>3. OneOwner'
    BY ZenonT(30) DEF OneOwner, NeverReturnedTwice, Faithful, TypeOK
<1> QED BY <1>1, <1>2, <1>3, Zenon

\* GiveUp preserves the inductive invariant.
LEMMA GiveUpIInv == ASSUME IInv, NEW c \in Callers, GiveUp(c) PROVE IInv'
<1> USE DEF IInv, GiveUp, etcdVars, netVars
<1>1. TypeOK'
    BY Zenon DEF TypeOK, Key
<1>2. Faithful'
    BY SMTT(30) DEF Faithful, Knows, Matches, TypeOK, Key
<1>3. OneOwner'
    BY DEF OneOwner, NeverReturnedTwice
<1> QED BY <1>1, <1>2, <1>3, Zenon

\* Swap preserves the inductive invariant.
LEMMA SwapIInv == ASSUME IInv, NEW c \in Callers, Swap(c) PROVE IInv'
<1> USE DEF IInv
<1> DEFINE q == [found |-> seen[c].found, revision |-> seen[c].revision,
                 next |-> seen[c].current + 1]
<1>0. /\ pc[c] = "check" /\ seen[c].current # MaxID
      /\ request' = [request EXCEPT ![c] = q]
      /\ answer' = [answer EXCEPT ![c] = "none"]
      /\ pc' = [pc EXCEPT ![c] = "wait"]
      /\ UNCHANGED <<kv, revision, seen, attempts, orphans, returned, start>>
    BY Zenon DEF Swap, etcdVars
<1>1. q \in Request
    BY DEF TypeOK, Request
<1> HIDE DEF q
<1>2. TypeOK'
    BY <1>0, <1>1, Zenon DEF TypeOK
<1>3. kv \in Key /\ revision \in Nat /\ kv.value \in Nat /\ MaxID \in Nat
    BY SequenceAssumption, Zenon DEF TypeOK, Key
<1>4. seen[c].current < MaxID
  <2>1. seen[c].current \in Nat /\ Knows(seen[c], seen[c].current) /\ kv.value <= MaxID
    BY <1>0, Zenon DEF TypeOK, Faithful
  <2> QED BY <1>0, <1>3, <2>1 DEF Knows
<1>5. Faithful'
  <2>1. \A r, v : Knows(r, v)' <=> Knows(r, v)
    BY <1>0, Zenon DEF Knows, Matches
  <2>2. \A e \in Callers :
          e # c => pc'[e] = pc[e] /\ request'[e] = request[e] /\ answer'[e] = answer[e]
    BY <1>0, Zenon DEF TypeOK
  <2>3. pc'[c] = "wait" /\ request'[c] = q /\ answer'[c] = "none"
    BY <1>0, Zenon DEF TypeOK
  <2> QED BY <1>0, <1>4, <2>1, <2>2, <2>3 DEF Faithful, Knows, Matches, q
<1>6. OneOwner'
    BY <1>0 DEF OneOwner, NeverReturnedTwice, TypeOK
<1> QED BY <1>2, <1>5, <1>6, Zenon

\* etcd executes a transaction: the key moves up by one or not at all, and whoever
\* knew it keeps knowing it or sees that it has moved.
LEMMA ApplyKnows ==
    ASSUME IInv, NEW q \in Request, Knows(q, q.next - 1), Apply(q)
    PROVE  /\ kv' \in Key /\ revision' \in Nat /\ kv'.mod <= revision'
           /\ ~kv'.found => kv'.value = 0
           /\ Matches(q) => kv'.value = kv.value + 1 /\ kv'.value = q.next
           /\ ~Matches(q) => kv' = kv
           /\ \A r, v : r.revision \in Nat /\ v \in Int /\ Knows(r, v) => Knows(r, v)'
<1> USE DEF IInv
<1>1. kv \in Key /\ revision \in Nat /\ kv.mod <= revision /\ (~kv.found => kv.value = 0)
    BY Zenon DEF TypeOK, Faithful
<1>2. q.next \in Nat /\ q.revision \in Nat /\ kv.value \in Nat /\ kv.mod \in Nat
    BY <1>1, Zenon DEF Request, Key
<1>3. CASE Matches(q)
  <2>1. /\ revision' = revision + 1
        /\ kv' = [found |-> TRUE, value |-> q.next, mod |-> revision + 1]
        /\ kv.value = q.next - 1
    BY <1>3, Zenon DEF Apply, Knows
  <2>2. kv' \in Key /\ revision' \in Nat /\ kv'.mod <= revision' /\ kv'.found
    BY <1>1, <1>2, <2>1 DEF Key
  <2>3. kv'.value = kv.value + 1 /\ kv'.value = q.next
    BY <1>2, <2>1
  <2>4. ASSUME NEW r, NEW v, r.revision \in Nat, v \in Int, Knows(r, v) PROVE Knows(r, v)'
    <3>1. ~Matches(r)'
      BY <1>1, <1>2, <2>1, <2>4 DEF Matches, Knows
    <3>2. kv.value >= v
      BY <1>2, <2>4 DEF Knows
    <3> QED BY <1>1, <1>2, <2>1, <2>3, <2>4, <3>1, <3>2 DEF Knows
  <2> QED BY <1>3, <2>2, <2>3, <2>4, Zenon
<1>4. CASE ~Matches(q)
  <2>1. kv' = kv /\ revision' = revision
    BY <1>4, Zenon DEF Apply, etcdVars
  <2> QED BY <1>1, <1>4, <2>1, Zenon DEF Knows, Matches
<1> QED BY <1>3, <1>4, Zenon

\* EtcdTxn preserves the inductive invariant.
LEMMA EtcdTxnIInv == ASSUME IInv, NEW c \in Callers, EtcdTxn(c) PROVE IInv'
<1> USE DEF IInv
<1> DEFINE q == request[c]
<1>0. /\ q # NoRequest /\ Apply(q)
      /\ answer' = [answer EXCEPT ![c] = IF Matches(q) THEN "succeeded" ELSE "conflict"]
      /\ request' = [request EXCEPT ![c] = NoRequest]
      /\ UNCHANGED <<pc, seen, attempts, orphans, returned, start>>
    BY Zenon DEF EtcdTxn, callVars
<1>1. /\ q \in Request /\ pc[c] = "wait" /\ seen[c].current < MaxID
      /\ q = [found |-> seen[c].found, revision |-> seen[c].revision,
              next |-> seen[c].current + 1]
      /\ Knows(seen[c], seen[c].current) /\ seen[c].current \in Nat
    BY <1>0, Zenon DEF TypeOK, Faithful
<1>2. Knows(q, q.next - 1) /\ q.next = seen[c].current + 1
  <2>1. /\ q.found = seen[c].found /\ q.revision = seen[c].revision
        /\ q.next = seen[c].current + 1 /\ q.next - 1 = seen[c].current
    BY <1>1
  <2> QED BY <1>1, <2>1, Zenon DEF Knows, Matches
<1> HIDE DEF q
<1>3. /\ kv' \in Key /\ revision' \in Nat /\ kv'.mod <= revision'
      /\ ~kv'.found => kv'.value = 0
      /\ Matches(q) => kv'.value = kv.value + 1 /\ kv'.value = q.next
      /\ ~Matches(q) => kv' = kv
      /\ \A r, v : r.revision \in Nat /\ v \in Int /\ Knows(r, v) => Knows(r, v)'
    BY <1>0, <1>1, <1>2, ApplyKnows, Zenon
<1>4. kv.value \in Nat /\ kv'.value \in Nat /\ kv'.value >= kv.value /\ MaxID \in Nat
    BY <1>3, SequenceAssumption DEF TypeOK, Key
<1>5. kv'.value <= MaxID /\ kv'.value > seen[c].current
  <2>1. ~Matches(q) => kv.value > seen[c].current
    BY <1>1, <1>2 DEF Knows
  <2> QED BY <1>1, <1>2, <1>3, <1>4, <2>1 DEF Faithful
<1>6. TypeOK'
    BY <1>0, <1>3, Zenon DEF TypeOK
<1>7. Faithful'
  <2>1. \A e \in Callers :
          /\ pc[e] \in {"check", "wait"} => Knows(seen[e], seen[e].current)'
          /\ start[e] \in Nat /\ attempts[e] \in Nat /\ seen[e].current \in Nat
    BY <1>0, <1>3 DEF Faithful, TypeOK
  <2>2. \A r \in orphans : Knows(r, r.next - 1)' /\ r.next \in 1..MaxID
    <3> TAKE r \in orphans
    <3>1. r \in Request /\ Knows(r, r.next - 1) /\ r.next \in 1..MaxID
      BY Zenon DEF Faithful, TypeOK
    <3>2. r.revision \in Nat /\ r.next - 1 \in Int
      BY <3>1 DEF Request
    <3> QED BY <1>3, <3>1, <3>2, Zenon
  <2>3. \A e \in Callers : e # c => request'[e] = request[e] /\ answer'[e] = answer[e]
    BY <1>0, Zenon DEF TypeOK
  <2>4. request'[c] = NoRequest
    BY <1>0, Zenon DEF TypeOK
  <2> QED BY <1>0, <1>1, <1>3, <1>4, <1>5, <2>1, <2>2, <2>3, <2>4 DEF Faithful
<1>8. OneOwner'
  <2>1. \A i \in DOMAIN returned : returned[i] \in Nat /\ returned[i] <= kv'.value
    BY <1>4 DEF OneOwner, TypeOK
  <2>2. CASE ~Matches(q)
    BY <1>0, <2>1, <2>2 DEF OneOwner, NeverReturnedTwice, TypeOK
  <2>3. CASE Matches(q)
    <3>1. seen[c].current = kv.value
      BY <1>1, <1>2, <1>3, <1>4, <2>3
    <3>2. \A e \in Callers : answer[e] = "succeeded" => seen[e].current < kv.value
      BY <1>0, Zenon DEF Faithful
    <3>3. \A i \in DOMAIN returned : returned[i] # seen[c].current + 1
      BY <1>1, <1>4, <2>1, <3>1 DEF OneOwner
    <3>4. \A e \in Callers : e # c /\ answer'[e] = "succeeded" =>
            answer[e] = "succeeded" /\ seen[e].current # seen[c].current
      BY <1>0, <1>4, <3>1, <3>2 DEF TypeOK
    <3> QED BY <1>0, <2>1, <3>3, <3>4, SMTT(30) DEF OneOwner, NeverReturnedTwice, TypeOK
  <2> QED BY <2>2, <2>3, Zenon
<1> QED BY <1>6, <1>7, <1>8

\* EtcdOrphanTxn preserves the inductive invariant.
LEMMA EtcdOrphanTxnIInv == ASSUME IInv, NEW q \in orphans, EtcdOrphanTxn(q) PROVE IInv'
<1> USE DEF IInv
<1>0. /\ Apply(q) /\ orphans' = orphans \ {q}
      /\ UNCHANGED <<pc, seen, attempts, request, answer, returned, start>>
    BY Zenon DEF EtcdOrphanTxn, callVars
<1>1. q \in Request /\ Knows(q, q.next - 1) /\ q.next \in 1..MaxID
    BY Zenon DEF TypeOK, Faithful
<1>2. /\ kv' \in Key /\ revision' \in Nat /\ kv'.mod <= revision'
      /\ ~kv'.found => kv'.value = 0
      /\ Matches(q) => kv'.value = kv.value + 1 /\ kv'.value = q.next
      /\ ~Matches(q) => kv' = kv
      /\ \A r, v : r.revision \in Nat /\ v \in Int /\ Knows(r, v) => Knows(r, v)'
    BY <1>0, <1>1, ApplyKnows, Zenon
<1>3. kv.value \in Nat /\ kv'.value \in Nat /\ kv'.value >= kv.value /\ MaxID \in Nat
    BY <1>2, SequenceAssumption DEF TypeOK, Key
<1>4. kv'.value <= MaxID
    BY <1>1, <1>2, <1>3 DEF Faithful
<1>5. TypeOK'
    BY <1>0, <1>2, SMTT(30) DEF TypeOK
<1>6. Faithful'
  <2>1. \A e \in Callers :
          /\ pc[e] \in {"check", "wait"} => Knows(seen[e], seen[e].current)'
          /\ start[e] \in Nat /\ attempts[e] \in Nat /\ seen[e].current \in Nat
    BY <1>0, <1>2 DEF Faithful, TypeOK
  <2>2. \A r \in orphans : Knows(r, r.next - 1)' /\ r.next \in 1..MaxID
    <3> TAKE r \in orphans
    <3>1. r \in Request /\ Knows(r, r.next - 1) /\ r.next \in 1..MaxID
      BY Zenon DEF Faithful, TypeOK
    <3>2. r.revision \in Nat /\ r.next - 1 \in Int
      BY <3>1 DEF Request
    <3> QED BY <1>2, <3>1, <3>2, Zenon
  <2> QED BY <1>0, <1>2, <1>3, <1>4, <2>1, <2>2 DEF Faithful
<1>7. OneOwner'
  <2>1. \A i \in DOMAIN returned : returned[i] \in Nat /\ returned[i] <= kv'.value
    BY <1>3 DEF OneOwner, TypeOK
  <2> QED BY <1>0, <2>1 DEF OneOwner, NeverReturnedTwice
<1> QED BY <1>5, <1>6, <1>7, Zenon

\* OtherKeyWrite preserves the inductive invariant.
LEMMA OtherKeyWriteIInv == ASSUME IInv, OtherKeyWrite PROVE IInv'
<1> USE DEF IInv
<1>0. /\ revision' = revision + 1
      /\ UNCHANGED <<kv, pc, seen, attempts, request, answer, orphans, returned, start>>
    BY Zenon DEF OtherKeyWrite, callVars, netVars
<1>1. TypeOK'
    BY <1>0 DEF TypeOK
<1>2. kv \in Key /\ revision \in Nat
    BY Zenon DEF TypeOK
<1>3. \A r, v : r.revision \in Nat /\ Knows(r, v) => Knows(r, v)'
    BY <1>0, <1>2 DEF Knows, Matches
<1>4. Faithful'
  <2>1. \A e \in Callers : pc[e] \in {"check", "wait"} => Knows(seen[e], seen[e].current)'
    BY <1>0, <1>3, Zenon DEF Faithful, TypeOK
  <2>2. \A r \in orphans : Knows(r, r.next - 1)'
    BY <1>0, <1>3, Zenon DEF Faithful, TypeOK, Request
  <2> QED BY <1>0, <1>2, <2>1, <2>2 DEF Faithful, Key
<1>5. OneOwner'
    BY <1>0, Zenon DEF OneOwner, NeverReturnedTwice
<1> QED BY <1>1, <1>4, <1>5, Zenon

\* Receive preserves the inductive invariant.
LEMMA ReceiveIInv == ASSUME IInv, NEW c \in Callers, Receive(c) PROVE IInv'
<1> USE DEF IInv
<1>0. /\ pc[c] = "wait" /\ answer[c] # "none"
      /\ answer' = [answer EXCEPT ![c] = "none"]
      /\ UNCHANGED <<kv, revision, seen, request, orphans, start>>
    BY Zenon DEF Receive, etcdVars
<1>1. request[c] = NoRequest /\ kv.value > seen[c].current /\ seen[c].current >= start[c] + attempts[c]
    BY <1>0, Zenon DEF Faithful
<1>2. /\ kv.value \in Nat /\ start[c] \in Nat /\ attempts[c] \in Nat /\ seen[c].current \in Nat
    BY Zenon DEF TypeOK, Key
<1>3. \A r, v : Knows(r, v) => Knows(r, v)'
    BY <1>0, Zenon DEF Knows, Matches
<1>4. CASE answer[c] = "succeeded"
  <2>1. /\ returned' = Append(returned, seen[c].current + 1)
        /\ pc' = [pc EXCEPT ![c] = "idle"] /\ UNCHANGED attempts
    BY <1>4, Zenon DEF Receive
  <2>2. TypeOK'
    BY <1>0, <1>2, <2>1 DEF TypeOK
  <2>3. Faithful'
    BY <1>0, <1>1, <1>3, <2>1 DEF Faithful, TypeOK
  <2>4. OneOwner'
    <3>1. /\ DOMAIN returned = 1..Len(returned) /\ Len(returned) \in Nat
          /\ DOMAIN returned' = 1..(Len(returned) + 1)
          /\ \A i \in DOMAIN returned : returned'[i] = returned[i]
          /\ returned'[Len(returned) + 1] = seen[c].current + 1
      BY <1>2, <2>1 DEF TypeOK
    <3>2. \A i \in DOMAIN returned : returned[i] # seen[c].current + 1 /\ returned[i] <= kv.value
      BY <1>4, Zenon DEF OneOwner
    <3>3. NeverReturnedTwice'
      BY <3>1, <3>2 DEF OneOwner, NeverReturnedTwice
    <3>4. \A i \in DOMAIN returned' : returned'[i] <= kv.value
      BY <1>1, <1>2, <3>1, <3>2
    <3>5. ASSUME NEW e \in Callers, answer'[e] = "succeeded"
          PROVE  /\ \A i \in DOMAIN returned' : returned'[i] # seen[e].current + 1
                 /\ \A a \in Callers : a # e /\ answer'[a] = "succeeded" =>
                                         seen[a].current # seen[e].current
      <4>1. e # c /\ answer[e] = "succeeded" /\ seen[e].current # seen[c].current
        BY <1>0, <1>4, <3>5, Zenon DEF OneOwner, TypeOK
      <4>2. /\ \A i \in DOMAIN returned : returned[i] # seen[e].current + 1
            /\ \A a \in Callers : a # e /\ answer[a] = "succeeded" =>
                                    seen[a].current # seen[e].current
        BY <4>1, Zenon DEF OneOwner
      <4>3. seen[e].current \in Nat
        BY Zenon DEF TypeOK
      <4>4. \A i \in DOMAIN returned' : returned'[i] # seen[e].current + 1
        BY <1>2, <3>1, <4>1, <4>2, <4>3, SMTT(30)
      <4> QED BY <1>0, <4>2, <4>4, Zenon DEF TypeOK
    <3> QED BY <1>0, <3>3, <3>4, <3>5, Zenon DEF OneOwner
  <2> QED BY <2>2, <2>3, <2>4
<1>5. CASE answer[c] # "succeeded"
  <2>1. /\ attempts' = [attempts EXCEPT ![c] = @ + 1]
        /\ pc' = [pc EXCEPT ![c] = IF attempts'[c] < MaxAttempts THEN "read" ELSE "idle"]
        /\ UNCHANGED returned
    BY <1>5, Zenon DEF Receive
  <2>2. TypeOK'
    BY <1>0, <1>2, <2>1 DEF TypeOK
  <2>3. Faithful'
    <3>1. kv.value >= start[c] + attempts'[c] /\ pc'[c] \in {"read", "idle"}
      BY <1>1, <1>2, <2>1 DEF TypeOK
    <3>2. \A e \in Callers : e # c => /\ pc'[e] = pc[e] /\ attempts'[e] = attempts[e]
                                      /\ answer'[e] = answer[e]
      BY <1>0, <2>1, Zenon DEF TypeOK
    <3>3. answer'[c] = "none"
      BY <1>0, Zenon DEF TypeOK
    <3> QED BY <1>0, <1>1, <1>3, <3>1, <3>2, <3>3 DEF Faithful
  <2>4. OneOwner'
    BY <1>0, <2>1 DEF OneOwner, NeverReturnedTwice, TypeOK
  <2> QED BY <2>2, <2>3, <2>4
<1> QED BY <1>4, <1>5, Zenon

\* Abandon preserves the inductive invariant.
LEMMA AbandonIInv == ASSUME IInv, NEW c \in Callers, Abandon(c) PROVE IInv'
<1> USE DEF IInv
<1>0. /\ pc[c] = "wait" /\ pc' = [pc EXCEPT ![c] = "idle"]
      /\ orphans' = IF request[c] = NoRequest THEN orphans ELSE orphans \cup {request[c]}
      /\ request' = [request EXCEPT ![c] = NoRequest]
      /\ answer' = [answer EXCEPT ![c] = "none"]
      /\ UNCHANGED <<kv, revision, seen, attempts, returned, start>>
    BY Zenon DEF Abandon, etcdVars
<1>1. TypeOK'
    BY <1>0, Zenon DEF TypeOK
<1>2. \A r, v : Knows(r, v) => Knows(r, v)'
    BY <1>0, Zenon DEF Knows, Matches
<1>3. \A r \in orphans' : Knows(r, r.next - 1) /\ r.next \in 1..MaxID
  <2>1. ASSUME request[c] # NoRequest
        PROVE  Knows(request[c], request[c].next - 1) /\ request[c].next \in 1..MaxID
    <3>1. /\ request[c] = [found |-> seen[c].found, revision |-> seen[c].revision,
                           next |-> seen[c].current + 1]
          /\ Knows(seen[c], seen[c].current) /\ seen[c].current < MaxID
      BY <1>0, <2>1, Zenon DEF Faithful
    <3>2. seen[c].current \in Nat /\ MaxID \in Nat
      BY SequenceAssumption, Zenon DEF TypeOK
    <3>3. /\ request[c].found = seen[c].found /\ request[c].revision = seen[c].revision
          /\ request[c].next = seen[c].current + 1 /\ request[c].next - 1 = seen[c].current
      BY <3>1, <3>2
    <3> QED BY <3>1, <3>2, <3>3 DEF Knows, Matches
  <2> QED BY <1>0, <2>1, Zenon DEF Faithful
<1>4. Faithful'
    BY <1>0, <1>2, <1>3 DEF Faithful, TypeOK
<1>5. OneOwner'
    BY <1>0 DEF OneOwner, NeverReturnedTwice, TypeOK
<1> QED BY <1>1, <1>4, <1>5

\* Every step preserves the inductive invariant.
LEMMA NextIInv == ASSUME IInv, [Next]_vars PROVE IInv'
<1>1. CASE UNCHANGED vars
    BY <1>1 DEF IInv, TypeOK, Faithful, Knows, Matches, OneOwner, NeverReturnedTwice, vars,
                etcdVars, callVars, netVars
<1>2. CASE OtherKeyWrite
    BY <1>2, OtherKeyWriteIInv, Zenon
<1>3. ASSUME NEW c \in Callers, CallerStep(c) \/ EtcdTxn(c) PROVE IInv'
    BY <1>3, CallIInv, ReadIInv, GiveUpIInv, SwapIInv, ReceiveIInv, AbandonIInv, EtcdTxnIInv, Zenon
       DEF CallerStep
<1>4. ASSUME NEW r \in orphans, EtcdOrphanTxn(r) PROVE IInv'
    BY <1>4, EtcdOrphanTxnIInv, Zenon
<1> QED BY <1>1, <1>2, <1>3, <1>4, Zenon DEF Next
-----------------------------------------------------------------------------
(* The theorems.                                                           *)

\* In every reachable state each transaction under way asks for the successor of
\* what its caller read, and each allocated value has one owner.
THEOREM Invariance == Spec => []IInv
<1>1. Init => IInv
    BY InitIInv, Zenon
<1>2. IInv /\ [Next]_vars => IInv'
    BY NextIInv, Zenon
<1> QED BY <1>1, <1>2, PTL DEF Spec

\* SequenceStore.Next never returns a value twice, for any number of callers and
\* any loss or delay of Nest's answers.
THEOREM Uniqueness == Spec => []NeverReturnedTwice
<1>1. IInv => NeverReturnedTwice
    BY Zenon DEF IInv, OneOwner
<1> QED BY <1>1, Invariance, PTL

\* SequenceStore.Next returns a value above everything allocated before the call.
THEOREM Monotonicity == Spec => []AboveCallStart
<1>1. IInv => AboveCallStart
  <2> SUFFICES ASSUME IInv, NEW c \in Callers, answer[c] = "succeeded"
               PROVE  seen[c].current + 1 > start[c]
    BY SMTT(30) DEF AboveCallStart
  <2>1. seen[c].current >= start[c] + attempts[c]
    BY Zenon DEF IInv, Faithful
  <2>2. seen[c].current \in Nat /\ start[c] \in Nat /\ attempts[c] \in Nat
    BY Zenon DEF IInv, TypeOK
  <2> QED BY <2>1, <2>2
<1> QED BY <1>1, Invariance, PTL

\* SequenceStore.Next reports contention only after that many other allocations.
THEOREM Contention == Spec => []ContentionIsReal
<1>1. IInv => ContentionIsReal
  <2> SUFFICES ASSUME IInv, NEW c \in Callers, pc[c] # "idle"
               PROVE  kv.value >= start[c] + attempts[c]
                                    + (IF answer[c] = "conflict" THEN 1 ELSE 0)
    BY Zenon DEF ContentionIsReal
  <2>1. /\ kv.value \in Nat /\ seen[c].current \in Nat
        /\ start[c] \in Nat /\ attempts[c] \in Nat
        /\ pc[c] \in {"read", "check", "wait"}
    BY Zenon DEF IInv, TypeOK, Key
  <2>2. CASE pc[c] = "read"
    <3>1. kv.value >= start[c] + attempts[c] /\ answer[c] = "none"
      BY <2>2, Zenon DEF IInv, Faithful
    <3> QED BY <2>1, <3>1
  <2>3. CASE pc[c] \in {"check", "wait"}
    <3>0. seen[c].current >= start[c] + attempts[c] /\ Knows(seen[c], seen[c].current)
      BY <2>3, Zenon DEF IInv, Faithful
    <3>1. kv.value >= seen[c].current
      BY <2>1, <3>0 DEF Knows
    <3>2. answer[c] = "conflict" => kv.value > seen[c].current
      BY Zenon DEF IInv, Faithful
    <3> QED BY <2>1, <3>0, <3>1, <3>2
  <2> QED BY <2>1, <2>2, <2>3, Zenon
<1> QED BY <1>1, Invariance, PTL

\* Every step of the optimistic loop is a step of the atomic sequence, or none.
LEMMA StepRefines ==
    ASSUME IInv, [Next]_vars
    PROVE  [Abstract!AbsNext]_(Abstract!absVars)
<1> USE SequenceAssumption DEF IInv, Abstract!absVars
<1>0. /\ kv.value \in Nat /\ kv.value <= MaxID
      /\ \A c \in Callers : seen[c].current \in Nat /\ answer[c] \in {"none", "succeeded", "conflict"}
      /\ \A c \in Callers : answer[c] # "none" => pc[c] = "wait"
    BY Zenon DEF TypeOK, Key, Faithful
<1>1. CASE UNCHANGED vars
    BY <1>1, Zenon DEF vars, etcdVars, callVars, netVars, Held
<1>2. CASE OtherKeyWrite
    BY <1>2, Zenon DEF OtherKeyWrite, callVars, netVars, Held
<1>3. ASSUME NEW c \in Callers, Call(c) \/ GiveUp(c)
      PROVE  UNCHANGED <<kv.value, Held, returned>>
    BY <1>3, Zenon DEF Call, GiveUp, etcdVars, netVars, Held
<1>4. ASSUME NEW c \in Callers, Read(c)
      PROVE  UNCHANGED <<kv.value, Held, returned>>
  <2>1. answer[c] = "none" /\ UNCHANGED <<kv, answer, returned>>
    BY <1>0, <1>4, Zenon DEF Read, etcdVars, netVars
  <2>2. \A e \in Callers : e # c => seen'[e] = seen[e]
    BY <1>4, Zenon DEF Read, TypeOK
  <2> QED BY <2>1, <2>2, Zenon DEF Held
<1>5. ASSUME NEW c \in Callers, Swap(c)
      PROVE  UNCHANGED <<kv.value, Held, returned>>
  <2>1. answer[c] = "none" /\ UNCHANGED <<kv, seen, returned>>
    BY <1>0, <1>5, Zenon DEF Swap, etcdVars
  <2>2. \A e \in Callers : answer'[e] = answer[e]
    BY <1>5, <2>1, Zenon DEF Swap, TypeOK
  <2> QED BY <2>1, <2>2, Zenon DEF Held
<1>6. ASSUME NEW c \in Callers, EtcdTxn(c)
      PROVE  [Abstract!AbsNext]_(Abstract!absVars)
  <2> DEFINE q == request[c]
  <2>1. /\ q \in Request /\ answer[c] = "none" /\ seen[c].current < MaxID
        /\ Knows(q, seen[c].current) /\ q.next = seen[c].current + 1
        /\ Apply(q) /\ UNCHANGED <<seen, returned>>
        /\ answer' = [answer EXCEPT ![c] = IF Matches(q) THEN "succeeded" ELSE "conflict"]
    BY <1>6 DEF EtcdTxn, callVars, TypeOK, Faithful, Knows, Matches
  <2> HIDE DEF q
  <2>2. \A e \in Callers : e # c => answer'[e] = answer[e]
    BY <2>1, Zenon DEF TypeOK
  <2>3. answer'[c] = IF Matches(q) THEN "succeeded" ELSE "conflict"
    BY <2>1, Zenon DEF TypeOK
  <2>4. CASE Matches(q)
    <3>1. kv.value = seen[c].current /\ kv'.value = kv.value + 1
      BY <1>0, <2>1, <2>4 DEF Knows, Apply
    <3>2. Held[c] = NoValue /\ Held' = [Held EXCEPT ![c] = kv'.value]
      BY <2>1, <2>2, <2>3, <2>4, <3>1, Zenon DEF Held
    <3>3. Abstract!Allocate(c)
      BY <1>0, <2>1, <3>1, <3>2, Zenon DEF Abstract!Allocate
    <3> QED BY <3>3, Zenon DEF Abstract!AbsNext
  <2>5. CASE ~Matches(q)
    BY <2>1, <2>2, <2>3, <2>5 DEF Held, Apply, etcdVars
  <2> QED BY <2>4, <2>5, SMTT(30)
<1>7. ASSUME NEW q \in orphans, EtcdOrphanTxn(q)
      PROVE  [Abstract!AbsNext]_(Abstract!absVars)
  <2>1. /\ q \in Request /\ Knows(q, q.next - 1) /\ q.next \in 1..MaxID
        /\ Apply(q) /\ UNCHANGED <<seen, answer, returned>>
    BY <1>7, Zenon DEF EtcdOrphanTxn, callVars, TypeOK, Faithful
  <2>2. Held' = Held
    BY <2>1, Zenon DEF Held
  <2>3. CASE Matches(q)
    <3>1. kv'.value = kv.value + 1 /\ kv.value < MaxID
      BY <1>0, <2>1, <2>3 DEF Knows, Apply, Request
    <3>2. Abstract!Skip
      BY <2>1, <2>2, <3>1, Zenon DEF Abstract!Skip
    <3> QED BY <3>2, Zenon DEF Abstract!AbsNext
  <2>4. CASE ~Matches(q)
    BY <2>1, <2>2, <2>4, Zenon DEF Apply, etcdVars
  <2> QED BY <2>3, <2>4, Zenon
<1>8. ASSUME NEW c \in Callers, Receive(c) \/ Abandon(c)
      PROVE  [Abstract!AbsNext]_(Abstract!absVars)
  <2>1. answer' = [answer EXCEPT ![c] = "none"] /\ UNCHANGED <<kv, seen>>
    BY <1>8, Zenon DEF Receive, Abandon, etcdVars
  <2>2. Held' = [Held EXCEPT ![c] = NoValue]
    BY <2>1, Zenon DEF Held, TypeOK
  <2>3. CASE answer[c] = "succeeded"
    <3>1. Held[c] = seen[c].current + 1 /\ Held[c] # NoValue
      BY <1>0, <2>3 DEF Held
    <3>2. CASE Receive(c)
      <4>1. Abstract!Hand(c)
        BY <2>1, <2>2, <2>3, <3>1, <3>2, Zenon DEF Abstract!Hand, Receive
      <4> QED BY <4>1, Zenon DEF Abstract!AbsNext
    <3>3. CASE Abandon(c)
      <4>1. Abstract!Forget(c)
        BY <2>1, <2>2, <3>1, <3>3, Zenon DEF Abstract!Forget, Abandon
      <4> QED BY <4>1, Zenon DEF Abstract!AbsNext
    <3> QED BY <1>8, <3>2, <3>3, Zenon
  <2>4. CASE answer[c] # "succeeded"
    <3>1. Held' = Held /\ returned' = returned
      BY <1>8, <2>1, <2>2, <2>4, Zenon DEF Held, Receive, Abandon
    <3> QED BY <2>1, <3>1, Zenon
  <2> QED BY <2>3, <2>4, Zenon
<1> QED BY <1>1, <1>2, <1>3, <1>4, <1>5, <1>6, <1>7, <1>8, Zenon DEF Next, CallerStep

\* SequenceStore.Next implements the atomic sequence of GlobalSequence.
THEOREM Refinement == Spec => ImplementsGlobalSequence
<1>1. Init => Abstract!AbsInit
    BY DEF Init, Abstract!AbsInit, Held
<1>2. IInv /\ [Next]_vars => [Abstract!AbsNext]_(Abstract!absVars)
    BY StepRefines, Zenon
<1> QED BY <1>1, <1>2, Invariance, PTL DEF Spec, ImplementsGlobalSequence, Abstract!AbsSpec
=============================================================================
