--------------------------- MODULE RecipeDBProofs ---------------------------
(***************************************************************************)
(* What TLAPS proves of the Recipe database for any sets of names, bodies  *)
(* and clients and any bound on the versions: the type invariant, the      *)
(* safety invariants and the action properties that MCRecipeDB checks on a *)
(* small instance.                                                         *)
(***************************************************************************)
EXTENDS RecipeDB, Sequences, TLAPS

USE NoNameAssumption, NoBodyAssumption, MaxVersionAssumption

(* The versions of a name are 1..k: the form of VersionsContiguous that is *)
(* inductive and gives LastVersion its value.                              *)
DenseHistory ==
  \A n \in Names : \E k \in 0..MaxVersion : Stored(n) = 1..k

(* What the memory of a handler holds at each place.                       *)
HandlersHold ==
  \A c \in Clients :
    /\ pc[c] = "reading" => req[c].op = "rollback"
    /\ pc[c] \in {"writing", "committed"} =>
         /\ held[c] \in Specs
         /\ held[c].name = req[c].name
         /\ req[c].op \in {"put", "rollback"}
    /\ pc[c] = "writing" /\ req[c].op = "put" => held[c].body = req[c].body

(* A handler that has committed finds its spec in the history.             *)
CommittedIsStored ==
  \A c \in Clients :
    pc[c] = "committed" =>
      /\ held[c].name \in Names
      /\ \E v \in Versions : history[held[c].name][v] = held[c]

(* What holds of the store whoever uses it, also with Delete.              *)
StoreInv ==
  /\ TypeOK
  /\ DenseHistory
  /\ LatestIsNewestVersion
  /\ StoredUnderOwnName
  /\ HandlersHold

(* The inductive invariant of the server: the invariants of the runs, and  *)
(* the three facts above that make them inductive.                         *)
IInv ==
  /\ StoreInv
  /\ HeldSpecStillStored
  /\ CommittedIsStored
  /\ AckedWritesSurvive

-----------------------------------------------------------------------------
LEMMA NoSpecIsNone == NoSpec \notin Specs
BY DEF NoSpec, Specs

(* The greatest element of 1..k, for a k above zero, is k.                 *)
LEMMA MaxOfInterval ==
  ASSUME NEW k \in Nat, k # 0
  PROVE  Max(1..k) = k
<1>1. \E x \in 1..k : \A y \in 1..k : x >= y
  <2>1. k \in 1..k /\ \A y \in 1..k : k >= y
    OBVIOUS
  <2> QED BY <2>1
<1>2. /\ Max(1..k) \in 1..k
      /\ \A y \in 1..k : Max(1..k) >= y
  BY <1>1 DEF Max
<1>3. k \in 1..k
  OBVIOUS
<1>4. Max(1..k) >= k
  BY <1>2, <1>3
<1> QED BY <1>2, <1>4

(* When the versions of n are 1..k, its last version is k.                 *)
LEMMA LastIsLength ==
  ASSUME NEW n \in Names, NEW k \in 0..MaxVersion, Stored(n) = 1..k
  PROVE  LastVersion(n) = k
<1>1. CASE k = 0
  BY <1>1 DEF LastVersion
<1>2. CASE k # 0
  <2>1. 1 \in 1..k
    BY <1>2
  <2>2. Stored(n) # {}
    BY <2>1
  <2>3. Max(1..k) = k
    BY <1>2, MaxOfInterval
  <2> QED BY <2>2, <2>3 DEF LastVersion
<1> QED BY <1>1, <1>2

LEMMA StoredUpToLast ==
  ASSUME DenseHistory, NEW n \in Names
  PROVE  LastVersion(n) \in 0..MaxVersion /\ Stored(n) = 1..LastVersion(n)
<1>1. PICK k \in 0..MaxVersion : Stored(n) = 1..k
  BY DEF DenseHistory
<1>2. LastVersion(n) = k
  BY <1>1, LastIsLength
<1> QED BY <1>1, <1>2

-----------------------------------------------------------------------------
(* What a write transaction does: the name of the spec gets one version    *)
(* more, which holds the spec; every other name keeps what it has.         *)
LEMMA WriteEffect ==
  ASSUME TypeOK, DenseHistory, NEW s \in Specs, s.name \in Names,
         NextVersion(s.name) \in Versions, Write(s)
  PROVE  /\ latest' \in [Names -> Specs \cup {NoSpec}]
         /\ history' \in [Names -> [Versions -> Specs \cup {NoSpec}]]
         /\ latest'[s.name] = s
         /\ history'[s.name][NextVersion(s.name)] = s
         /\ \A v \in Versions \ {NextVersion(s.name)} :
              history'[s.name][v] = history[s.name][v]
         /\ Stored(s.name)' = 1..NextVersion(s.name)
         /\ LastVersion(s.name)' = NextVersion(s.name)
         /\ \A n \in Names \ {s.name} :
              /\ latest'[n] = latest[n]
              /\ history'[n] = history[n]
              /\ Stored(n)' = Stored(n)
              /\ LastVersion(n)' = LastVersion(n)
<1> DEFINE n == s.name
           k == NextVersion(n)
<1>1. /\ latest' \in [Names -> Specs \cup {NoSpec}]
      /\ latest'[n] = s
      /\ \A m \in Names \ {n} : latest'[m] = latest[m]
  BY DEF Write, TypeOK
<1>2. history[n] \in [Versions -> Specs \cup {NoSpec}]
  BY DEF TypeOK
<1>3. history' = [history EXCEPT ![n] = [history[n] EXCEPT ![k] = s]]
  BY DEF Write
<1> HIDE DEF k
<1>4. /\ history'[n] = [history[n] EXCEPT ![k] = s]
      /\ \A m \in Names \ {n} : history'[m] = history[m]
  BY <1>3 DEF TypeOK
<1>5. /\ history'[n][k] = s
      /\ \A v \in Versions \ {k} : history'[n][v] = history[n][v]
      /\ history'[n] \in [Versions -> Specs \cup {NoSpec}]
  BY <1>2, <1>4 DEF k
<1>6. history' \in [Names -> [Versions -> Specs \cup {NoSpec}]]
  BY <1>3, <1>5, <1>4 DEF TypeOK
<1>7. /\ LastVersion(n) \in 0..MaxVersion
      /\ Stored(n) = 1..LastVersion(n)
      /\ k = LastVersion(n) + 1
      /\ k \in Versions
  BY StoredUpToLast DEF k, NextVersion
<1>8. Stored(n)' = 1..k
  <2>1. \A v \in Versions : v \in Stored(n)' <=> v = k \/ v \in Stored(n)
    BY <1>5, NoSpecIsNone DEF Stored
  <2> QED BY <2>1, <1>7 DEF Stored, Versions
<1>9. \A m \in Names \ {n} : Stored(m)' = Stored(m)
  BY <1>4 DEF Stored
<1>10. \A m \in Names \ {n} : LastVersion(m)' = LastVersion(m)
  BY <1>9 DEF LastVersion
<1>11. LastVersion(n)' = k
  <2>1. k \in Nat /\ k # 0
    BY <1>7 DEF Versions
  <2>2. Max(1..k) = k
    BY <2>1, MaxOfInterval
  <2>3. Stored(n)' # {}
    BY <1>8, <2>1
  <2> QED BY <1>8, <2>2, <2>3 DEF LastVersion
<1> QED BY <1>1, <1>4, <1>5, <1>6, <1>8, <1>9, <1>10, <1>11 DEF k

(* A version that is stored is kept by a write.                            *)
LEMMA WriteKeepsHistory ==
  ASSUME TypeOK, DenseHistory, NEW s \in Specs, s.name \in Names,
         NextVersion(s.name) \in Versions, Write(s)
  PROVE  \A n \in Names : \A v \in Stored(n) : history'[n][v] = history[n][v]
<1> TAKE n \in Names
<1> TAKE v \in Stored(n)
<1>1. CASE n # s.name
  BY <1>1, WriteEffect
<1>2. CASE n = s.name
  <2>1. v \in Versions
    BY DEF Stored
  <2>2. v # NextVersion(s.name)
    BY <1>2, StoredUpToLast DEF NextVersion
  <2> QED BY <1>2, <2>1, <2>2, WriteEffect
<1> QED BY <1>1, <1>2

-----------------------------------------------------------------------------
LEMMA InitIInv == Init => IInv
<1> SUFFICES ASSUME Init PROVE IInv
  OBVIOUS
<1> USE DEF Init
<1>1. \A n \in Names : Stored(n) = {}
  BY DEF Stored
<1>2. TypeOK
  BY DEF TypeOK, Requests, NoRequest, Addresses
<1>3. DenseHistory
  <2> SUFFICES ASSUME NEW n \in Names
               PROVE  \E k \in 0..MaxVersion : Stored(n) = 1..k
    BY DEF DenseHistory
  <2>1. Stored(n) = 1..0
    BY <1>1
  <2>2. 0 \in 0..MaxVersion
    OBVIOUS
  <2> QED BY <2>1, <2>2
<1>4. LatestIsNewestVersion /\ StoredUnderOwnName
  BY <1>1 DEF LatestIsNewestVersion, StoredUnderOwnName
<1>5. HandlersHold /\ HeldSpecStillStored /\ CommittedIsStored
  BY DEF HandlersHold, HeldSpecStillStored, CommittedIsStored
<1>6. AckedWritesSurvive
  BY DEF AckedWritesSurvive
<1> QED BY <1>2, <1>3, <1>4, <1>5, <1>6 DEF IInv, StoreInv

(* The parts of the invariant that speak of the buckets and of what was    *)
(* acknowledged only: a step that leaves these alone preserves them.       *)
LEMMA SameStore ==
  ASSUME IInv, UNCHANGED <<latest, history, acked>>
  PROVE  /\ DenseHistory' /\ LatestIsNewestVersion'
         /\ StoredUnderOwnName' /\ AckedWritesSurvive'
<1>1. \A n \in Names : Stored(n)' = Stored(n) /\ LastVersion(n)' = LastVersion(n)
  BY DEF Stored, LastVersion
<1> QED
  BY <1>1 DEF IInv, StoreInv, DenseHistory, LatestIsNewestVersion, StoredUnderOwnName,
              AckedWritesSurvive

LEMMA PutRequestIInv ==
  ASSUME IInv, NEW c \in Clients, NEW n \in Addresses, NEW s \in Specs,
         PutRequest(c, n, s)
  PROVE  IInv'
<1> USE DEF IInv, StoreInv, PutRequest
<1>1. Addressed(n, s) = [name |-> n, body |-> s.body] /\ s.body \in Bodies
  BY DEF Addressed, Specs
<1>2. TypeOK'
  BY <1>1 DEF TypeOK, Requests, Specs
<1>3. HandlersHold'
  BY <1>1 DEF HandlersHold, TypeOK, Specs
<1>4. HeldSpecStillStored' /\ CommittedIsStored'
  BY DEF HeldSpecStillStored, CommittedIsStored, TypeOK, GetVersion
<1> QED BY <1>2, <1>3, <1>4, SameStore

LEMMA RollbackRequestIInv ==
  ASSUME IInv, NEW c \in Clients, NEW n \in Addresses,
         NEW v \in 0..MaxVersion, RollbackRequest(c, n, v)
  PROVE  IInv'
<1> USE DEF IInv, StoreInv, RollbackRequest
<1>1. TypeOK'
  BY DEF TypeOK, Requests
<1>2. HandlersHold' /\ HeldSpecStillStored' /\ CommittedIsStored'
  BY DEF HandlersHold, HeldSpecStillStored, CommittedIsStored, TypeOK, GetVersion
<1> QED BY <1>1, <1>2, SameStore

(* What the first transaction of a rollback finds is a spec, and it is     *)
(* stored under the name it carries.                                       *)
LEMMA FoundVersion ==
  ASSUME TypeOK, StoredUnderOwnName, NEW n, NEW v, GetVersion(n, v) # NoSpec
  PROVE  /\ n \in Names
         /\ v \in Stored(n)
         /\ GetVersion(n, v) = history[n][v]
         /\ GetVersion(n, v) \in Specs
         /\ GetVersion(n, v).name = n
BY DEF TypeOK, StoredUnderOwnName, GetVersion, Stored

LEMMA RollbackReadIInv ==
  ASSUME IInv, NEW c \in Clients, RollbackRead(c)
  PROVE  IInv'
<1> USE DEF IInv, StoreInv, RollbackRead
<1>1. /\ GetVersion(req[c].name, req[c].version) \in Specs
      /\ GetVersion(req[c].name, req[c].version).name = req[c].name
      /\ req[c].op = "rollback"
  BY FoundVersion DEF HandlersHold
<1>2. TypeOK'
  BY <1>1 DEF TypeOK
<1>3. HandlersHold'
  BY <1>1 DEF HandlersHold, TypeOK
<1>4. HeldSpecStillStored' /\ CommittedIsStored'
  BY DEF HeldSpecStillStored, CommittedIsStored, TypeOK, GetVersion
<1> QED BY <1>2, <1>3, <1>4, SameStore

(* A handler that fails leaves the store as it was.                        *)
LEMMA FailIInv ==
  ASSUME IInv, NEW c \in Clients, RollbackNotFound(c) \/ Reject(c)
  PROVE  IInv'
<1> USE DEF IInv, StoreInv, RollbackNotFound, Reject
<1>1. TypeOK'
  BY DEF TypeOK
<1>2. HandlersHold' /\ HeldSpecStillStored' /\ CommittedIsStored'
  BY DEF HandlersHold, HeldSpecStillStored, CommittedIsStored, TypeOK, GetVersion
<1> QED BY <1>1, <1>2, SameStore

LEMMA CommitStoreInv ==
  ASSUME StoreInv, NEW c \in Clients, Commit(c)
  PROVE  StoreInv'
<1> DEFINE s == held[c]
           n == held[c].name
           k == NextVersion(n)
<1>1. /\ TypeOK /\ DenseHistory /\ LatestIsNewestVersion /\ StoredUnderOwnName
      /\ HandlersHold
  BY DEF StoreInv
<1>2. /\ s \in Specs /\ n \in Names /\ k \in Versions /\ Write(s)
      /\ pc[c] = "writing" /\ pc' = [pc EXCEPT ![c] = "committed"]
      /\ UNCHANGED <<up, req, held, acked>>
  <2>1. pc[c] \in {"writing", "committed"}
    BY DEF Commit
  <2>2. s \in Specs
    BY <2>1, <1>1 DEF HandlersHold
  <2> QED BY <2>2 DEF Commit, Specs, Addresses
<1> HIDE DEF s, n, k
<1>3. n = s.name /\ s = held[c] /\ k = NextVersion(s.name)
  BY DEF s, n, k
<1>4. \A m \in Names : \A v \in Stored(m) : history'[m][v] = history[m][v]
  BY <1>1, <1>2, <1>3, WriteKeepsHistory
<1>5. TypeOK'
  BY <1>1, <1>2, <1>3, WriteEffect DEF TypeOK
<1>6. DenseHistory'
  <2> SUFFICES ASSUME NEW m \in Names
               PROVE  \E j \in 0..MaxVersion : Stored(m)' = 1..j
    BY DEF DenseHistory
  <2>1. CASE m = n
    <3>1. Stored(m)' = 1..k /\ k \in 0..MaxVersion
      BY <2>1, <1>1, <1>2, <1>3, WriteEffect DEF Versions
    <3> QED BY <3>1
  <2>2. CASE m # n
    <3>1. Stored(m)' = Stored(m)
      BY <2>2, <1>1, <1>2, <1>3, WriteEffect
    <3> QED BY <3>1, <1>1 DEF DenseHistory
  <2> QED BY <2>1, <2>2
<1>7. LatestIsNewestVersion'
  <2> SUFFICES ASSUME NEW m \in Names
               PROVE  latest'[m] = IF Stored(m)' = {} THEN NoSpec
                                   ELSE history'[m][LastVersion(m)']
    BY DEF LatestIsNewestVersion
  <2>1. CASE m = n
    <3>1. Stored(m)' = 1..k /\ LastVersion(m)' = k
          /\ latest'[m] = s /\ history'[m][k] = s
      BY <2>1, <1>1, <1>2, <1>3, WriteEffect
    <3>2. Stored(m)' # {}
      BY <3>1, <1>2 DEF Versions
    <3> QED BY <3>1, <3>2
  <2>2. CASE m # n
    <3>1. /\ Stored(m)' = Stored(m) /\ LastVersion(m)' = LastVersion(m)
          /\ latest'[m] = latest[m] /\ history'[m] = history[m]
      BY <2>2, <1>1, <1>2, <1>3, WriteEffect
    <3> QED BY <3>1, <1>1 DEF LatestIsNewestVersion
  <2> QED BY <2>1, <2>2
<1>8. StoredUnderOwnName'
  <2> SUFFICES ASSUME NEW m \in Names, NEW v \in Stored(m)'
               PROVE  history'[m][v].name = m
    BY DEF StoredUnderOwnName
  <2>1. CASE v \in Stored(m)
    BY <2>1, <1>1, <1>4 DEF StoredUnderOwnName
  <2>2. CASE v \notin Stored(m)
    <3>1. m = n
      BY <2>2, <1>1, <1>2, <1>3, WriteEffect
    <3>2. Stored(m)' = 1..k /\ history'[m][k] = s
      BY <3>1, <1>1, <1>2, <1>3, WriteEffect
    <3>3. /\ LastVersion(m) \in Nat
          /\ Stored(m) = 1..LastVersion(m)
          /\ k = LastVersion(m) + 1
      BY <3>1, <1>1, <1>2, <1>3, StoredUpToLast DEF NextVersion
    <3>4. v \in 1..k /\ v \notin 1..LastVersion(m)
      BY <2>2, <3>1, <3>2, <3>3
    <3>5. v = k
      BY <3>3, <3>4
    <3> QED BY <3>1, <3>2, <3>5, <1>3
  <2> QED BY <2>1, <2>2
<1>9. HandlersHold'
  BY <1>1, <1>2 DEF HandlersHold, TypeOK
<1> QED BY <1>5, <1>6, <1>7, <1>8, <1>9 DEF StoreInv

LEMMA CommitIInv ==
  ASSUME IInv, NEW c \in Clients, Commit(c)
  PROVE  IInv'
<1> DEFINE s == held[c]
           n == held[c].name
           k == NextVersion(n)
<1>1. /\ StoreInv /\ TypeOK /\ DenseHistory /\ LatestIsNewestVersion /\ StoredUnderOwnName
      /\ HandlersHold /\ HeldSpecStillStored /\ CommittedIsStored
      /\ AckedWritesSurvive
  BY DEF IInv, StoreInv
<1>2. /\ s \in Specs /\ n \in Names /\ k \in Versions /\ Write(s)
      /\ pc[c] = "writing" /\ pc' = [pc EXCEPT ![c] = "committed"]
      /\ UNCHANGED <<up, req, held, acked>>
  <2>1. pc[c] \in {"writing", "committed"}
    BY DEF Commit
  <2>2. s \in Specs
    BY <2>1, <1>1 DEF HandlersHold
  <2> QED BY <2>2 DEF Commit, Specs, Addresses
<1> HIDE DEF s, n, k
<1>3. n = s.name /\ s = held[c] /\ k = NextVersion(s.name)
  BY DEF s, n, k
<1>4. \A m \in Names : \A v \in Stored(m) : history'[m][v] = history[m][v]
  BY <1>1, <1>2, <1>3, WriteKeepsHistory
<1>5. StoreInv'
  BY <1>1, CommitStoreInv
<1>10. HeldSpecStillStored'
  <2> SUFFICES ASSUME NEW d \in Clients, pc'[d] = "writing",
                      req'[d].op = "rollback"
               PROVE  held'[d] = GetVersion(req[d].name, req[d].version)'
    BY <1>2 DEF HeldSpecStillStored
  <2>1. pc[d] = "writing" /\ req[d].op = "rollback"
    BY <1>2, <1>1 DEF TypeOK
  <2>2. /\ held[d] = GetVersion(req[d].name, req[d].version)
        /\ held[d] \in Specs
    BY <2>1, <1>1 DEF HeldSpecStillStored, HandlersHold
  <2>3. /\ req[d].name \in Names
        /\ req[d].version \in Stored(req[d].name)
        /\ held[d] = history[req[d].name][req[d].version]
    BY <2>2, <1>1, NoSpecIsNone, FoundVersion
  <2>4. held[d] = history'[req[d].name][req[d].version]
    BY <2>3, <1>4
  <2> QED BY <2>3, <2>4, <1>2 DEF GetVersion, Stored
<1>11. CommittedIsStored'
  <2> SUFFICES ASSUME NEW d \in Clients, pc'[d] = "committed"
               PROVE  /\ held[d].name \in Names
                      /\ \E v \in Versions : history'[held[d].name][v] = held[d]
    BY <1>2 DEF CommittedIsStored
  <2>1. CASE d = c
    BY <2>1, <1>1, <1>2, <1>3, WriteEffect
  <2>2. CASE d # c
    <3>1. pc[d] = "committed" /\ held[d] \in Specs
      BY <2>2, <1>2, <1>1 DEF TypeOK, HandlersHold
    <3>2. /\ held[d].name \in Names
          /\ \E v \in Stored(held[d].name) : history[held[d].name][v] = held[d]
      BY <3>1, <1>1, NoSpecIsNone DEF CommittedIsStored, Stored
    <3> QED BY <3>2, <1>4 DEF Stored
  <2> QED BY <2>1, <2>2
<1>12. AckedWritesSurvive'
  <2> SUFFICES ASSUME NEW a \in acked
               PROVE  /\ a.name \in Names
                      /\ \E v \in Versions : history'[a.name][v] = a
    BY <1>2 DEF AckedWritesSurvive
  <2>1. /\ a \in Specs /\ a.name \in Names
        /\ \E v \in Versions : history[a.name][v] = a
    BY <1>1 DEF AckedWritesSurvive, TypeOK
  <2>2. \E v \in Stored(a.name) : history[a.name][v] = a
    BY <2>1, NoSpecIsNone DEF Stored
  <2> QED BY <2>1, <2>2, <1>4 DEF Stored
<1> QED BY <1>5, <1>10, <1>11, <1>12 DEF IInv, StoreInv

LEMMA ReplyIInv ==
  ASSUME IInv, NEW c \in Clients, Reply(c) \/ ReplyLost(c)
  PROVE  IInv'
<1>1. /\ UNCHANGED <<latest, history, up>> /\ Forget(c)
      /\ \/ acked' = acked
         \/ pc[c] = "committed" /\ acked' = acked \cup {held[c]}
  BY DEF Reply, ReplyLost
<1>2. TypeOK'
  BY <1>1 DEF IInv, StoreInv, TypeOK, Forget, HandlersHold, Requests, NoRequest, Addresses
<1>3. HandlersHold' /\ HeldSpecStillStored' /\ CommittedIsStored'
  BY <1>1 DEF IInv, StoreInv, HandlersHold, HeldSpecStillStored, CommittedIsStored, TypeOK,
              Forget, GetVersion
<1>4. AckedWritesSurvive'
  BY <1>1 DEF IInv, StoreInv, AckedWritesSurvive, CommittedIsStored
<1>5. \A n \in Names : Stored(n)' = Stored(n) /\ LastVersion(n)' = LastVersion(n)
  BY <1>1 DEF Stored, LastVersion
<1>6. DenseHistory' /\ LatestIsNewestVersion' /\ StoredUnderOwnName'
  BY <1>1, <1>5 DEF IInv, StoreInv, DenseHistory, LatestIsNewestVersion, StoredUnderOwnName
<1> QED BY <1>2, <1>3, <1>4, <1>6 DEF IInv, StoreInv

LEMMA CrashIInv ==
  ASSUME IInv, Crash
  PROVE  IInv'
<1> USE DEF IInv, StoreInv, Crash
<1>1. TypeOK'
  <2>1. NoRequest \in Requests
    BY DEF Requests, NoRequest, Addresses
  <2>2. /\ pc' \in [Clients -> {"idle", "reading", "writing", "committed",
                                "failed", "deleted"}]
        /\ req' \in [Clients -> Requests]
        /\ held' \in [Clients -> Specs \cup {NoSpec}]
    BY <2>1
  <2> QED BY <2>2 DEF TypeOK
<1>2. HandlersHold' /\ HeldSpecStillStored' /\ CommittedIsStored'
  BY DEF HandlersHold, HeldSpecStillStored, CommittedIsStored
<1> QED BY <1>1, <1>2, SameStore

(* A restart, and a step that changes nothing.                             *)
LEMMA RestartIInv ==
  ASSUME IInv, Restart \/ UNCHANGED vars
  PROVE  IInv'
<1> USE DEF IInv, StoreInv, Restart, vars
<1>1. TypeOK'
  BY DEF TypeOK
<1>2. HandlersHold' /\ HeldSpecStillStored' /\ CommittedIsStored'
  BY DEF HandlersHold, HeldSpecStillStored, CommittedIsStored, GetVersion
<1> QED BY <1>1, <1>2, SameStore

LEMMA NextIInv == IInv /\ [Next]_vars => IInv'
<1> SUFFICES ASSUME IInv, [Next]_vars PROVE IInv'
  OBVIOUS
<1>1. CASE Crash
  BY <1>1, CrashIInv
<1>2. CASE Restart \/ UNCHANGED vars
  BY <1>2, RestartIInv
<1>3. ASSUME NEW c \in Clients, Serve(c) PROVE IInv'
  <2>1. CASE \E n \in Addresses, s \in Specs : PutRequest(c, n, s)
    BY <2>1, PutRequestIInv
  <2>2. CASE \E n \in Addresses, v \in 0..MaxVersion : RollbackRequest(c, n, v)
    BY <2>2, RollbackRequestIInv
  <2>3. CASE RollbackRead(c)
    BY <2>3, RollbackReadIInv
  <2>4. CASE RollbackNotFound(c) \/ Reject(c)
    BY <2>4, FailIInv
  <2>5. CASE Commit(c)
    BY <2>5, CommitIInv
  <2>6. CASE Reply(c) \/ ReplyLost(c)
    BY <2>6, ReplyIInv
  <2> QED BY <1>3, <2>1, <2>2, <2>3, <2>4, <2>5, <2>6 DEF Serve
<1> QED BY <1>1, <1>2, <1>3 DEF Next

LEMMA Invariance == Spec => []IInv
BY InitIInv, NextIInv, PTL DEF Spec

-----------------------------------------------------------------------------
(* Type correctness: no request, crash or restart takes a variable out of  *)
(* the values its code can hold.                                           *)
THEOREM TypeCorrect == Spec => []TypeOK
<1>1. IInv => TypeOK
  BY DEF IInv, StoreInv
<1> QED BY <1>1, Invariance, PTL

(* The latest spec of a Recipe is the one at its highest version: the two  *)
(* buckets recipedb.Put writes never disagree.                             *)
THEOREM BucketsAgree == Spec => []LatestIsNewestVersion
<1>1. IInv => LatestIsNewestVersion
  BY DEF IInv, StoreInv
<1> QED BY <1>1, Invariance, PTL

LEMMA DenseHasNoHole == DenseHistory => VersionsContiguous
<1> SUFFICES ASSUME DenseHistory, NEW n \in Names, NEW v \in Stored(n), NEW w \in 1..v
             PROVE  w \in Stored(n)
  BY DEF VersionsContiguous
<1>1. PICK k \in 0..MaxVersion : Stored(n) = 1..k
  BY DEF DenseHistory
<1> QED BY <1>1

(* The versions of a Recipe are numbered without a hole.                   *)
THEOREM NoHoleInHistory == Spec => []VersionsContiguous
<1>1. IInv => VersionsContiguous
  BY DenseHasNoHole DEF IInv, StoreInv
<1> QED BY <1>1, Invariance, PTL

(* Every spec is stored under the name it carries, so a rollback puts what *)
(* it read back where the client asked.                                    *)
THEOREM NamesMatch == Spec => []StoredUnderOwnName
<1>1. IInv => StoredUnderOwnName
  BY DEF IInv, StoreInv
<1> QED BY <1>1, Invariance, PTL

(* The spec a rollback holds between its two transactions is never stale.  *)
THEOREM RollbackHoldsCurrent == Spec => []HeldSpecStillStored
<1>1. IInv => HeldSpecStillStored
  BY DEF IInv, StoreInv
<1> QED BY <1>1, Invariance, PTL

(* What was answered with success is stored for ever.                      *)
THEOREM AckedIsDurable == Spec => []AckedWritesSurvive
<1>1. IInv => AckedWritesSurvive
  BY DEF IInv, StoreInv
<1> QED BY <1>1, Invariance, PTL

(* A step of the server other than a commit leaves the two buckets alone.  *)
LEMMA OnlyCommitWrites ==
  ASSUME [Next]_vars
  PROVE  UNCHANGED <<latest, history>> \/ \E c \in Clients : Commit(c)
BY DEF Next, Serve, vars, Crash, Restart, PutRequest, RollbackRequest,
       RollbackRead, RollbackNotFound, Reject, Reply, ReplyLost

(* What a commit writes, in terms of its handler's memory.                 *)
LEMMA CommitWrites ==
  ASSUME IInv, NEW c \in Clients, Commit(c)
  PROVE  /\ held[c] \in Specs /\ held[c].name \in Names
         /\ held[c].name = req[c].name
         /\ NextVersion(held[c].name) \in Versions
         /\ Write(held[c])
<1>1. pc[c] \in {"writing", "committed"}
  BY DEF Commit
<1>2. held[c] \in Specs /\ held[c].name = req[c].name
  BY <1>1 DEF IInv, StoreInv, HandlersHold
<1> QED BY <1>2 DEF Commit, Specs, Addresses

(* No step of the server changes or drops a stored version.                *)
THEOREM HistoryIsAppendOnly == Spec => HistoryAppendOnly
<1>1. IInv /\ [Next]_vars => [KeepsHistory]_vars
  <2> SUFFICES ASSUME IInv, [Next]_vars PROVE KeepsHistory
    OBVIOUS
  <2>1. CASE UNCHANGED <<latest, history>>
    BY <2>1 DEF KeepsHistory
  <2>2. ASSUME NEW c \in Clients, Commit(c) PROVE KeepsHistory
    BY <2>2, CommitWrites, WriteKeepsHistory DEF IInv, StoreInv, KeepsHistory
  <2> QED BY <2>1, <2>2, OnlyCommitWrites
<1> QED BY <1>1, Invariance, PTL DEF Spec, HistoryAppendOnly

(* A write changes the Recipe its client addressed and no other.           *)
THEOREM WritesStayAddressed == Spec => WritesOnlyAddressed
<1>1. IInv /\ [Next]_vars => [TouchesOnlyAddressed]_vars
  <2> SUFFICES ASSUME IInv, [Next]_vars PROVE TouchesOnlyAddressed
    OBVIOUS
  <2>1. CASE UNCHANGED <<latest, history>>
    BY <2>1 DEF TouchesOnlyAddressed
  <2>2. ASSUME NEW c \in Clients, Commit(c) PROVE TouchesOnlyAddressed
    <3> SUFFICES ASSUME NEW n \in Names,
                        ~(latest'[n] = latest[n] /\ history'[n] = history[n])
                 PROVE  \E d \in Clients : pc'[d] # pc[d] /\ req'[d].name = n
      BY DEF TouchesOnlyAddressed
    <3>1. n = held[c].name
      BY <2>2, CommitWrites, WriteEffect DEF IInv, StoreInv
    <3>2. req'[c].name = n
      BY <2>2, <3>1, CommitWrites DEF Commit
    <3>3. pc'[c] # pc[c]
      BY <2>2 DEF Commit, IInv, StoreInv, TypeOK
    <3> QED BY <3>2, <3>3
  <2> QED BY <2>1, <2>2, OnlyCommitWrites
<1> QED BY <1>1, Invariance, PTL DEF Spec, WritesOnlyAddressed

-----------------------------------------------------------------------------
(* The store as a program may use it that also deletes (StoreSpec).        *)
LEMMA DeleteStoreInv ==
  ASSUME StoreInv, NEW c \in Clients, NEW n \in Names, Delete(c, n)
  PROVE  StoreInv'
<1> USE DEF StoreInv, Delete, Erase
<1>1. \A m \in Names \ {n} : /\ latest'[m] = latest[m] /\ history'[m] = history[m]
                             /\ Stored(m)' = Stored(m) /\ LastVersion(m)' = LastVersion(m)
  BY DEF TypeOK, Stored, LastVersion
<1>2. Stored(n)' = {} /\ latest'[n] = NoSpec
  BY DEF TypeOK, Stored
<1>3. TypeOK'
  <2>1. [op |-> "delete", name |-> n, body |-> NoBody, version |-> 0] \in Requests
    BY DEF Requests, Addresses
  <2>2. [v \in Versions |-> NoSpec] \in [Versions -> Specs \cup {NoSpec}]
    OBVIOUS
  <2> QED BY <2>1, <2>2 DEF TypeOK
<1>4. DenseHistory'
  <2>1. Stored(n)' = 1..0 /\ 0 \in 0..MaxVersion
    BY <1>2
  <2> QED BY <1>1, <2>1 DEF DenseHistory
<1>5. LatestIsNewestVersion' /\ StoredUnderOwnName'
  BY <1>1, <1>2 DEF LatestIsNewestVersion, StoredUnderOwnName
<1>6. HandlersHold'
  BY DEF HandlersHold, TypeOK
<1> QED BY <1>3, <1>4, <1>5, <1>6

(* The other steps leave the buckets alone; what handlers hold keeps       *)
(* fitting together.                                                       *)
LEMMA OtherStoreInv ==
  ASSUME StoreInv, UNCHANGED <<latest, history>>, TypeOK', HandlersHold'
  PROVE  StoreInv'
<1>1. \A n \in Names : Stored(n)' = Stored(n) /\ LastVersion(n)' = LastVersion(n)
  BY DEF Stored, LastVersion
<1> QED BY <1>1 DEF StoreInv, DenseHistory, LatestIsNewestVersion, StoredUnderOwnName

LEMMA ServeStoreInv ==
  ASSUME StoreInv, NEW c \in Clients, Serve(c) \/ DeleteReturn(c)
  PROVE  StoreInv'
<1> USE DEF StoreInv
<1>1. ASSUME NEW n \in Addresses, NEW s \in Specs, PutRequest(c, n, s) PROVE StoreInv'
  <2>1. Addressed(n, s) = [name |-> n, body |-> s.body] /\ s.body \in Bodies
    BY DEF Addressed, Specs
  <2>2. TypeOK' /\ HandlersHold' /\ UNCHANGED <<latest, history>>
    BY <1>1, <2>1 DEF PutRequest, TypeOK, HandlersHold, Requests, Specs
  <2> QED BY <2>2, OtherStoreInv
<1>2. ASSUME NEW n \in Addresses, NEW v \in 0..MaxVersion, RollbackRequest(c, n, v)
      PROVE  StoreInv'
  BY <1>2, OtherStoreInv DEF RollbackRequest, TypeOK, HandlersHold, Requests
<1>3. CASE RollbackRead(c)
  <2>1. /\ GetVersion(req[c].name, req[c].version) \in Specs
        /\ GetVersion(req[c].name, req[c].version).name = req[c].name
        /\ req[c].op = "rollback"
    BY <1>3, FoundVersion DEF RollbackRead, HandlersHold
  <2> QED BY <1>3, <2>1, OtherStoreInv DEF RollbackRead, TypeOK, HandlersHold
<1>4. CASE RollbackNotFound(c) \/ Reject(c)
  BY <1>4, OtherStoreInv DEF RollbackNotFound, Reject, TypeOK, HandlersHold
<1>5. CASE Reply(c) \/ ReplyLost(c) \/ DeleteReturn(c)
  <2>1. /\ UNCHANGED <<latest, history, up>> /\ Forget(c)
        /\ \/ acked' = acked
           \/ pc[c] = "committed" /\ acked' = acked \cup {held[c]}
    BY <1>5 DEF Reply, ReplyLost, DeleteReturn
  <2>2. TypeOK' /\ HandlersHold'
    BY <2>1 DEF TypeOK, Forget, HandlersHold, Requests, NoRequest, Addresses
  <2> QED BY <2>1, <2>2, OtherStoreInv
<1> QED BY <1>1, <1>2, <1>3, <1>4, <1>5, CommitStoreInv DEF Serve

LEMMA NextStoreInv == StoreInv /\ [StoreNext]_vars => StoreInv'
<1> SUFFICES ASSUME StoreInv, [StoreNext]_vars PROVE StoreInv'
  OBVIOUS
<1>1. CASE Crash
  <2>1. NoRequest \in Requests
    BY DEF Requests, NoRequest, Addresses
  <2>2. /\ pc' \in [Clients -> {"idle", "reading", "writing", "committed",
                                "failed", "deleted"}]
        /\ req' \in [Clients -> Requests]
        /\ held' \in [Clients -> Specs \cup {NoSpec}]
    BY <1>1, <2>1 DEF Crash
  <2>3. TypeOK' /\ HandlersHold'
    BY <1>1, <2>2 DEF Crash, StoreInv, TypeOK, HandlersHold
  <2> QED BY <1>1, <2>3, OtherStoreInv DEF Crash
<1>2. CASE Restart \/ UNCHANGED vars
  BY <1>2, OtherStoreInv DEF Restart, vars, StoreInv, TypeOK, HandlersHold
<1> QED BY <1>1, <1>2, ServeStoreInv, DeleteStoreInv DEF StoreNext, Next

LEMMA StoreInvariance == StoreSpec => []StoreInv
<1>1. Init => StoreInv
  BY InitIInv DEF IInv
<1> QED BY <1>1, NextStoreInv, PTL DEF StoreSpec

(* With Delete, as the package offers it: a deleted Recipe leaves both     *)
(* buckets, and what a rollback under way puts back is its version 1.      *)
THEOREM StoreBucketsAgree == StoreSpec => []LatestIsNewestVersion
<1>1. StoreInv => LatestIsNewestVersion
  BY DEF StoreInv
<1> QED BY <1>1, StoreInvariance, PTL

(* With Delete, the versions of a Recipe still have no hole.               *)
THEOREM StoreHasNoHole == StoreSpec => []VersionsContiguous
<1>1. StoreInv => VersionsContiguous
  BY DenseHasNoHole DEF StoreInv
<1> QED BY <1>1, StoreInvariance, PTL

(* With Delete, every spec is stored under its own name.                   *)
THEOREM StoreNamesMatch == StoreSpec => []StoredUnderOwnName
<1>1. StoreInv => StoredUnderOwnName
  BY DEF StoreInv
<1> QED BY <1>1, StoreInvariance, PTL

-----------------------------------------------------------------------------
(* Refinement.  The log of a name is a sequence, and a commit appends to   *)
(* the log of the name it addresses and leaves the others alone.           *)
AbstractLog == [n \in Names |-> LogOf(n)]
AbstractStatus == [c \in Clients |-> StatusOf(pc[c])]

LEMMA LogLength ==
  ASSUME DenseHistory, TypeOK, NEW n \in Names
  PROVE  /\ LogOf(n) \in Seq(Specs)
         /\ Len(LogOf(n)) = LastVersion(n)
         /\ \A v \in 1..LastVersion(n) : LogOf(n)[v] = history[n][v]
<1>1. /\ LastVersion(n) \in Nat
      /\ \A v \in 1..LastVersion(n) : v \in Stored(n)
  BY StoredUpToLast
<1>2. \A v \in 1..LastVersion(n) : history[n][v] \in Specs
  BY <1>1 DEF Stored, TypeOK
<1> QED BY <1>1, <1>2 DEF LogOf

LEMMA CommitAppends ==
  ASSUME IInv, NEW c \in Clients, Commit(c)
  PROVE  AbstractLog' = [AbstractLog EXCEPT ![req[c].name] = Append(@, held[c])]
<1> DEFINE n == req[c].name
<1>1. /\ held[c] \in Specs /\ n \in Names /\ held[c].name = n
      /\ NextVersion(n) \in Versions /\ Write(held[c])
  BY CommitWrites
<1>2. TypeOK /\ DenseHistory
  BY DEF IInv, StoreInv
<1>3. ASSUME NEW m \in Names, m # n
      PROVE  LogOf(m)' = LogOf(m)
  <2>1. history'[m] = history[m] /\ LastVersion(m)' = LastVersion(m)
    BY <1>1, <1>2, <1>3, WriteEffect
  <2> QED BY <2>1 DEF LogOf
<1>4. ASSUME NEW m \in Names, m = n
      PROVE  LogOf(m)' = Append(LogOf(m), held[c])
  <2>1. /\ LastVersion(m)' = LastVersion(m) + 1
        /\ history'[m][LastVersion(m) + 1] = held[c]
    BY <1>1, <1>2, <1>4, WriteEffect DEF NextVersion
  <2>2. \A v \in 1..LastVersion(m) : history'[m][v] = history[m][v]
    BY <1>1, <1>2, <1>4, WriteKeepsHistory, StoredUpToLast
  <2>3. /\ LogOf(m) \in Seq(Specs) /\ Len(LogOf(m)) = LastVersion(m)
        /\ \A v \in 1..LastVersion(m) : LogOf(m)[v] = history[m][v]
        /\ LastVersion(m) \in Nat
    BY <1>2, LogLength, StoredUpToLast
  <2>4. LogOf(m)' = [v \in 1..(LastVersion(m) + 1) |-> history'[m][v]]
    BY <2>1 DEF LogOf
  <2>5. /\ Append(LogOf(m), held[c]) =
              [v \in 1..(LastVersion(m) + 1) |->
                 IF v = LastVersion(m) + 1 THEN held[c] ELSE LogOf(m)[v]]
    BY <2>3
  <2>6. \A v \in 1..(LastVersion(m) + 1) :
          history'[m][v] = IF v = LastVersion(m) + 1 THEN held[c] ELSE LogOf(m)[v]
    BY <2>1, <2>2, <2>3
  <2> QED BY <2>4, <2>5, <2>6
<1> QED BY <1>1, <1>3, <1>4 DEF AbstractLog

(* A change of place of one handler, seen in the abstract status.          *)
LEMMA StatusStep ==
  ASSUME TypeOK, NEW c \in Clients, NEW p, pc' = [pc EXCEPT ![c] = p]
  PROVE  AbstractStatus' = [AbstractStatus EXCEPT ![c] = StatusOf(p)]
<1>1. \A d \in Clients : pc'[d] = IF d = c THEN p ELSE pc[d]
  BY DEF TypeOK
<1>2. AbstractStatus' = [d \in Clients |-> StatusOf(pc'[d])]
  BY DEF AbstractStatus
<1>3. [AbstractStatus EXCEPT ![c] = StatusOf(p)]
        = [d \in Clients |-> IF d = c THEN StatusOf(p) ELSE StatusOf(pc[d])]
  BY DEF AbstractStatus
<1>4. \A d \in Clients :
        StatusOf(pc'[d]) = IF d = c THEN StatusOf(p) ELSE StatusOf(pc[d])
  BY <1>1
<1> QED BY <1>2, <1>3, <1>4

LEMMA SameLog ==
  ASSUME UNCHANGED <<latest, history>>
  PROVE  AbstractLog' = AbstractLog
<1>1. \A n \in Names : Stored(n)' = Stored(n)
  BY DEF Stored
<1>2. \A n \in Names : LastVersion(n)' = LastVersion(n)
  BY <1>1 DEF LastVersion
<1> QED BY <1>2 DEF AbstractLog, LogOf

LEMMA CommitRefines ==
  ASSUME IInv, NEW c \in Clients, Commit(c)
  PROVE  Abstract!Publish(c) \/ Abstract!Restore(c)
<1>1. /\ TypeOK /\ pc[c] = "writing" /\ UNCHANGED req
      /\ pc' = [pc EXCEPT ![c] = "committed"]
  BY DEF IInv, StoreInv, Commit
<1>2. /\ held[c] \in Specs /\ held[c].name = req[c].name
      /\ req[c].name \in Names
      /\ AbstractLog' = [AbstractLog EXCEPT ![req[c].name] = Append(@, held[c])]
  BY CommitWrites, CommitAppends
<1>3. /\ AbstractStatus[c] = "pending"
      /\ AbstractStatus' = [AbstractStatus EXCEPT ![c] = "ok"]
  BY <1>1, StatusStep DEF StatusOf, AbstractStatus
<1>4. CASE req[c].op = "put"
  <2>1. held[c].body = req[c].body
    BY <1>1, <1>4 DEF IInv, StoreInv, HandlersHold
  <2>2. held[c] = Abstract!SpecOf(req[c].name, req[c].body)
    BY <1>2, <2>1 DEF Specs, Abstract!SpecOf
  <2>3. Abstract!Publish(c)
    BY <1>1, <1>2, <1>3, <1>4, <2>2
    DEF Abstract!Publish, AbstractLog, AbstractStatus
  <2> QED BY <2>3
<1>5. CASE req[c].op = "rollback"
  <2>1. held[c] = GetVersion(req[c].name, req[c].version)
    BY <1>1, <1>5 DEF IInv, StoreInv, HeldSpecStillStored
  <2>2. /\ req[c].version \in Stored(req[c].name)
        /\ held[c] = history[req[c].name][req[c].version]
    BY <2>1, <1>2, NoSpecIsNone, FoundVersion DEF IInv, StoreInv
  <2>3. /\ req[c].version \in 1..Len(LogOf(req[c].name))
        /\ held[c] = LogOf(req[c].name)[req[c].version]
    BY <2>2, <1>2, LogLength, StoredUpToLast DEF IInv, StoreInv
  <2>4. Abstract!Restore(c)
    BY <1>1, <1>2, <1>3, <1>5, <2>3
    DEF Abstract!Restore, AbstractLog, AbstractStatus
  <2> QED BY <2>4
<1>6. req[c].op \in {"put", "rollback"}
  BY <1>1 DEF IInv, StoreInv, HandlersHold
<1> QED BY <1>4, <1>5, <1>6

(* A handler fails only where the abstract store may fail the request.     *)
LEMMA FailRefines ==
  ASSUME IInv, NEW c \in Clients, RollbackNotFound(c) \/ Reject(c)
  PROVE  Abstract!Fail(c)
<1>1. /\ TypeOK /\ pc[c] \in {"reading", "writing"}
      /\ pc' = [pc EXCEPT ![c] = "failed"]
      /\ UNCHANGED <<latest, history, req>>
  BY DEF IInv, StoreInv, RollbackNotFound, Reject
<1>2. /\ AbstractStatus[c] = "pending"
      /\ AbstractStatus' = [AbstractStatus EXCEPT ![c] = "failed"]
  BY <1>1, StatusStep DEF StatusOf, AbstractStatus
<1>3. \/ req[c].name = NoName
      \/ /\ req[c].name \in Names
         /\ req[c].op = "rollback"
         /\ req[c].version \notin 1..Len(LogOf(req[c].name))
  <2>1. CASE Reject(c)
    BY <2>1 DEF Reject, IInv, StoreInv, HandlersHold
  <2>2. CASE RollbackNotFound(c) /\ req[c].name # NoName
    <3>1. req[c].name \in Names /\ req[c].op = "rollback"
      BY <2>2, <1>1 DEF TypeOK, Requests, Addresses, RollbackNotFound, IInv, StoreInv, HandlersHold
    <3>2. req[c].version \notin Stored(req[c].name)
      BY <2>2, <3>1 DEF RollbackNotFound, GetVersion, Stored
    <3>3. /\ Stored(req[c].name) = 1..LastVersion(req[c].name)
          /\ Len(LogOf(req[c].name)) = LastVersion(req[c].name)
      BY <3>1, LogLength, StoredUpToLast DEF IInv, StoreInv
    <3> QED BY <3>1, <3>2, <3>3
  <2> QED BY <2>1, <2>2
<1>4. AbstractLog' = AbstractLog
  BY <1>1, SameLog
<1>5. req[c].name \in Names => AbstractLog[req[c].name] = LogOf(req[c].name)
  BY DEF AbstractLog
<1> QED BY <1>1, <1>2, <1>3, <1>4, <1>5
        DEF Abstract!Fail, AbstractLog, AbstractStatus

LEMMA InitRefines == Init => Abstract!Init
<1> SUFFICES ASSUME Init PROVE Abstract!Init
  OBVIOUS
<1>1. \A n \in Names : LogOf(n) = <<>>
  <2> SUFFICES ASSUME NEW n \in Names PROVE LogOf(n) = <<>>
    OBVIOUS
  <2>1. Stored(n) = {}
    BY DEF Init, Stored
  <2>2. LastVersion(n) = 0
    BY <2>1 DEF LastVersion
  <2> QED BY <2>2 DEF LogOf
<1>2. \A c \in Clients : StatusOf(pc[c]) = "idle"
  BY DEF Init, StatusOf
<1> QED BY <1>1, <1>2 DEF Init, Abstract!Init, NoRequest, Abstract!NoRequest

(* Every step of the server is a step of the abstract store, or leaves its *)
(* state as it is.                                                         *)
LEMMA NextRefines ==
  ASSUME IInv, [Next]_vars
  PROVE  [Abstract!Next]_(Abstract!vars)
<1> DEFINE Same == UNCHANGED <<AbstractLog, req, AbstractStatus>>
<1>0. TypeOK
  BY DEF IInv, StoreInv
<1>a. Same => UNCHANGED Abstract!vars
  BY DEF Abstract!vars, AbstractLog, AbstractStatus
<1>1. CASE UNCHANGED vars \/ Restart
  <2>1. UNCHANGED <<latest, history, pc, req>>
    BY <1>1 DEF vars, Restart
  <2>2. Same
    BY <2>1, SameLog DEF AbstractStatus
  <2> QED BY <2>2, <1>a
<1>2. CASE Crash
  <2>1. AbstractStatus' = [c \in Clients |-> "idle"]
    BY <1>2 DEF Crash, AbstractStatus, StatusOf
  <2>2. AbstractLog' = AbstractLog
    BY <1>2, SameLog DEF Crash
  <2>3. Abstract!Crash
    BY <1>2, <2>1, <2>2
    DEF Crash, Abstract!Crash, AbstractStatus, AbstractLog, NoRequest, Abstract!NoRequest
  <2> QED BY <2>3 DEF Abstract!Next
<1>3. ASSUME NEW c \in Clients, NEW n \in Addresses, NEW s \in Specs,
             PutRequest(c, n, s)
      PROVE  Abstract!Next
  <2>1. /\ AbstractStatus[c] = "idle"
        /\ AbstractStatus' = [AbstractStatus EXCEPT ![c] = "pending"]
    BY <1>0, <1>3, StatusStep DEF PutRequest, StatusOf, AbstractStatus
  <2>2. AbstractLog' = AbstractLog
    BY <1>3, SameLog DEF PutRequest
  <2>3. s.body \in Bodies
    BY DEF Specs
  <2>4. Abstract!Ask(c, "put", n, s.body, 0)
    BY <1>3, <2>1, <2>2 DEF PutRequest, Abstract!Ask, AbstractStatus, AbstractLog
  <2> QED BY <2>3, <2>4 DEF Abstract!Next, Addresses
<1>4. ASSUME NEW c \in Clients, NEW n \in Addresses, NEW v \in 0..MaxVersion,
             RollbackRequest(c, n, v)
      PROVE  Abstract!Next
  <2>1. /\ AbstractStatus[c] = "idle"
        /\ AbstractStatus' = [AbstractStatus EXCEPT ![c] = "pending"]
    BY <1>0, <1>4, StatusStep DEF RollbackRequest, StatusOf, AbstractStatus
  <2>2. AbstractLog' = AbstractLog
    BY <1>4, SameLog DEF RollbackRequest
  <2>3. Abstract!Ask(c, "rollback", n, NoBody, v)
    BY <1>4, <2>1, <2>2 DEF RollbackRequest, Abstract!Ask, AbstractStatus, AbstractLog
  <2> QED BY <2>3 DEF Abstract!Next, Addresses
<1>5. ASSUME NEW c \in Clients, RollbackRead(c)
      PROVE  Same
  <2>1. /\ pc[c] = "reading" /\ pc' = [pc EXCEPT ![c] = "writing"]
        /\ UNCHANGED <<latest, history, req>>
    BY <1>5 DEF RollbackRead
  <2>2. \A d \in Clients : StatusOf(pc'[d]) = StatusOf(pc[d])
    BY <2>1, <1>0 DEF TypeOK, StatusOf
  <2> QED BY <2>1, <2>2, SameLog DEF AbstractStatus
<1>6. ASSUME NEW c \in Clients, RollbackNotFound(c) \/ Reject(c)
      PROVE  Abstract!Next
  BY <1>6, FailRefines DEF Abstract!Next
<1>7. ASSUME NEW c \in Clients, Commit(c)
      PROVE  Abstract!Next
  BY <1>7, CommitRefines DEF Abstract!Next
<1>8. ASSUME NEW c \in Clients, Reply(c) \/ ReplyLost(c)
      PROVE  Abstract!Next
  <2>1. /\ pc[c] \in {"committed", "failed"}
        /\ pc' = [pc EXCEPT ![c] = "idle"]
        /\ req' = [req EXCEPT ![c] = NoRequest]
        /\ UNCHANGED <<latest, history>>
    BY <1>8 DEF Reply, ReplyLost, Forget
  <2>2. /\ AbstractStatus[c] \in {"ok", "failed"}
        /\ AbstractStatus' = [AbstractStatus EXCEPT ![c] = "idle"]
    BY <1>0, <2>1, StatusStep DEF StatusOf, AbstractStatus
  <2>3. AbstractLog' = AbstractLog
    BY <2>1, SameLog
  <2>4. Abstract!Finish(c)
    BY <2>1, <2>2, <2>3
    DEF Abstract!Finish, AbstractStatus, AbstractLog, NoRequest, Abstract!NoRequest
  <2> QED BY <2>4 DEF Abstract!Next
<1> HIDE DEF Same
<1> QED BY <1>a, <1>1, <1>2, <1>3, <1>4, <1>5, <1>6, <1>7, <1>8 DEF Next, Serve

(* The Recipe database implements the versioned store: each of its steps   *)
(* is one atomic put, rollback or failure of the abstract store, though    *)
(* the code reads and writes in two transactions.                          *)
THEOREM RecipeDBImplementsVersionedStore == Spec => ImplementsVersionedStore
BY InitRefines, NextRefines, Invariance, PTL
DEF Spec, ImplementsVersionedStore, Abstract!Spec
=============================================================================
