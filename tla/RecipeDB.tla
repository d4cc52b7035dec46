------------------------------ MODULE RecipeDB ------------------------------
(***************************************************************************)
(* The Recipe database (recipedb/store.go) behind recipesource.Store and   *)
(* the HTTP handlers that write to it: two buckets of one bbolt file, one  *)
(* with the latest spec of each name and one with every version of it.     *)
(*                                                                         *)
(* A bbolt Update is one atomic, durable step and Updates exclude each     *)
(* other; everything between two transactions of a request is memory of    *)
(* its handler's goroutine, lost in a crash.  A put is one transaction, a  *)
(* rollback is two: a read of the old version, then a put of what was read.*)
(***************************************************************************)
EXTENDS Integers, FiniteSetsExt

CONSTANTS Names,        \* the Recipe names
          NoName,       \* the empty name
          Bodies,       \* what a spec holds beside its name
          NoBody,       \* the body of no spec
          Clients,      \* requests in flight, each served by a goroutine
          MaxVersion    \* BOUND: versions of one name

ASSUME NoNameAssumption == NoName \notin Names
ASSUME NoBodyAssumption == NoBody \notin Bodies
ASSUME MaxVersionAssumption == MaxVersion \in Nat

Addresses == Names \cup {NoName}
Versions == 1..MaxVersion

(* A spec carries its own name, which need not be the address it is put at. *)
Specs == [name : Addresses, body : Bodies]
NoSpec == [name |-> NoName, body |-> NoBody]

Requests == [op      : {"none", "put", "rollback", "delete"},
             name    : Addresses,
             body    : Bodies \cup {NoBody},
             version : 0..MaxVersion]
NoRequest == [op |-> "none", name |-> NoName, body |-> NoBody, version |-> 0]

VARIABLES latest,    \* bucket "recipes": latest[n], or NoSpec
          history,   \* bucket "recipe_versions": history[n][v], or NoSpec
          up,        \* the server process is running
          pc,        \* pc[c]: where the handler of c stands
          req,       \* req[c]: the request it serves
          held,      \* held[c]: the spec it has in memory, to be written
          acked      \* ghost: the specs whose write was answered with success

db == <<latest, history>>
handlers == <<pc, req, held>>
vars == <<latest, history, up, pc, req, held, acked>>

-----------------------------------------------------------------------------
(* The operations of the store, each one bbolt transaction.                *)

Stored(n) == {v \in Versions : history[n][v] # NoSpec}

LastVersion(n) == IF Stored(n) = {} THEN 0 ELSE Max(Stored(n))

(* Mutants of NextVersion: one number sequence shared by all the names;    *)
(* counting from the first key of the bucket instead of the last.          *)
SharedSequence(n) == Max({0} \cup UNION {Stored(m) : m \in Names}) + 1
AfterFirstKey(n) == IF Stored(n) = {} THEN 1 ELSE Min(Stored(n)) + 1

NextVersion(n) == LastVersion(n) + 1

(* Mutants of Write: the latest spec is set only for a new name; the       *)
(* history keeps the specs without their name.                             *)
WriteLatestOnce(s) ==
  /\ latest' = [latest EXCEPT ![s.name] = IF @ = NoSpec THEN s ELSE @]
  /\ history' = [history EXCEPT ![s.name] =
                   [@ EXCEPT ![NextVersion(s.name)] = s]]
WriteNameless(s) ==
  /\ latest' = [latest EXCEPT ![s.name] = s]
  /\ history' = [history EXCEPT ![s.name] =
                   [@ EXCEPT ![NextVersion(s.name)] = [s EXCEPT !.name = NoName]]]

(* What recipedb.Put's transaction does with a spec: it is keyed by the    *)
(* spec's own name in both buckets.                                        *)
Write(s) ==
  /\ latest' = [latest EXCEPT ![s.name] = s]
  /\ history' = [history EXCEPT ![s.name] =
                   [@ EXCEPT ![NextVersion(s.name)] = s]]

(* Delete's transaction: the name is gone from both buckets.               *)
Erase(n) ==
  /\ latest' = [latest EXCEPT ![n] = NoSpec]
  /\ history' = [history EXCEPT ![n] = [v \in Versions |-> NoSpec]]

(* Mutant of GetVersion: the version before the one asked for.             *)
GetVersionBefore(n, v) ==
  IF n \in Names /\ v - 1 \in Versions THEN history[n][v - 1] ELSE NoSpec

GetVersion(n, v) ==
  IF n \in Names /\ v \in Versions THEN history[n][v] ELSE NoSpec

(* Mutant of Addressed: the name in the body is left as it is.             *)
AsInBody(n, s) == s

(* recipesource.Put: the address wins over the name in the request's body. *)
Addressed(n, s) == [s EXCEPT !.name = n]

-----------------------------------------------------------------------------
Init ==
  /\ latest = [n \in Names |-> NoSpec]
  /\ history = [n \in Names |-> [v \in Versions |-> NoSpec]]
  /\ up = TRUE
  /\ pc = [c \in Clients |-> "idle"]
  /\ req = [c \in Clients |-> NoRequest]
  /\ held = [c \in Clients |-> NoSpec]
  /\ acked = {}

(* A request reaches its handler; for a put the decoded spec s is renamed  *)
(* to the address and waits for the writer lock of bbolt.                  *)
PutRequest(c, n, s) ==
  /\ up
  /\ pc[c] = "idle"
  /\ pc' = [pc EXCEPT ![c] = "writing"]
  /\ req' = [req EXCEPT ![c] =
               [op |-> "put", name |-> n, body |-> s.body, version |-> 0]]
  /\ held' = [held EXCEPT ![c] = Addressed(n, s)]
  /\ UNCHANGED <<latest, history, up, acked>>

RollbackRequest(c, n, v) ==
  /\ up
  /\ pc[c] = "idle"
  /\ pc' = [pc EXCEPT ![c] = "reading"]
  /\ req' = [req EXCEPT ![c] =
               [op |-> "rollback", name |-> n, body |-> NoBody, version |-> v]]
  /\ UNCHANGED <<latest, history, up, held, acked>>

(* First transaction of a rollback: the old version is read into memory.   *)
RollbackRead(c) ==
  /\ pc[c] = "reading"
  /\ GetVersion(req[c].name, req[c].version) # NoSpec
  /\ pc' = [pc EXCEPT ![c] = "writing"]
  /\ held' = [held EXCEPT ![c] = GetVersion(req[c].name, req[c].version)]
  /\ UNCHANGED <<latest, history, up, req, acked>>

RollbackNotFound(c) ==
  /\ pc[c] = "reading"
  /\ GetVersion(req[c].name, req[c].version) = NoSpec
  /\ pc' = [pc EXCEPT ![c] = "failed"]
  /\ UNCHANGED <<latest, history, up, req, held, acked>>

(* The write transaction of a put, and the second one of a rollback.       *)
Commit(c) ==
  /\ pc[c] = "writing"
  /\ held[c].name # NoName
  /\ NextVersion(held[c].name) \in Versions   \* the bound on versions
  /\ Write(held[c])
  /\ pc' = [pc EXCEPT ![c] = "committed"]
  /\ UNCHANGED <<up, req, held, acked>>

Reject(c) ==
  /\ pc[c] = "writing"
  /\ held[c].name = NoName
  /\ pc' = [pc EXCEPT ![c] = "failed"]
  /\ UNCHANGED <<latest, history, up, req, held, acked>>

Forget(c) ==
  /\ pc' = [pc EXCEPT ![c] = "idle"]
  /\ req' = [req EXCEPT ![c] = NoRequest]
  /\ held' = [held EXCEPT ![c] = NoSpec]

(* Mutant of Reply: the handler clears its memory, then reports from it.   *)
ReplyAfterForget(c) ==
  /\ pc[c] = "committed"
  /\ Forget(c)
  /\ acked' = acked \cup {held'[c]}
  /\ UNCHANGED <<latest, history, up>>

(* The client learns that its write succeeded (204).                       *)
Reply(c) ==
  /\ pc[c] = "committed"
  /\ Forget(c)
  /\ acked' = acked \cup {held[c]}
  /\ UNCHANGED <<latest, history, up>>

(* The client learns of a failure, or its connection is gone by the time   *)
(* the handler answers: the write, if any, stays.                          *)
ReplyLost(c) ==
  /\ pc[c] \in {"committed", "failed"}
  /\ Forget(c)
  /\ UNCHANGED <<latest, history, up, acked>>

Crash ==
  /\ up
  /\ up' = FALSE
  /\ pc' = [c \in Clients |-> "idle"]
  /\ req' = [c \in Clients |-> NoRequest]
  /\ held' = [c \in Clients |-> NoSpec]
  /\ UNCHANGED <<latest, history, acked>>

(* Mutant of Restart: the buckets are created anew.                        *)
RestartEmpty ==
  /\ ~up
  /\ up' = TRUE
  /\ latest' = [n \in Names |-> NoSpec]
  /\ history' = [n \in Names |-> [v \in Versions |-> NoSpec]]
  /\ UNCHANGED <<pc, req, held, acked>>

(* The process starts again: NewStore creates the buckets only if they are *)
(* not there, so what was stored is what is served.                        *)
Restart ==
  /\ ~up
  /\ up' = TRUE
  /\ UNCHANGED <<latest, history, pc, req, held, acked>>

Serve(c) ==
  \/ \E n \in Addresses, s \in Specs : PutRequest(c, n, s)
  \/ \E n \in Addresses, v \in 0..MaxVersion : RollbackRequest(c, n, v)
  \/ RollbackRead(c)
  \/ RollbackNotFound(c)
  \/ Commit(c)
  \/ Reject(c)
  \/ Reply(c)
  \/ ReplyLost(c)

Next == Crash \/ Restart \/ \E c \in Clients : Serve(c)

Spec == Init /\ [][Next]_vars

-----------------------------------------------------------------------------
(* The package also offers Delete, which no HTTP route and no command      *)
(* calls: StoreSpec is the store as a program that links it may use it.    *)

Delete(c, n) ==
  /\ up
  /\ pc[c] = "idle"
  /\ Erase(n)
  /\ pc' = [pc EXCEPT ![c] = "deleted"]
  /\ req' = [req EXCEPT ![c] =
               [op |-> "delete", name |-> n, body |-> NoBody, version |-> 0]]
  /\ UNCHANGED <<up, held, acked>>

DeleteReturn(c) ==
  /\ pc[c] = "deleted"
  /\ Forget(c)
  /\ UNCHANGED <<latest, history, up, acked>>

StoreNext ==
  \/ Next
  \/ \E c \in Clients : (\E n \in Names : Delete(c, n)) \/ DeleteReturn(c)

StoreSpec == Init /\ [][StoreNext]_vars

-----------------------------------------------------------------------------
(* Every variable stays in the set of values its part of the code can hold. *)
TypeOK ==
  /\ latest \in [Names -> Specs \cup {NoSpec}]
  /\ history \in [Names -> [Versions -> Specs \cup {NoSpec}]]
  /\ up \in BOOLEAN
  /\ pc \in [Clients -> {"idle", "reading", "writing", "committed",
                         "failed", "deleted"}]
  /\ req \in [Clients -> Requests]
  /\ held \in [Clients -> Specs \cup {NoSpec}]
  /\ acked \subseteq Specs

(* The two buckets agree whatever requests interleave and whenever the     *)
(* process dies: the spec that Get, List and Resolve work from is the one  *)
(* stored at the highest version (recipedb.Put writes both buckets).       *)
LatestIsNewestVersion ==
  \A n \in Names :
    latest[n] = IF Stored(n) = {} THEN NoSpec ELSE history[n][LastVersion(n)]

(* The versions of a name are 1, 2, ... with no hole, so the number a      *)
(* client reads in the history is the count of writes up to it.            *)
VersionsContiguous ==
  \A n \in Names : \A v \in Stored(n) : \A w \in 1..v : w \in Stored(n)

(* A spec is stored under the name it carries.  Rollback depends on it: it *)
(* puts the spec it read back under the spec's name, not under the name    *)
(* the client addressed.                                                   *)
StoredUnderOwnName ==
  \A n \in Names : \A v \in Stored(n) : history[n][v].name = n

(* Between the two transactions of a rollback, the version that was read   *)
(* is still the one in the store: nothing the server does makes the spec   *)
(* in the handler's memory stale.                                          *)
HeldSpecStillStored ==
  \A c \in Clients :
    pc[c] = "writing" /\ req[c].op = "rollback"
      => held[c] = GetVersion(req[c].name, req[c].version)

(* A write that was answered with success is in the history for ever, also *)
(* across crashes and later writes of others.                              *)
AckedWritesSurvive ==
  \A s \in acked : s.name \in Names /\ \E v \in Versions : history[s.name][v] = s

(* A write never overwrites history (package comment of recipedb): no step *)
(* changes or drops a version that is there.                               *)
KeepsHistory ==
  \A n \in Names : \A v \in Stored(n) : history'[n][v] = history[n][v]
HistoryAppendOnly == [][KeepsHistory]_vars

(* Whatever a request's body or the stored spec says its name is, only the *)
(* Recipe that the client addressed changes.                               *)
TouchesOnlyAddressed ==
  \A n \in Names :
    \/ latest'[n] = latest[n] /\ history'[n] = history[n]
    \/ \E c \in Clients : pc'[c] # pc[c] /\ req'[c].name = n
WritesOnlyAddressed == [][TouchesOnlyAddressed]_vars

-----------------------------------------------------------------------------
(* The store implements VersionedStore, in which a rollback is atomic.     *)

LogOf(n) == [v \in 1..LastVersion(n) |-> history[n][v]]

StatusOf(p) ==
  CASE p = "idle" -> "idle"
    [] p \in {"reading", "writing"} -> "pending"
    [] p = "committed" -> "ok"
    [] OTHER -> "failed"

Abstract == INSTANCE VersionedStore
  WITH Numbers <- 0..MaxVersion,
       log <- [n \in Names |-> LogOf(n)],
       request <- req,
       status <- [c \in Clients |-> StatusOf(pc[c])]

(* Each step of the server is one step of the abstract store, or none: in  *)
(* particular the two transactions of a rollback act as one.               *)
ImplementsVersionedStore == Abstract!Spec
=============================================================================
