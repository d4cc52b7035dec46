--------------------------- MODULE VersionedStore ---------------------------
(***************************************************************************)
(* What configblender's Recipe database promises, whatever is inside it:   *)
(* one log of specs per Recipe name, where a put and a rollback are each   *)
(* ONE atomic step that appends to the log of the name they address, and   *)
(* where nothing is ever rewritten (package comment of recipedb/store.go). *)
(*                                                                         *)
(* A client has one request outstanding at a time.  A crash of the server  *)
(* forgets the requests, never the logs.                                   *)
(***************************************************************************)
EXTENDS Naturals, Sequences

CONSTANTS Names,      \* the Recipe names
          NoName,     \* the empty name, which no Recipe may have
          Bodies,     \* what a spec holds beside its name: layers, merge policy
          NoBody,     \* the body of no spec
          Clients,    \* concurrent requests to the store
          Numbers     \* the version numbers a client may ask for

VARIABLES log,       \* log[n]: the specs of n, oldest first
          request,   \* request[c]: what c asks for
          status     \* status[c]: where its request stands

vars == <<log, request, status>>

SpecOf(n, b) == [name |-> n, body |-> b]

NoRequest == [op |-> "none", name |-> NoName, body |-> NoBody, version |-> 0]

Init ==
  /\ log = [n \in Names |-> <<>>]
  /\ request = [c \in Clients |-> NoRequest]
  /\ status = [c \in Clients |-> "idle"]

Ask(c, op, n, b, v) ==
  /\ status[c] = "idle"
  /\ request' = [request EXCEPT ![c] =
                   [op |-> op, name |-> n, body |-> b, version |-> v]]
  /\ status' = [status EXCEPT ![c] = "pending"]
  /\ UNCHANGED log

(* The put takes effect: its body becomes the newest version of the name.  *)
Publish(c) ==
  /\ status[c] = "pending"
  /\ request[c].op = "put"
  /\ request[c].name \in Names
  /\ log' = [log EXCEPT ![request[c].name] =
               Append(@, SpecOf(request[c].name, request[c].body))]
  /\ status' = [status EXCEPT ![c] = "ok"]
  /\ UNCHANGED request

(* The rollback takes effect: what the log holds NOW at the version asked  *)
(* for becomes the newest version too.                                     *)
Restore(c) ==
  /\ status[c] = "pending"
  /\ request[c].op = "rollback"
  /\ request[c].name \in Names
  /\ request[c].version \in 1..Len(log[request[c].name])
  /\ log' = [log EXCEPT ![request[c].name] =
               Append(@, log[request[c].name][request[c].version])]
  /\ status' = [status EXCEPT ![c] = "ok"]
  /\ UNCHANGED request

(* A request fails only for a reason: the empty name, or a version that    *)
(* does not exist.                                                         *)
Fail(c) ==
  /\ status[c] = "pending"
  /\ \/ request[c].name = NoName
     \/ /\ request[c].op = "rollback"
        /\ request[c].version \notin 1..Len(log[request[c].name])
  /\ status' = [status EXCEPT ![c] = "failed"]
  /\ UNCHANGED <<log, request>>

Finish(c) ==
  /\ status[c] \in {"ok", "failed"}
  /\ status' = [status EXCEPT ![c] = "idle"]
  /\ request' = [request EXCEPT ![c] = NoRequest]
  /\ UNCHANGED log

Crash ==
  /\ request' = [c \in Clients |-> NoRequest]
  /\ status' = [c \in Clients |-> "idle"]
  /\ UNCHANGED log

Next ==
  \/ \E c \in Clients :
       \/ \E n \in Names \cup {NoName}, b \in Bodies : Ask(c, "put", n, b, 0)
       \/ \E n \in Names \cup {NoName}, v \in Numbers : Ask(c, "rollback", n, NoBody, v)
       \/ Publish(c)
       \/ Restore(c)
       \/ Fail(c)
       \/ Finish(c)
  \/ Crash

Spec == Init /\ [][Next]_vars
=============================================================================
