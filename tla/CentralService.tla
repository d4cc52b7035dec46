---------------------------- MODULE CentralService ----------------------------
(***************************************************************************)
(* The central service as its callers meet it.  A process has the same     *)
(* operations (recipesource.Store) in two ways: in its own memory, with    *)
(* the database file opened for one command, or through the HTTP client    *)
(* and the server.  The file is locked by whoever has it open, and opening *)
(* it waits for the lock without a timeout.  Writes through the server     *)
(* need the configured token, as a bearer or proven by a session cookie,   *)
(* of which the server keeps nothing but the token it signs with.          *)
(*                                                                         *)
(* The server ends at any time and is started again, with the same token,  *)
(* another one or none; connections break; time passes.  Each operation of *)
(* the store is one step here: module RecipeDB shows that of rollbacks,    *)
(* the only ones of two transactions, and Resolution takes resolves apart. *)
(***************************************************************************)
EXTENDS Integers, Sequences, FiniteSets

CONSTANTS RecipeNames, SourceNames, Bodies, Repos,
          Needs,         \* Needs[u]: how a repository authenticates its readers
          Tokens, NoToken,
          Browsers, Processes,
          Bearers,       \* tokens that processes have; a command has NoToken
          BrowserOps, LocalOps, RemoteOps,    \* what they ask for
          Nothing, NoOne,
          TTL,           \* lifetime of a session
          MaxVersions,   \* BOUND: versions of a Recipe
          MaxTime        \* BOUND: the clock

Clients == Browsers \cup Processes

(* A Git source: its repository and the credentials that are not empty.    *)
Fields == {"username", "password", "key"}
Entries == [repo : Repos, creds : SUBSET Fields]

Op(do, name, arg) == [do |-> do, name |-> name, arg |-> arg]

(* The operations on Recipes, those on Git sources, and those about the    *)
(* session of a browser.                                                   *)
RecipeOps ==
  {Op("list", Nothing, Nothing)}
    \cup {Op(do, n, Nothing) : do \in {"get", "history", "resolve"}, n \in RecipeNames}
    \cup {Op(do, n, v) : do \in {"version", "rollback"}, n \in RecipeNames,
                         v \in 1..MaxVersions}
    \cup {Op("put", n, b) : n \in RecipeNames, b \in Bodies}

SourceOps ==
  {Op("listSources", Nothing, Nothing)}
    \cup {Op("putSource", n, e) : n \in SourceNames, e \in Entries}
    \cup {Op("deleteSource", n, Nothing) : n \in SourceNames}
    \cup {Op("testSource", Nothing, e) : e \in Entries}

SessionOps ==
  {Op(do, Nothing, Nothing) : do \in {"logout", "session"}}
    \cup {Op("login", Nothing, t) : t \in Tokens}

Operations == RecipeOps \cup SourceOps \cup SessionOps
Writes == {"put", "rollback", "putSource", "deleteSource"}

ASSUME TokensAssumption == NoToken \notin Tokens /\ Bearers \subseteq Tokens \cup {NoToken}
ASSUME OpsAssumption ==
  /\ BrowserOps \subseteq Operations
  /\ LocalOps \cup RemoteOps \subseteq RecipeOps \cup SourceOps
ASSUME NeedsAssumption == Needs \in [Repos -> {"none", "basic", "ssh"}]
ASSUME ClientsAssumption == IsFiniteSet(Clients)    \* for the BOUND MaxVersions
ASSUME NoOneAssumption == NoOne \notin Clients \cup {"server"} /\ "server" \notin Clients
ASSUME BoundsAssumption == TTL \in Nat \ {0} /\ MaxVersions \in Nat /\ MaxTime \in Nat

VARIABLES db,       \* [log, sources]: the database file
          holder,   \* who has the file open: the server, as long as it runs,
                    \* or a command
          token,    \* CONFIGBLENDER_WRITE_TOKEN of the server
          now,      \* the clock
          jar,      \* jar[b]: the session cookie of browser b
          call      \* call[c]: what client c is doing

vars == <<db, holder, token, now, jar, call>>

(* A cookie: its expiry, the token its key is derived from, and (ghost)    *)
(* the token that was typed for it and when.                               *)
Cookies == [expires : 0..(MaxTime + TTL), key : Tokens, typed : Tokens, at : 0..MaxTime]
NoCookie == [expires |-> 0, key |-> NoToken, typed |-> NoToken, at |-> 0]

Idle == [at |-> "idle", op |-> Op("none", Nothing, Nothing), bearer |-> NoToken,
         cookie |-> NoCookie, result |-> Nothing]

Init ==
  /\ db = [log |-> [n \in RecipeNames |-> <<>>],
           sources |-> [n \in SourceNames |-> Nothing]]
  /\ holder = NoOne
  /\ token = NoToken
  /\ now = 0
  /\ jar = [b \in Browsers |-> NoCookie]
  /\ call = [c \in Clients |-> Idle]

-----------------------------------------------------------------------------
(* The store.  What credentials authenticate with: basic needs both of its *)
(* halves.                                                                 *)
AuthMethod(creds) ==
  IF {"username", "password"} \subseteq creds THEN "basic"
  ELSE IF "key" \in creds THEN "ssh" ELSE "none"

Connects(e) == Needs[e.repo] \in {"none", AuthMethod(e.creds)}

Ok(v) == [result |-> "ok", value |-> v]
NotFound == [result |-> "not found", value |-> Nothing]
Error == [result |-> "error", value |-> Nothing]

Names == {n \in RecipeNames : db.log[n] # <<>>}
Latest(n) == db.log[n][Len(db.log[n])]
Registered == {n \in SourceNames : db.sources[n] # Nothing}

(* What the store answers; net: the Git remotes answer, and the layers     *)
(* resolve.                                                                *)
Answer(op, net) ==
  LET log == db.log[op.name]
      found == CASE op.do \in {"get", "history", "resolve"} -> op.name \in Names
                 [] op.do \in {"version", "rollback"} -> op.arg \in DOMAIN log
                 [] OTHER -> TRUE
      answer == CASE op.do = "list" -> Ok(Names)
                  [] op.do = "get" -> Ok(Latest(op.name))
                  [] op.do = "history" -> Ok(DOMAIN log)
                  [] op.do = "version" -> Ok(log[op.arg])
                  [] op.do = "resolve" -> IF net THEN Ok(Latest(op.name)) ELSE Error
                  [] op.do = "listSources" ->
                       Ok({<<n, db.sources[n]>> : n \in Registered})
                  [] op.do = "testSource" ->
                       IF net /\ Connects(op.arg) THEN Ok(Nothing) ELSE Error
                  [] OTHER -> Ok(Nothing)
  IN IF found THEN answer ELSE NotFound

Effect(op) ==
  CASE op.do = "put" -> [db EXCEPT !.log[op.name] = Append(@, op.arg)]
    [] op.do = "rollback" -> [db EXCEPT !.log[op.name] = Append(@, @[op.arg])]
    [] op.do = "putSource" -> [db EXCEPT !.sources[op.name] = op.arg]
    [] op.do = "deleteSource" -> [db EXCEPT !.sources[op.name] = Nothing]
    [] OTHER -> db

After(op, answer) == IF answer.result = "ok" THEN Effect(op) ELSE db

(* A listing of sources shows names and repositories, never credentials.   *)
Shown(op, v) ==
  IF op.do = "listSources" THEN {<<s[1], s[2].repo>> : s \in v} ELSE v

-----------------------------------------------------------------------------
(* A command on a local database: open the file, which waits for its lock, *)
(* operate, close, and report (Reported) what the store answered.          *)
(* BOUND: writes that would exceed MaxVersions are not asked for.          *)
Room(op) ==
  op.do \in {"put", "rollback"} =>
    Len(db.log[op.name]) +
      Cardinality({c \in Clients : call[c].at # "idle" /\ call[c].op.name = op.name})
      < MaxVersions

(* The flags of a command become credentials: user name and password, when *)
(* either is given, and the key otherwise.                                 *)
Credentials(flags) ==
  LET basic == flags \cap {"username", "password"}
  IN IF basic # {} THEN basic ELSE flags

Command(op) ==
  IF op.do \in {"putSource", "testSource"}
  THEN [op EXCEPT !.arg.creds = Credentials(@)] ELSE op

(* Commands put and roll back in a local database only.                    *)
RemoteCommands == {op \in RecipeOps \cup SourceOps : op.do \notin {"put", "rollback"}}

StartLocal(c, op) ==
  /\ call[c].at = "idle"
  /\ Room(op)
  /\ call' = [call EXCEPT ![c].at = "opening", ![c].op = Command(op)]
  /\ UNCHANGED <<db, holder, token, now, jar>>

OpenFile(c) ==
  /\ call[c].at = "opening"
  /\ holder = NoOne
  /\ holder' = c
  /\ call' = [call EXCEPT ![c].at = "operating"]
  /\ UNCHANGED <<db, token, now, jar>>

Finish(c) == call' = [call EXCEPT ![c] = Idle]

Failed == [result |-> "failed", value |-> Nothing]
Reported(op, answer) ==
  IF answer.result = "ok" THEN Ok(Shown(op, answer.value)) ELSE Failed

(* Mutants of Operate: the file is not closed; the registry of sources is  *)
(* opened as a second database on the same file.                           *)
OperateWithoutClose(c, net) ==
  LET op == call[c].op IN
  /\ call[c].at = "operating"
  /\ db' = After(op, Answer(op, net))
  /\ Finish(c)
  /\ UNCHANGED <<holder, token, now, jar>>
OperateAfterSecondOpen(c, net) ==
  LET op == call[c].op IN
  /\ call[c].at = "operating"
  /\ op \in SourceOps => holder = NoOne
  /\ db' = After(op, Answer(op, net))
  /\ holder' = NoOne
  /\ Finish(c)
  /\ UNCHANGED <<token, now, jar>>

Operate(c, net) ==
  LET op == call[c].op IN
  /\ call[c].at = "operating"
  /\ db' = After(op, Answer(op, net))
  /\ holder' = NoOne
  /\ Finish(c)
  /\ UNCHANGED <<token, now, jar>>

(* A command is killed: the operating system closes its file.              *)
Kill(c) ==
  /\ call[c].at \in {"opening", "operating"}
  /\ holder' = IF holder = c THEN NoOne ELSE holder
  /\ Finish(c)
  /\ UNCHANGED <<db, token, now, jar>>

-----------------------------------------------------------------------------
(* The client: an operation becomes a request.                             *)
RecipesPath == <<"recipes">>
SourcesPath == <<"sources">>
TestConnectionPath == Append(SourcesPath, "test")

Req(method, path, query, body) ==
  [method |-> method, path |-> path, query |-> query, body |-> body]

ReadRequest(op) ==
  CASE op.do = "list" -> Req("GET", RecipesPath, Nothing, Nothing)
    [] op.do = "get" -> Req("GET", RecipesPath \o <<op.name>>, Nothing, Nothing)
    [] op.do = "history" -> Req("GET", RecipesPath \o <<op.name, "versions">>, Nothing, Nothing)
    [] op.do = "version" ->
         Req("GET", RecipesPath \o <<op.name, "versions", op.arg>>, Nothing, Nothing)

ResolveRequest(op) == Req("GET", <<"resolve">>, op.name, Nothing)

WriteRequest(op) ==
  IF op.do = "put" THEN Req("PUT", RecipesPath \o <<op.name>>, Nothing, op.arg)
  ELSE Req("POST", RecipesPath \o <<op.name, "rollback">>, Nothing, op.arg)

SourceRequest(op) ==
  CASE op.do = "listSources" -> Req("GET", SourcesPath, Nothing, Nothing)
    [] op.do = "putSource" -> Req("PUT", SourcesPath \o <<op.name>>, Nothing, op.arg)
    [] op.do = "deleteSource" -> Req("DELETE", SourcesPath \o <<op.name>>, Nothing, Nothing)
    [] op.do = "testSource" -> Req("POST", TestConnectionPath, Nothing, op.arg)

SessionRequest(op) ==
  IF op.do = "session" THEN Req("GET", <<"session">>, Nothing, Nothing)
  ELSE Req("POST", <<op.do>>, Nothing, op.arg)

Request(op) ==
  CASE op \in SessionOps -> SessionRequest(op)
    [] op \in SourceOps -> SourceRequest(op)
    [] op.do = "resolve" -> ResolveRequest(op)
    [] op.do \in {"put", "rollback"} -> WriteRequest(op)
    [] OTHER -> ReadRequest(op)

(* A program sends the token it has with every request, a browser its      *)
(* cookie.  A command has no token.                                        *)
Send(c, op, bearer) ==
  /\ call[c].at = "idle"
  /\ Room(op)
  /\ call' = [call EXCEPT
       ![c] = [at |-> "sent", op |-> op, bearer |-> bearer, result |-> Nothing,
               cookie |-> IF c \in Browsers THEN jar[c] ELSE NoCookie]]
  /\ UNCHANGED <<db, holder, token, now, jar>>

StartRemote(c, op, bearer) ==
  IF bearer = NoToken THEN op \in RemoteCommands /\ Send(c, Command(op), NoToken)
  ELSE Send(c, op, bearer)

(* The answer is decoded: anything but the expected status is a failure,   *)
(* whatever it was, and so is a connection that could not be tested.       *)
Outcome(op, response) ==
  LET expected == IF op.do \in Writes \cup {"login", "logout"} THEN 204 ELSE 200
      tested == op.do = "testSource"
  IN IF response.status # expected \/ (tested /\ ~response.body) THEN Failed
     ELSE Ok(IF tested THEN Nothing ELSE response.body)

Receive(c) ==
  /\ call[c].at = "answered"
  /\ Finish(c)
  /\ IF c \in Browsers /\ call[c].op.do \in {"login", "logout"}
     THEN jar' = [jar EXCEPT ![c] = call[c].result.cookie]
     ELSE UNCHANGED jar
  /\ UNCHANGED <<db, holder, token, now>>

(* The connection is refused or breaks; an answer may be lost.             *)
Disconnect(c) ==
  /\ call[c].at \in {"sent", "answered"}
  /\ Finish(c)
  /\ UNCHANGED <<db, holder, token, now, jar>>

ConnectionRefused(c) == holder # "server" /\ Disconnect(c)

-----------------------------------------------------------------------------
(* The server.                                                             *)
Route(method, pattern, gated, handler) ==
  [method |-> method, pattern |-> pattern, gated |-> gated, handler |-> handler]

Routes ==
  {Route("GET",    <<"resolve">>, FALSE, "resolve"),
   Route("PUT",    <<"recipes", "*">>, TRUE, "put"),
   Route("POST",   <<"recipes", "*", "rollback">>, TRUE, "rollback"),
   Route("GET",    <<"recipes", "*">>, FALSE, "get"),
   Route("GET",    <<"recipes", "*", "versions", "*">>, FALSE, "version"),
   Route("GET",    <<"recipes", "*", "versions">>, FALSE, "history"),
   Route("GET",    <<"recipes">>, FALSE, "list"),
   Route("PUT",    <<"sources", "*">>, TRUE, "putSource"),
   Route("DELETE", <<"sources", "*">>, TRUE, "deleteSource"),
   Route("GET",    <<"sources">>, FALSE, "listSources"),
   Route("POST",   <<"sources", "test">>, TRUE, "testSource"),
   Route("POST",   <<"login">>, FALSE, "login"),
   Route("POST",   <<"logout">>, FALSE, "logout"),
   Route("GET",    <<"session">>, FALSE, "session")}

(* Mutants of Handler: rollbacks are not gated; a version is looked up     *)
(* with the handler of the latest.                                         *)
HandlerUngated ==
  {IF r.handler = "rollback" THEN [r EXCEPT !.gated = FALSE] ELSE r : r \in Routes}
HandlerOfLatest ==
  {IF r.handler = "version" THEN [r EXCEPT !.handler = "get"] ELSE r : r \in Routes}

Handler == Routes

Matches(r, req) ==
  /\ r.method = req.method
  /\ Len(r.pattern) = Len(req.path)
  /\ \A i \in DOMAIN r.pattern : r.pattern[i] = "*" \/ r.pattern[i] = req.path[i]

RouteOf == [op \in Operations |-> CHOOSE r \in Handler : Matches(r, Request(op))]

(* What a handler makes of the request: its name is in the path or in the  *)
(* query, its argument in the path or in the body.                         *)
Decoded ==
  [op \in Operations |->
     LET req == Request(op) IN
     Op(RouteOf[op].handler,
        IF Len(req.path) > 1 THEN req.path[2] ELSE req.query,
        IF Len(req.path) = 4 THEN req.path[4] ELSE req.body)]

(* Mutant of Valid: the expiry is not compared.                            *)
ValidForever(k) == k # NoCookie /\ k.key = token

(* A cookie is valid until it expires, if the key that signed it is the    *)
(* one derived from the token of now.                                      *)
Valid(k) == now < k.expires /\ k.key = token

(* requireToken: no token configured, no writes; else a session or bearer. *)
Admitted(k, bearer) ==
  /\ token # NoToken
  /\ Valid(k) \/ (bearer # NoToken /\ bearer = token)

Arrived(c, handlers) ==
  /\ holder = "server"
  /\ call[c].at = "sent"
  /\ RouteOf[call[c].op].handler \in handlers

Respond(c, status, body, cookie) ==
  /\ call' = [call EXCEPT
       ![c] = [at |-> "answered", op |-> @.op, bearer |-> NoToken, cookie |-> NoCookie,
               result |-> [status |-> status, body |-> body, cookie |-> cookie]]]
  /\ UNCHANGED <<holder, token, now, jar>>

Refuse(c) ==
  /\ holder = "server"
  /\ call[c].at = "sent"
  /\ RouteOf[call[c].op].gated
  /\ ~Admitted(call[c].cookie, call[c].bearer)
  /\ Respond(c, IF token = NoToken THEN 403 ELSE 401, Nothing, NoCookie)
  /\ UNCHANGED db

(* The handlers of the store; an error's kind becomes a status.            *)
Status(op, answer) ==
  CASE answer.result = "ok" -> IF op.do \in Writes THEN 204 ELSE 200
    [] answer.result = "not found" -> 404
    [] answer.result = "error" -> IF op.do = "testSource" THEN 200 ELSE 500

Body(op, answer) ==
  IF op.do = "testSource" THEN answer.result = "ok"
  ELSE IF answer.result = "ok" THEN Shown(op, answer.value) ELSE Nothing

Handle(c, net) ==
  LET op == Decoded[call[c].op]
      answer == Answer(op, net)
  IN
  /\ Arrived(c, {o.do : o \in RecipeOps \cup SourceOps})
  /\ RouteOf[call[c].op].gated => Admitted(call[c].cookie, call[c].bearer)
  /\ db' = After(op, answer)
  /\ Respond(c, Status(op, answer), Body(op, answer), NoCookie)

(* The token is exchanged for a cookie; a login that fails sets none, and  *)
(* leaves the browser with the one it has.                                 *)
HandleLogin(c) ==
  LET typed == Decoded[call[c].op].arg IN
  /\ Arrived(c, {"login"})
  /\ IF token # NoToken /\ typed = token
     THEN Respond(c, 204, Nothing,
            [expires |-> now + TTL, key |-> token, typed |-> typed, at |-> now])
     ELSE Respond(c, IF token = NoToken THEN 403 ELSE 401, Nothing, jar[c])
  /\ UNCHANGED db

HandleLogout(c) ==
  /\ Arrived(c, {"logout"})
  /\ Respond(c, 204, Nothing, NoCookie)
  /\ UNCHANGED db

HandleSession(c) ==
  /\ Arrived(c, {"session"})
  /\ Respond(c, 200, Valid(call[c].cookie), NoCookie)
  /\ UNCHANGED db

-----------------------------------------------------------------------------
(* The process of the server: it waits for the file, then listens.         *)
Boot(t) ==
  /\ holder = NoOne
  /\ holder' = "server"
  /\ token' = t
  /\ UNCHANGED <<db, now, jar, call>>

(* It ends, with the requests it has not answered.                         *)
Crash ==
  /\ holder = "server"
  /\ holder' = NoOne
  /\ token' = NoToken
  /\ call' = [c \in Clients |-> IF call[c].at = "sent" THEN Idle ELSE call[c]]
  /\ UNCHANGED <<db, now, jar>>

Tick ==
  /\ now < MaxTime
  /\ now' = now + 1
  /\ UNCHANGED <<db, holder, token, jar, call>>

Serve(c) ==
  \/ Refuse(c)
  \/ \E net \in BOOLEAN : Handle(c, net)
  \/ HandleLogin(c)
  \/ HandleLogout(c)
  \/ HandleSession(c)

Next ==
  \/ \E c \in Processes :
       \/ \E op \in LocalOps : StartLocal(c, op)
       \/ \E op \in RemoteOps, t \in Bearers : StartRemote(c, op, t)
       \/ OpenFile(c)
       \/ \E net \in BOOLEAN : Operate(c, net)
       \/ Kill(c)
  \/ \E c \in Browsers, op \in BrowserOps : Send(c, op, NoToken)
  \/ \E c \in Clients : Serve(c) \/ Receive(c) \/ Disconnect(c)
  \/ \E t \in Tokens \cup {NoToken} : Boot(t)
  \/ Crash
  \/ Tick

Spec == Init /\ [][Next]_vars

(* Goroutines are scheduled, answers and refusals arrive, and a file that  *)
(* stays free is found so by whoever polls its lock.                       *)
Proceed(c) ==
  \/ Serve(c) \/ Receive(c) \/ ConnectionRefused(c)
  \/ c \in Processes /\ (OpenFile(c) \/ \E net \in BOOLEAN : Operate(c, net))

Fairness == \A c \in Clients : WF_vars(Proceed(c))

FairSpec == Spec /\ Fairness

-----------------------------------------------------------------------------
(* The variables keep their types; a command operates exactly while it has *)
(* the file open.                                                          *)
TypeOK ==
  /\ \A n \in RecipeNames : db.log[n] \in Seq(Bodies) /\ Len(db.log[n]) <= MaxVersions
  /\ db.sources \in [SourceNames -> Entries \cup {Nothing}]
  /\ holder \in Processes \cup {NoOne, "server"}
  /\ \A c \in Processes : call[c].at = "operating" <=> holder = c
  /\ token # NoToken => holder = "server"
  /\ token \in Tokens \cup {NoToken}
  /\ now \in 0..MaxTime
  /\ jar \in [Browsers -> Cookies \cup {NoCookie}]
  /\ \A c \in Clients :
       /\ call[c].at \in {"idle", "opening", "operating", "sent", "answered"}
       /\ call[c].at # "idle" => call[c].op \in Operations
       /\ call[c].cookie \in Cookies \cup {NoCookie}

(* Remote is like local: what a client makes of the server's answer is     *)
(* what the store of that moment answers to the operation the client was   *)
(* called with, and exactly its effect is done; or the write was refused   *)
(* and nothing was done (package comments of centralclient and cli).       *)
Answered(c) == call[c].at = "sent" /\ call'[c].at = "answered"

LikeLocal(c) ==
  LET op == call[c].op
      outcome == Outcome(op, call'[c].result)
  IN \/ \E net \in BOOLEAN :
          outcome = Reported(op, Answer(op, net)) /\ db' = After(op, Answer(op, net))
     \/ op.do \in Writes \cup {"testSource"} /\ outcome = Failed /\ db' = db

RemoteLikeLocal ==
  [][\A c \in Clients : Answered(c) /\ call[c].op \notin SessionOps => LikeLocal(c)]_vars

(* The database changes only by a command that has the file open, or by a  *)
(* request that proves the token of now: as its bearer, or by a cookie     *)
(* that was issued for it less than a session ago, whatever was deployed,  *)
(* restarted, logged in and out since.                                     *)
Proven(c) ==
  LET k == call[c].cookie IN
  /\ token # NoToken
  /\ call[c].bearer = token \/ (k.typed = token /\ now < k.at + TTL)

OnlyProvenWrites ==
  [][db' # db => \E c \in Clients : holder = c \/ (Answered(c) /\ Proven(c))]_vars

(* A browser is logged in exactly while the token that was typed is still  *)
(* the server's and the session's time is not over: restarts of the server *)
(* end no session, a new token ends all, and what the session endpoint     *)
(* says is what the gate of the writes does.                               *)
SessionsHold ==
  \A b \in Browsers :
    LET k == jar[b] IN
    /\ Valid(k) <=> k.typed = token /\ now < k.at + TTL /\ k # NoCookie
    /\ Valid(k) <=> Admitted(k, NoToken)

(* Every call ends, unless it is a local command on the database that a    *)
(* running server has open: that one waits for the server to end.          *)
EveryCallEnds ==
  \A c \in Clients :
    call[c].at # "idle" ~>
      (call[c].at = "idle" \/ (call[c].at = "opening" /\ holder = "server"))
=============================================================================
