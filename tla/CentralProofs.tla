---------------------------- MODULE CentralProofs ----------------------------
(***************************************************************************)
(* What TLAPS proves of the central service, for any Recipes, sources,     *)
(* tokens, browsers, processes and operations that they ask for: the       *)
(* sessions that hold, that nothing is written without a proof, and that   *)
(* a remote operation is like a local one.                                 *)
(***************************************************************************)
EXTENDS CentralService, SequenceTheorems, FiniteSetTheorems, TLAPS

USE TokensAssumption, OpsAssumption, NoOneAssumption, BoundsAssumption

(* A cookie of which nothing was made up: it was signed for the token that *)
(* was typed, for the lifetime of a session from then.                     *)
Issued(k) ==
  /\ k \in Cookies \cup {NoCookie}
  /\ k # NoCookie => k.key = k.typed /\ k.expires = k.at + TTL

Shape ==
  call = [c \in Clients |->
            [at |-> call[c].at, op |-> call[c].op, bearer |-> call[c].bearer,
             cookie |-> call[c].cookie, result |-> call[c].result]]

Globals ==
  /\ token \in Tokens \cup {NoToken}
  /\ now \in 0..MaxTime
  /\ jar \in [Browsers -> Cookies \cup {NoCookie}]

CookiesIssued ==
  /\ \A b \in Browsers : Issued(jar[b])
  /\ \A c \in Clients : Issued(call[c].cookie)
  /\ \A b \in Browsers : call[b].at = "answered" => Issued(call[b].result.cookie)

(* Whoever operates on the file has it open; a request is an operation.    *)
CallsFit ==
  \A c \in Clients :
    /\ call[c].at = "operating" => holder = c
    /\ call[c].at = "sent" => call[c].op \in Operations

CentralInv ==
  /\ Shape
  /\ Globals
  /\ CookiesIssued
  /\ CallsFit

-----------------------------------------------------------------------------
(* The token and the time decide what an issued cookie proves.             *)
LEMMA IssuedProves ==
  ASSUME Globals, NEW k, Issued(k)
  PROVE  /\ Valid(k) <=> k.typed = token /\ now < k.at + TTL /\ k # NoCookie
         /\ Valid(k) => token # NoToken
<1>1. CASE k = NoCookie
  BY <1>1 DEF Valid, NoCookie, Globals
<1>2. CASE k # NoCookie
  BY <1>2 DEF Valid, Issued, Cookies, Globals
<1> QED BY <1>1, <1>2

(* The flags of a command become credentials of the same operation.        *)
LEMMA CommandsAreOperations ==
  ASSUME NEW op \in RecipeOps \cup SourceOps
  PROVE  Command(op) \in RecipeOps \cup SourceOps
<1>1. CASE op.do \in {"putSource", "testSource"}
  <2>1. op.arg \in Entries /\ op = Op(op.do, op.name, op.arg)
    BY <1>1 DEF RecipeOps, SourceOps, Op
  <2>2. Credentials(op.arg.creds) \subseteq Fields
    BY <2>1 DEF Credentials, Entries
  <2> DEFINE e == [op.arg EXCEPT !.creds = Credentials(@)]
  <2>3. e \in Entries
    BY <2>1, <2>2 DEF Entries
  <2>4. Command(op) = Op(op.do, op.name, e)
    BY <1>1, <2>1 DEF Command, Op
  <2>5. \/ op.do = "putSource" /\ op.name \in SourceNames
        \/ op.do = "testSource" /\ op.name = Nothing
    BY <1>1 DEF RecipeOps, SourceOps, Op
  <2> QED BY <2>3, <2>4, <2>5 DEF SourceOps
<1>2. CASE op.do \notin {"putSource", "testSource"}
  BY <1>2 DEF Command
<1> QED BY <1>1, <1>2

(* Paths of the client, part by part.                                      *)
LEMMA Paths ==
  ASSUME NEW s, NEW n, NEW w, NEW v
  PROVE  /\ <<s>> \o <<n>> = <<s, n>>
         /\ <<s>> \o <<n, w>> = <<s, n, w>>
         /\ <<s>> \o <<n, w, v>> = <<s, n, w, v>>
         /\ Append(<<s>>, n) = <<s, n>>
<1> DEFINE S == {s, n, w, v}
<1>1. <<s>> \in Seq(S) /\ <<n>> \in Seq(S) /\ <<n, w>> \in Seq(S) /\ <<n, w, v>> \in Seq(S)
  OBVIOUS
<1>2. <<s, n>> \in Seq(S) /\ <<s, n, w>> \in Seq(S) /\ <<s, n, w, v>> \in Seq(S)
  OBVIOUS
<1>0. n \in S
  OBVIOUS
<1> HIDE DEF S
<1>3. /\ <<s>> \o <<n>> \in Seq(S)
      /\ Len(<<s>> \o <<n>>) = 2
      /\ \A i \in 1..2 : (<<s>> \o <<n>>)[i] = <<s, n>>[i]
  BY <1>1, ConcatProperties
<1>4. /\ <<s>> \o <<n, w>> \in Seq(S)
      /\ Len(<<s>> \o <<n, w>>) = 3
      /\ \A i \in 1..3 : (<<s>> \o <<n, w>>)[i] = <<s, n, w>>[i]
  BY <1>1, ConcatProperties
<1>5. /\ <<s>> \o <<n, w, v>> \in Seq(S)
      /\ Len(<<s>> \o <<n, w, v>>) = 4
      /\ \A i \in 1..4 : (<<s>> \o <<n, w, v>>)[i] = <<s, n, w, v>>[i]
  BY <1>1, ConcatProperties
<1>6. <<s>> \o <<n>> = <<s, n>>
  BY <1>2, <1>3, SeqEqual
<1>7. <<s>> \o <<n, w>> = <<s, n, w>>
  BY <1>2, <1>4, SeqEqual
<1>8. <<s>> \o <<n, w, v>> = <<s, n, w, v>>
  BY <1>2, <1>5, SeqEqual
<1>9. Append(<<s>>, n) = <<s, n>>
  <2>1. Append(<<s>>, n) = <<s>> \o <<n>>
    BY <1>1, <1>0, AppendIsConcat
  <2> QED BY <1>6, <2>1
<1> QED BY <1>6, <1>7, <1>8, <1>9

(* Which operations there are.                                             *)
LEMMA KindsOfOperations ==
  ASSUME NEW op \in Operations
  PROVE  /\ op \in RecipeOps =>
              op.do \in {"list", "get", "history", "resolve", "version", "rollback", "put"}
         /\ op \in SourceOps =>
              op.do \in {"listSources", "putSource", "deleteSource", "testSource"}
         /\ op \in SessionOps => op.do \in {"logout", "session", "login"}
         /\ op.do \in {"list", "listSources", "testSource", "logout", "session", "login"} =>
              op.name = Nothing
         /\ op.do \in {"list", "get", "history", "resolve", "listSources", "deleteSource",
                       "logout", "session"} => op.arg = Nothing
         /\ op = Op(op.do, op.name, op.arg)
<1>1. CASE op \in RecipeOps
  BY <1>1 DEF RecipeOps, SourceOps, SessionOps, Op
<1>2. CASE op \in SourceOps
  BY <1>2 DEF RecipeOps, SourceOps, SessionOps, Op
<1>3. CASE op \in SessionOps
  BY <1>3 DEF RecipeOps, SourceOps, SessionOps, Op
<1> QED BY <1>1, <1>2, <1>3 DEF Operations

(* The request of an operation reaches its own handler and no other, which *)
(* reads the operation's name and argument from it; but for a test of a    *)
(* connection, which has no name, and whose path has a second part.        *)
Meant(op) ==
  LET req == Request(op) IN
  /\ \E r \in Handler : Matches(r, req)
  /\ \A r \in Handler : Matches(r, req) => r.handler = op.do
  /\ op.do # "testSource" => op.name = IF Len(req.path) > 1 THEN req.path[2] ELSE req.query
  /\ op.arg = IF Len(req.path) = 4 THEN req.path[4] ELSE req.body

LEMMA MeantBy ==
  ASSUME NEW op, NEW method, NEW path, NEW query, NEW body, NEW do,
         Request(op) = Req(method, path, query, body),
         op.do = do,
         \E r \in Handler : Matches(r, Request(op)),
         \A r \in Handler : Matches(r, Request(op)) => r.handler = do,
         op.do # "testSource" => op.name = IF Len(path) > 1 THEN path[2] ELSE query,
         op.arg = IF Len(path) = 4 THEN path[4] ELSE body
  PROVE  Meant(op)
<1>1. Request(op).path = path /\ Request(op).query = query /\ Request(op).body = body
  BY DEF Req
<1> QED BY <1>1 DEF Meant

(* Each operation by its route.                                            *)
LEMMA RequestsAreMeant ==
  ASSUME NEW op \in Operations
  PROVE  Meant(op)
<1>1. CASE op \in RecipeOps /\ op.do = "list"
  <2> DEFINE r == Route("GET", <<"recipes">>, FALSE, "list")
             path == <<"recipes">>
  <2>1. Request(op) = Req("GET", path, Nothing, Nothing)
    BY <1>1, KindsOfOperations, Paths
       DEF RecipesPath, SourcesPath, TestConnectionPath, Request, ReadRequest
  <2>2. r \in Handler /\ Matches(r, Request(op))
    BY <2>1 DEF Handler, Routes, Matches, Route, Req
  <2>3. \A p \in Handler : Matches(p, Request(op)) => p.handler = "list"
    BY <2>1 DEF Handler, Routes, Matches, Route, Req
  <2>4. /\ op.do # "testSource" => op.name = IF Len(path) > 1 THEN path[2] ELSE Nothing
        /\ op.arg = IF Len(path) = 4 THEN path[4] ELSE Nothing
    BY <1>1, KindsOfOperations
  <2> QED BY <1>1, <2>1, <2>2, <2>3, <2>4, MeantBy
<1>2. CASE op \in RecipeOps /\ op.do = "get"
  <2> DEFINE r == Route("GET", <<"recipes", "*">>, FALSE, "get")
             path == <<"recipes", op.name>>
  <2>1. Request(op) = Req("GET", path, Nothing, Nothing)
    BY <1>2, KindsOfOperations, Paths
       DEF RecipesPath, SourcesPath, TestConnectionPath, Request, ReadRequest
  <2>2. r \in Handler /\ Matches(r, Request(op))
    BY <2>1 DEF Handler, Routes, Matches, Route, Req
  <2>3. \A p \in Handler : Matches(p, Request(op)) => p.handler = "get"
    BY <2>1 DEF Handler, Routes, Matches, Route, Req
  <2>4. /\ op.do # "testSource" => op.name = IF Len(path) > 1 THEN path[2] ELSE Nothing
        /\ op.arg = IF Len(path) = 4 THEN path[4] ELSE Nothing
    BY <1>2, KindsOfOperations
  <2> QED BY <1>2, <2>1, <2>2, <2>3, <2>4, MeantBy
<1>3. CASE op \in RecipeOps /\ op.do = "history"
  <2> DEFINE r == Route("GET", <<"recipes", "*", "versions">>, FALSE, "history")
             path == <<"recipes", op.name, "versions">>
  <2>0. RecipesPath \o <<op.name, "versions">> = <<"recipes", op.name, "versions">>
    BY Paths DEF RecipesPath
  <2>1. Request(op) = Req("GET", path, Nothing, Nothing)
    BY <1>3, KindsOfOperations, <2>0 DEF Request, ReadRequest
  <2>2. r \in Handler /\ Matches(r, Request(op))
    BY <2>1 DEF Handler, Routes, Matches, Route, Req
  <2>3. \A p \in Handler : Matches(p, Request(op)) => p.handler = "history"
    BY <2>1 DEF Handler, Routes, Matches, Route, Req
  <2>4. /\ op.do # "testSource" => op.name = IF Len(path) > 1 THEN path[2] ELSE Nothing
        /\ op.arg = IF Len(path) = 4 THEN path[4] ELSE Nothing
    BY <1>3, KindsOfOperations
  <2> QED BY <1>3, <2>1, <2>2, <2>3, <2>4, MeantBy
<1>4. CASE op \in RecipeOps /\ op.do = "version"
  <2> DEFINE r == Route("GET", <<"recipes", "*", "versions", "*">>, FALSE, "version")
             path == <<"recipes", op.name, "versions", op.arg>>
  <2>0. RecipesPath \o <<op.name, "versions", op.arg>>
          = <<"recipes", op.name, "versions", op.arg>>
    BY Paths DEF RecipesPath
  <2>1. Request(op) = Req("GET", path, Nothing, Nothing)
    BY <1>4, KindsOfOperations, <2>0 DEF Request, ReadRequest
  <2>2. r \in Handler /\ Matches(r, Request(op))
    BY <2>1 DEF Handler, Routes, Matches, Route, Req
  <2>3. \A p \in Handler : Matches(p, Request(op)) => p.handler = "version"
    BY <2>1 DEF Handler, Routes, Matches, Route, Req
  <2>4. /\ op.do # "testSource" => op.name = IF Len(path) > 1 THEN path[2] ELSE Nothing
        /\ op.arg = IF Len(path) = 4 THEN path[4] ELSE Nothing
    BY <1>4, KindsOfOperations
  <2> QED BY <1>4, <2>1, <2>2, <2>3, <2>4, MeantBy
<1>5. CASE op \in RecipeOps /\ op.do = "resolve"
  <2> DEFINE r == Route("GET", <<"resolve">>, FALSE, "resolve")
             path == <<"resolve">>
  <2>1. Request(op) = Req("GET", path, op.name, Nothing)
    BY <1>5, KindsOfOperations, Paths
       DEF RecipesPath, SourcesPath, TestConnectionPath, Request, ResolveRequest
  <2>2. r \in Handler /\ Matches(r, Request(op))
    BY <2>1 DEF Handler, Routes, Matches, Route, Req
  <2>3. \A p \in Handler : Matches(p, Request(op)) => p.handler = "resolve"
    BY <2>1 DEF Handler, Routes, Matches, Route, Req
  <2>4. /\ op.do # "testSource" => op.name = IF Len(path) > 1 THEN path[2] ELSE op.name
        /\ op.arg = IF Len(path) = 4 THEN path[4] ELSE Nothing
    BY <1>5, KindsOfOperations
  <2> QED BY <1>5, <2>1, <2>2, <2>3, <2>4, MeantBy
<1>6. CASE op \in RecipeOps /\ op.do = "put"
  <2> DEFINE r == Route("PUT", <<"recipes", "*">>, TRUE, "put")
             path == <<"recipes", op.name>>
  <2>1. Request(op) = Req("PUT", path, Nothing, op.arg)
    BY <1>6, KindsOfOperations, Paths
       DEF RecipesPath, SourcesPath, TestConnectionPath, Request, WriteRequest
  <2>2. r \in Handler /\ Matches(r, Request(op))
    BY <2>1 DEF Handler, Routes, Matches, Route, Req
  <2>3. \A p \in Handler : Matches(p, Request(op)) => p.handler = "put"
    BY <2>1 DEF Handler, Routes, Matches, Route, Req
  <2>4. /\ op.do # "testSource" => op.name = IF Len(path) > 1 THEN path[2] ELSE Nothing
        /\ op.arg = IF Len(path) = 4 THEN path[4] ELSE op.arg
    BY <1>6, KindsOfOperations
  <2> QED BY <1>6, <2>1, <2>2, <2>3, <2>4, MeantBy
<1>7. CASE op \in RecipeOps /\ op.do = "rollback"
  <2> DEFINE r == Route("POST", <<"recipes", "*", "rollback">>, TRUE, "rollback")
             path == <<"recipes", op.name, "rollback">>
  <2>0. RecipesPath \o <<op.name, "rollback">> = <<"recipes", op.name, "rollback">>
    BY Paths DEF RecipesPath
  <2>1. Request(op) = Req("POST", path, Nothing, op.arg)
    BY <1>7, KindsOfOperations, <2>0 DEF Request, WriteRequest
  <2>2. r \in Handler /\ Matches(r, Request(op))
    BY <2>1 DEF Handler, Routes, Matches, Route, Req
  <2>3. \A p \in Handler : Matches(p, Request(op)) => p.handler = "rollback"
    BY <2>1 DEF Handler, Routes, Matches, Route, Req
  <2>4. /\ op.do # "testSource" => op.name = IF Len(path) > 1 THEN path[2] ELSE Nothing
        /\ op.arg = IF Len(path) = 4 THEN path[4] ELSE op.arg
    BY <1>7, KindsOfOperations
  <2> QED BY <1>7, <2>1, <2>2, <2>3, <2>4, MeantBy
<1>8. CASE op \in SourceOps /\ op.do = "listSources"
  <2> DEFINE r == Route("GET", <<"sources">>, FALSE, "listSources")
             path == <<"sources">>
  <2>1. Request(op) = Req("GET", path, Nothing, Nothing)
    BY <1>8, KindsOfOperations, Paths
       DEF RecipesPath, SourcesPath, TestConnectionPath, Request, SourceRequest
  <2>2. r \in Handler /\ Matches(r, Request(op))
    BY <2>1 DEF Handler, Routes, Matches, Route, Req
  <2>3. \A p \in Handler : Matches(p, Request(op)) => p.handler = "listSources"
    BY <2>1 DEF Handler, Routes, Matches, Route, Req
  <2>4. /\ op.do # "testSource" => op.name = IF Len(path) > 1 THEN path[2] ELSE Nothing
        /\ op.arg = IF Len(path) = 4 THEN path[4] ELSE Nothing
    BY <1>8, KindsOfOperations
  <2> QED BY <1>8, <2>1, <2>2, <2>3, <2>4, MeantBy
<1>9. CASE op \in SourceOps /\ op.do = "putSource"
  <2> DEFINE r == Route("PUT", <<"sources", "*">>, TRUE, "putSource")
             path == <<"sources", op.name>>
  <2>1. Request(op) = Req("PUT", path, Nothing, op.arg)
    BY <1>9, KindsOfOperations, Paths
       DEF RecipesPath, SourcesPath, TestConnectionPath, Request, SourceRequest
  <2>2. r \in Handler /\ Matches(r, Request(op))
    BY <2>1 DEF Handler, Routes, Matches, Route, Req
  <2>3. \A p \in Handler : Matches(p, Request(op)) => p.handler = "putSource"
    BY <2>1 DEF Handler, Routes, Matches, Route, Req
  <2>4. /\ op.do # "testSource" => op.name = IF Len(path) > 1 THEN path[2] ELSE Nothing
        /\ op.arg = IF Len(path) = 4 THEN path[4] ELSE op.arg
    BY <1>9, KindsOfOperations
  <2> QED BY <1>9, <2>1, <2>2, <2>3, <2>4, MeantBy
<1>10. CASE op \in SourceOps /\ op.do = "deleteSource"
  <2> DEFINE r == Route("DELETE", <<"sources", "*">>, TRUE, "deleteSource")
             path == <<"sources", op.name>>
  <2>1. Request(op) = Req("DELETE", path, Nothing, Nothing)
    BY <1>10, KindsOfOperations, Paths
       DEF RecipesPath, SourcesPath, TestConnectionPath, Request, SourceRequest
  <2>2. r \in Handler /\ Matches(r, Request(op))
    BY <2>1 DEF Handler, Routes, Matches, Route, Req
  <2>3. \A p \in Handler : Matches(p, Request(op)) => p.handler = "deleteSource"
    BY <2>1 DEF Handler, Routes, Matches, Route, Req
  <2>4. /\ op.do # "testSource" => op.name = IF Len(path) > 1 THEN path[2] ELSE Nothing
        /\ op.arg = IF Len(path) = 4 THEN path[4] ELSE Nothing
    BY <1>10, KindsOfOperations
  <2> QED BY <1>10, <2>1, <2>2, <2>3, <2>4, MeantBy
<1>11. CASE op \in SourceOps /\ op.do = "testSource"
  <2> DEFINE r == Route("POST", <<"sources", "test">>, TRUE, "testSource")
             path == <<"sources", "test">>
  <2>1. Request(op) = Req("POST", path, Nothing, op.arg)
    BY <1>11, KindsOfOperations, Paths
       DEF RecipesPath, SourcesPath, TestConnectionPath, Request, SourceRequest
  <2>2. r \in Handler /\ Matches(r, Request(op))
    BY <2>1 DEF Handler, Routes, Matches, Route, Req
  <2>3. \A p \in Handler : Matches(p, Request(op)) => p.handler = "testSource"
    BY <2>1 DEF Handler, Routes, Matches, Route, Req
  <2>4. /\ op.do # "testSource" => op.name = IF Len(path) > 1 THEN path[2] ELSE Nothing
        /\ op.arg = IF Len(path) = 4 THEN path[4] ELSE op.arg
    BY <1>11, KindsOfOperations
  <2> QED BY <1>11, <2>1, <2>2, <2>3, <2>4, MeantBy
<1>12. CASE op \in SessionOps /\ op.do = "login"
  <2> DEFINE r == Route("POST", <<"login">>, FALSE, "login")
             path == <<"login">>
  <2>1. Request(op) = Req("POST", path, Nothing, op.arg)
    BY <1>12, KindsOfOperations, Paths
       DEF RecipesPath, SourcesPath, TestConnectionPath, Request, SessionRequest
  <2>2. r \in Handler /\ Matches(r, Request(op))
    BY <2>1 DEF Handler, Routes, Matches, Route, Req
  <2>3. \A p \in Handler : Matches(p, Request(op)) => p.handler = "login"
    BY <2>1 DEF Handler, Routes, Matches, Route, Req
  <2>4. /\ op.do # "testSource" => op.name = IF Len(path) > 1 THEN path[2] ELSE Nothing
        /\ op.arg = IF Len(path) = 4 THEN path[4] ELSE op.arg
    BY <1>12, KindsOfOperations
  <2> QED BY <1>12, <2>1, <2>2, <2>3, <2>4, MeantBy
<1>13. CASE op \in SessionOps /\ op.do = "logout"
  <2> DEFINE r == Route("POST", <<"logout">>, FALSE, "logout")
             path == <<"logout">>
  <2>1. Request(op) = Req("POST", path, Nothing, op.arg)
    BY <1>13, KindsOfOperations, Paths
       DEF RecipesPath, SourcesPath, TestConnectionPath, Request, SessionRequest
  <2>2. r \in Handler /\ Matches(r, Request(op))
    BY <2>1 DEF Handler, Routes, Matches, Route, Req
  <2>3. \A p \in Handler : Matches(p, Request(op)) => p.handler = "logout"
    BY <2>1 DEF Handler, Routes, Matches, Route, Req
  <2>4. /\ op.do # "testSource" => op.name = IF Len(path) > 1 THEN path[2] ELSE Nothing
        /\ op.arg = IF Len(path) = 4 THEN path[4] ELSE op.arg
    BY <1>13, KindsOfOperations
  <2> QED BY <1>13, <2>1, <2>2, <2>3, <2>4, MeantBy
<1>14. CASE op \in SessionOps /\ op.do = "session"
  <2> DEFINE r == Route("GET", <<"session">>, FALSE, "session")
             path == <<"session">>
  <2>1. Request(op) = Req("GET", path, Nothing, Nothing)
    BY <1>14, KindsOfOperations, Paths
       DEF RecipesPath, SourcesPath, TestConnectionPath, Request, SessionRequest
  <2>2. r \in Handler /\ Matches(r, Request(op))
    BY <2>1 DEF Handler, Routes, Matches, Route, Req
  <2>3. \A p \in Handler : Matches(p, Request(op)) => p.handler = "session"
    BY <2>1 DEF Handler, Routes, Matches, Route, Req
  <2>4. /\ op.do # "testSource" => op.name = IF Len(path) > 1 THEN path[2] ELSE Nothing
        /\ op.arg = IF Len(path) = 4 THEN path[4] ELSE Nothing
    BY <1>14, KindsOfOperations
  <2> QED BY <1>14, <2>1, <2>2, <2>3, <2>4, MeantBy
<1> QED BY <1>1, <1>2, <1>3, <1>4, <1>5, <1>6, <1>7, <1>8, <1>9, <1>10, <1>11, <1>12,
           <1>13, <1>14, KindsOfOperations DEF Operations

(* What a handler reads from a request is the operation, as far as the     *)
(* store looks at it.                                                      *)
LEMMA DecodedIsMeant ==
  ASSUME NEW op \in Operations
  PROVE  /\ RouteOf[op] \in Handler
         /\ RouteOf[op].handler = op.do
         /\ Decoded[op].do = op.do
         /\ Decoded[op].arg = op.arg
         /\ op.do # "testSource" => Decoded[op] = op
<1>1. Meant(op)
  BY RequestsAreMeant
<1>2. RouteOf[op] \in Handler /\ Matches(RouteOf[op], Request(op))
  BY <1>1 DEF Meant, RouteOf
<1>3. RouteOf[op].handler = op.do
  BY <1>1, <1>2 DEF Meant
<1>4. Decoded[op].do = op.do /\ Decoded[op].arg = op.arg
  BY <1>1, <1>3 DEF Meant, Decoded, Op
<1>5. op.do # "testSource" => Decoded[op] = Op(op.do, op.name, op.arg)
  BY <1>1, <1>3 DEF Meant, Decoded
<1> QED BY <1>2, <1>3, <1>4, <1>5, KindsOfOperations

(* The handlers that write are behind the gate.                            *)
LEMMA WritesAreGated ==
  ASSUME NEW op \in Operations, Decoded[op].do \in Writes
  PROVE  RouteOf[op].gated
<1>1. RouteOf[op] \in Handler /\ RouteOf[op].handler = Decoded[op].do
  BY DecodedIsMeant
<1> QED BY <1>1 DEF Handler, Routes, Route, Writes

(* Nothing but writes has an effect.                                       *)
LEMMA OnlyWritesHaveEffects ==
  ASSUME NEW op, NEW answer, After(op, answer) # db
  PROVE  op.do \in Writes
BY DEF After, Effect, Writes

-----------------------------------------------------------------------------
LEMMA InitInv == Init => CentralInv
<1> SUFFICES ASSUME Init PROVE CentralInv
  OBVIOUS
<1>1. \A c \in Clients : call[c] = Idle
  BY DEF Init
<1>2. Shape
  BY DEF Init, Shape, Idle
<1>3. Globals
  BY DEF Init, Globals
<1>4. CookiesIssued
  BY <1>1 DEF Init, CookiesIssued, Issued, Idle, Clients
<1>5. CallsFit
  BY <1>1 DEF CallsFit, Idle
<1> QED BY <1>2, <1>3, <1>4, <1>5 DEF CentralInv

(* What stays as it is for a client whose call is not touched.             *)
LEMMA OneCall ==
  ASSUME CentralInv, NEW c \in Clients, NEW r,
         r = [at |-> r.at, op |-> r.op, bearer |-> r.bearer, cookie |-> r.cookie,
              result |-> r.result],
         call' = [call EXCEPT ![c] = r]
  PROVE  /\ Shape'
         /\ call'[c] = r
         /\ \A d \in Clients \ {c} : call'[d] = call[d]
BY DEF CentralInv, Shape

(* A step of one client: the invariant holds if it does for the file, the  *)
(* clock, the token and what the client has now.                           *)
LEMMA StepOfOne ==
  ASSUME CentralInv, NEW c \in Clients, NEW r,
         r = [at |-> r.at, op |-> r.op, bearer |-> r.bearer, cookie |-> r.cookie,
              result |-> r.result],
         call' = [call EXCEPT ![c] = r],
         UNCHANGED <<token, now>>,
         jar' \in [Browsers -> Cookies \cup {NoCookie}],
         \A b \in Browsers : Issued(jar'[b]),
         Issued(r.cookie),
         c \in Browsers /\ r.at = "answered" => Issued(r.result.cookie),
         r.at = "operating" => holder' = c,
         r.at = "sent" => r.op \in Operations,
         \A d \in Clients \ {c} : holder = d => holder' = d
  PROVE  CentralInv'
<1>1. Shape' /\ call'[c] = r /\ \A d \in Clients \ {c} : call'[d] = call[d]
  BY OneCall
<1>2. Globals'
  BY DEF CentralInv, Globals
<1>3. CookiesIssued'
  BY <1>1 DEF CentralInv, CookiesIssued, Clients, Issued
<1>4. CallsFit'
  BY <1>1 DEF CentralInv, CallsFit
<1> QED BY <1>1, <1>2, <1>3, <1>4 DEF CentralInv

(* The same, with the jar, the token and the clock as they were.           *)
LEMMA JarIsFine ==
  ASSUME CentralInv, UNCHANGED jar
  PROVE  /\ jar' \in [Browsers -> Cookies \cup {NoCookie}]
         /\ \A b \in Browsers : Issued(jar'[b])
         /\ Issued(NoCookie)
BY DEF CentralInv, Globals, CookiesIssued, Issued

LEMMA FinishInv ==
  ASSUME CentralInv, NEW c \in Clients, Finish(c), UNCHANGED <<token, now>>,
         jar' \in [Browsers -> Cookies \cup {NoCookie}],
         \A b \in Browsers : Issued(jar'[b]),
         \A d \in Clients \ {c} : holder = d => holder' = d
  PROVE  CentralInv'
<1>1. call' = [call EXCEPT ![c] = Idle]
  BY DEF Finish
<1>2. /\ Idle = [at |-> Idle.at, op |-> Idle.op, bearer |-> Idle.bearer,
                 cookie |-> Idle.cookie, result |-> Idle.result]
      /\ Idle.at = "idle" /\ Idle.cookie = NoCookie
  BY DEF Idle
<1>3. Issued(NoCookie)
  BY DEF Issued
<1> QED BY <1>1, <1>2, <1>3, StepOfOne

LEMMA RespondInv ==
  ASSUME CentralInv, NEW c \in Clients, NEW status, NEW body, NEW cookie,
         Respond(c, status, body, cookie), c \in Browsers => Issued(cookie)
  PROVE  CentralInv'
<1> DEFINE r == [at |-> "answered", op |-> call[c].op, bearer |-> NoToken,
                 cookie |-> NoCookie,
                 result |-> [status |-> status, body |-> body, cookie |-> cookie]]
<1>1. call' = [call EXCEPT ![c] = r] /\ UNCHANGED <<holder, token, now, jar>>
  BY DEF Respond
<1>2. /\ r = [at |-> r.at, op |-> r.op, bearer |-> r.bearer, cookie |-> r.cookie,
              result |-> r.result]
      /\ r.at = "answered" /\ r.cookie = NoCookie /\ r.result.cookie = cookie
  OBVIOUS
<1> HIDE DEF r
<1> QED BY <1>1, <1>2, StepOfOne, JarIsFine

LEMMA OpenedCall ==
  ASSUME NEW k, NEW o,
         k = [at |-> k.at, op |-> k.op, bearer |-> k.bearer, cookie |-> k.cookie,
              result |-> k.result]
  PROVE  [k EXCEPT !.at = "opening", !.op = o]
           = [at |-> "opening", op |-> o, bearer |-> k.bearer, cookie |-> k.cookie,
              result |-> k.result]
<1> DEFINE R == [at : {k.at, "opening"}, op : {k.op, o}, bearer : {k.bearer},
                 cookie : {k.cookie}, result : {k.result}]
<1>1. k \in R
  OBVIOUS
<1>2. [k EXCEPT !.at = "opening"] \in R
  BY <1>1
<1>3. [k EXCEPT !.at = "opening", !.op = o]
        = [[k EXCEPT !.at = "opening"] EXCEPT !.op = o]
  BY <1>1
<1>4. [[k EXCEPT !.at = "opening"] EXCEPT !.op = o] \in R
  BY <1>2
<1> DEFINE z == [[k EXCEPT !.at = "opening"] EXCEPT !.op = o]
<1>5. /\ z.at = "opening" /\ z.op = o /\ z.bearer = k.bearer /\ z.cookie = k.cookie
      /\ z.result = k.result
  BY <1>1, <1>2
<1>6. \A y \in R : y = [at |-> y.at, op |-> y.op, bearer |-> y.bearer,
                       cookie |-> y.cookie, result |-> y.result]
  OBVIOUS
<1> HIDE DEF z, R
<1>7. z = [at |-> z.at, op |-> z.op, bearer |-> z.bearer, cookie |-> z.cookie,
           result |-> z.result]
  BY <1>4, <1>6 DEF z
<1>8. z = [at |-> "opening", op |-> o, bearer |-> k.bearer, cookie |-> k.cookie,
           result |-> k.result]
  BY <1>5, <1>7
<1> QED BY <1>3, <1>8 DEF z

LEMMA StartLocalInv ==
  ASSUME CentralInv, NEW c \in Processes, NEW op \in LocalOps, StartLocal(c, op)
  PROVE  CentralInv'
<1> DEFINE r == [at |-> "opening", op |-> Command(op), bearer |-> call[c].bearer,
                 cookie |-> call[c].cookie, result |-> call[c].result]
<1>1. c \in Clients
  BY DEF Clients
<1>2. call' = [call EXCEPT ![c] = r]
  <2>1. call[c] = [at |-> call[c].at, op |-> call[c].op, bearer |-> call[c].bearer,
                   cookie |-> call[c].cookie, result |-> call[c].result]
    BY <1>1 DEF CentralInv, Shape
  <2>2. [call[c] EXCEPT !.at = "opening", !.op = Command(op)] = r
    BY <2>1, OpenedCall
  <2>3. call' = [call EXCEPT ![c] = [call[c] EXCEPT !.at = "opening", !.op = Command(op)]]
    BY <1>1 DEF StartLocal, CentralInv, Shape
  <2> QED BY <2>2, <2>3
<1>3. /\ r = [at |-> r.at, op |-> r.op, bearer |-> r.bearer, cookie |-> r.cookie,
              result |-> r.result]
      /\ r.at = "opening" /\ r.cookie = call[c].cookie
  OBVIOUS
<1>4. Issued(call[c].cookie)
  BY <1>1 DEF CentralInv, CookiesIssued
<1> HIDE DEF r
<1> QED BY <1>1, <1>2, <1>3, <1>4, StepOfOne, JarIsFine DEF StartLocal

LEMMA OpenFileInv ==
  ASSUME CentralInv, NEW c \in Processes, OpenFile(c)
  PROVE  CentralInv'
<1> DEFINE r == [call[c] EXCEPT !.at = "operating"]
<1>1. c \in Clients
  BY DEF Clients
<1>2. call' = [call EXCEPT ![c] = r]
  BY <1>1 DEF OpenFile, CentralInv, Shape
<1>3. /\ r = [at |-> r.at, op |-> r.op, bearer |-> r.bearer, cookie |-> r.cookie,
              result |-> r.result]
      /\ r.at = "operating" /\ r.cookie = call[c].cookie
  BY <1>1 DEF CentralInv, Shape
<1>4. Issued(call[c].cookie)
  BY <1>1 DEF CentralInv, CookiesIssued
<1>5. /\ holder' = c
      /\ UNCHANGED <<token, now, jar>>
      /\ \A d \in Clients \ {c} : holder = d => holder' = d
  BY DEF OpenFile
<1> HIDE DEF r
<1> QED BY <1>1, <1>2, <1>3, <1>4, <1>5, StepOfOne, JarIsFine

(* Who ends a call with the file open frees it only if it was theirs.      *)
LEMMA OperateInv ==
  ASSUME CentralInv, NEW c \in Processes, NEW net, Operate(c, net)
  PROVE  CentralInv'
<1>1. c \in Clients
  BY DEF Clients
<1>2. holder = c
  BY <1>1 DEF Operate, CentralInv, CallsFit
<1>3. Finish(c) /\ UNCHANGED <<token, now, jar>>
  BY DEF Operate
<1> QED BY <1>1, <1>2, <1>3, FinishInv, JarIsFine

LEMMA KillInv ==
  ASSUME CentralInv, NEW c \in Processes, Kill(c)
  PROVE  CentralInv'
<1>1. c \in Clients
  BY DEF Clients
<1>2. Finish(c) /\ UNCHANGED <<token, now, jar>>
      /\ \A d \in Clients \ {c} : holder = d => holder' = d
  BY DEF Kill
<1> QED BY <1>1, <1>2, FinishInv, JarIsFine

LEMMA DisconnectInv ==
  ASSUME CentralInv, NEW c \in Clients, Disconnect(c)
  PROVE  CentralInv'
<1>1. Finish(c) /\ UNCHANGED <<holder, token, now, jar>>
  BY DEF Disconnect
<1> QED BY <1>1, FinishInv, JarIsFine

LEMMA ReceiveInv ==
  ASSUME CentralInv, NEW c \in Clients, Receive(c)
  PROVE  CentralInv'
<1>1. Finish(c) /\ UNCHANGED <<holder, token, now>>
  BY DEF Receive
<1>2. CASE UNCHANGED jar
  BY <1>1, <1>2, FinishInv, JarIsFine
<1>3. CASE c \in Browsers /\ jar' = [jar EXCEPT ![c] = call[c].result.cookie]
  <2>1. Issued(call[c].result.cookie)
    BY <1>3 DEF Receive, CentralInv, CookiesIssued
  <2>2. call[c].result.cookie \in Cookies \cup {NoCookie}
    BY <2>1 DEF Issued
  <2>3. jar' \in [Browsers -> Cookies \cup {NoCookie}]
    BY <1>3, <2>2 DEF CentralInv, Globals
  <2>4. \A b \in Browsers : Issued(jar'[b])
    BY <1>3, <2>1 DEF CentralInv, Globals, CookiesIssued
  <2> QED BY <1>1, <2>3, <2>4, FinishInv
<1> QED BY <1>2, <1>3 DEF Receive

LEMMA SendInv ==
  ASSUME CentralInv, NEW c \in Clients, NEW op \in Operations, NEW bearer,
         Send(c, op, bearer)
  PROVE  CentralInv'
<1> DEFINE k == IF c \in Browsers THEN jar[c] ELSE NoCookie
           r == [at |-> "sent", op |-> op, bearer |-> bearer, result |-> Nothing,
                 cookie |-> k]
<1>1. call' = [call EXCEPT ![c] = r] /\ UNCHANGED <<db, holder, token, now, jar>>
  BY DEF Send
<1>2. Issued(k)
  BY DEF CentralInv, CookiesIssued, Issued
<1>3. /\ r = [at |-> r.at, op |-> r.op, bearer |-> r.bearer, cookie |-> r.cookie,
              result |-> r.result]
      /\ r.at = "sent" /\ r.op = op /\ r.cookie = k
  OBVIOUS
<1> HIDE DEF r, k
<1> QED BY <1>1, <1>2, <1>3, StepOfOne, JarIsFine

LEMMA StartRemoteInv ==
  ASSUME CentralInv, NEW c \in Processes, NEW op \in RemoteOps, NEW t,
         StartRemote(c, op, t)
  PROVE  CentralInv'
<1>1. c \in Clients /\ op \in RecipeOps \cup SourceOps
  BY DEF Clients
<1>2. op \in Operations /\ Command(op) \in Operations
  BY <1>1, CommandsAreOperations DEF Operations
<1> QED BY <1>1, <1>2, SendInv DEF StartRemote

(* A login makes a cookie for the token that was typed, or none.           *)
LEMMA LoginInv ==
  ASSUME CentralInv, NEW c \in Clients, HandleLogin(c)
  PROVE  CentralInv'
<1> DEFINE typed == Decoded[call[c].op].arg
           k == [expires |-> now + TTL, key |-> token, typed |-> typed, at |-> now]
<1>1. CASE token # NoToken /\ typed = token
  <2>1. token \in Tokens /\ now \in 0..MaxTime /\ now + TTL \in 0..(MaxTime + TTL)
    BY <1>1 DEF CentralInv, Globals
  <2>2. k \in Cookies /\ k.key = k.typed /\ k.expires = k.at + TTL
    BY <1>1, <2>1 DEF Cookies
  <2>3. Issued(k)
    BY <2>2 DEF Issued
  <2>4. Respond(c, 204, Nothing, k)
    BY <1>1 DEF HandleLogin
  <2> HIDE DEF k
  <2> QED BY <2>3, <2>4, RespondInv
<1>2. CASE ~(token # NoToken /\ typed = token)
  <2>1. Respond(c, IF token = NoToken THEN 403 ELSE 401, Nothing, jar[c])
    BY <1>2 DEF HandleLogin
  <2>2. c \in Browsers => Issued(jar[c])
    BY DEF CentralInv, CookiesIssued
  <2> QED BY <2>1, <2>2, RespondInv
<1> QED BY <1>1, <1>2

LEMMA ServeInv ==
  ASSUME CentralInv, NEW c \in Clients, Serve(c)
  PROVE  CentralInv'
<1>1. Issued(NoCookie)
  BY DEF Issued
<1>2. CASE Refuse(c)
  <2>1. \E s : Respond(c, s, Nothing, NoCookie)
    BY <1>2 DEF Refuse
  <2> QED BY <1>1, <2>1, RespondInv
<1>3. CASE \E net \in BOOLEAN : Handle(c, net)
  <2>1. \E s, b : Respond(c, s, b, NoCookie)
    BY <1>3 DEF Handle
  <2> QED BY <1>1, <2>1, RespondInv
<1>4. CASE HandleLogin(c)
  BY <1>4, LoginInv
<1>5. CASE HandleLogout(c)
  BY <1>1, <1>5, RespondInv DEF HandleLogout
<1>6. CASE HandleSession(c)
  <2>1. \E b : Respond(c, 200, b, NoCookie)
    BY <1>6 DEF HandleSession
  <2> QED BY <1>1, <2>1, RespondInv
<1> QED BY <1>2, <1>3, <1>4, <1>5, <1>6 DEF Serve

LEMMA BootInv ==
  ASSUME CentralInv, NEW t \in Tokens \cup {NoToken}, Boot(t)
  PROVE  CentralInv'
<1>1. \A c \in Clients : call[c].at # "operating"
  BY DEF Boot, CentralInv, CallsFit
<1> QED BY <1>1 DEF Boot, CentralInv, Shape, Globals, CookiesIssued, CallsFit, Issued

LEMMA CrashInv ==
  ASSUME CentralInv, Crash
  PROVE  CentralInv'
<1>1. \A c \in Clients : call'[c] = Idle \/ call'[c] = call[c]
  BY DEF Crash
<1>2. \A c \in Clients : call[c].at # "operating"
  BY DEF Crash, CentralInv, CallsFit
<1>3. Shape'
  BY <1>1 DEF Crash, CentralInv, Shape, Idle
<1>4. Globals'
  BY DEF Crash, CentralInv, Globals
<1>5. CookiesIssued'
  <2>1. Issued(NoCookie)
    BY DEF Issued
  <2> QED BY <1>1, <2>1 DEF Crash, CentralInv, CookiesIssued, Issued, Idle, Clients
<1>6. CallsFit'
  BY <1>1, <1>2 DEF CentralInv, CallsFit, Idle
<1> QED BY <1>3, <1>4, <1>5, <1>6 DEF CentralInv

LEMMA TickInv ==
  ASSUME CentralInv, Tick
  PROVE  CentralInv'
<1>1. now' \in 0..MaxTime
  BY DEF Tick, CentralInv, Globals
<1> QED BY <1>1 DEF Tick, CentralInv, Shape, Globals, CookiesIssued, CallsFit, Issued

LEMMA NextKeepsInv == CentralInv /\ [Next]_vars => CentralInv'
<1> SUFFICES ASSUME CentralInv, [Next]_vars PROVE CentralInv'
  OBVIOUS
<1>1. CASE \E c \in Processes :
             \/ \E op \in LocalOps : StartLocal(c, op)
             \/ \E op \in RemoteOps, t \in Bearers : StartRemote(c, op, t)
             \/ OpenFile(c)
             \/ \E net \in BOOLEAN : Operate(c, net)
             \/ Kill(c)
  BY <1>1, StartLocalInv, StartRemoteInv, OpenFileInv, OperateInv, KillInv
<1>2. CASE \E c \in Browsers, op \in BrowserOps : Send(c, op, NoToken)
  BY <1>2, SendInv DEF Clients
<1>3. CASE \E c \in Clients : Serve(c) \/ Receive(c) \/ Disconnect(c)
  BY <1>3, ServeInv, ReceiveInv, DisconnectInv
<1>4. CASE (\E t \in Tokens \cup {NoToken} : Boot(t)) \/ Crash \/ Tick
  BY <1>4, BootInv, CrashInv, TickInv
<1>5. CASE UNCHANGED vars
  BY <1>5 DEF vars, CentralInv, Shape, Globals, CookiesIssued, CallsFit, Issued
<1> QED BY <1>1, <1>2, <1>3, <1>4, <1>5 DEF Next

LEMMA CentralInvHolds == Spec => []CentralInv
BY InitInv, NextKeepsInv, PTL DEF Spec

-----------------------------------------------------------------------------
(* A browser is logged in exactly while the token it typed is the server's *)
(* and the session's time is not over, through restarts of the server.     *)
THEOREM SessionsAreHeld == Spec => []SessionsHold
<1>1. CentralInv => SessionsHold
  <2> SUFFICES ASSUME CentralInv, NEW b \in Browsers
               PROVE  /\ Valid(jar[b]) <=> /\ jar[b].typed = token
                                           /\ now < jar[b].at + TTL
                                           /\ jar[b] # NoCookie
                      /\ Valid(jar[b]) <=> Admitted(jar[b], NoToken)
    BY DEF SessionsHold
  <2>1. Globals /\ Issued(jar[b])
    BY DEF CentralInv, CookiesIssued
  <2>2. Valid(jar[b]) => token # NoToken
    BY <2>1, IssuedProves
  <2> QED BY <2>1, <2>2, IssuedProves DEF Admitted
<1> QED BY <1>1, CentralInvHolds, PTL

(* Whatever the requests are, and whatever is deployed, restarted, logged  *)
(* in and out, the database changes only by who has the file open, or by a *)
(* request that proves the token of now.                                   *)
THEOREM WritesAreProven == Spec => OnlyProvenWrites
<1> DEFINE Allowed == \E c \in Clients : holder = c \/ (Answered(c) /\ Proven(c))
<1>1. CentralInv /\ [Next]_vars => [db' # db => Allowed]_vars
  <2> SUFFICES ASSUME CentralInv, Next, db' # db
               PROVE  Allowed
    OBVIOUS
  <2>1. \/ \E c \in Processes : \E net \in BOOLEAN : Operate(c, net)
        \/ \E c \in Clients : \E net \in BOOLEAN : Handle(c, net)
    BY DEF Next, StartLocal, StartRemote, Send, OpenFile, Kill, Serve, Refuse,
           HandleLogin, HandleLogout, HandleSession, Receive, Disconnect, Boot, Crash, Tick
  <2>2. CASE \E c \in Processes : \E net \in BOOLEAN : Operate(c, net)
    BY <2>2 DEF Operate, CentralInv, CallsFit, Clients
  <2>3. CASE \E c \in Clients : \E net \in BOOLEAN : Handle(c, net)
    <3>1. PICK c \in Clients, net \in BOOLEAN : Handle(c, net)
      BY <2>3
    <3> DEFINE op == Decoded[call[c].op]
               k == call[c].cookie
    <3>2. call[c].op \in Operations /\ call[c].at = "sent"
      BY <3>1 DEF Handle, Arrived, CentralInv, CallsFit
    <3>3. op.do \in Writes
      BY <3>1, OnlyWritesHaveEffects DEF Handle
    <3>4. Admitted(k, call[c].bearer)
      BY <3>1, <3>2, <3>3, WritesAreGated DEF Handle
    <3>5. Globals /\ Issued(k)
      BY DEF CentralInv, CookiesIssued
    <3>6. Proven(c)
      BY <3>4, <3>5, IssuedProves DEF Admitted, Proven
    <3>7. Answered(c)
      <4>1. \E s, b : Respond(c, s, b, NoCookie)
        BY <3>1 DEF Handle
      <4> QED BY <3>2, <4>1 DEF Respond, Answered, CentralInv, Shape
    <3> QED BY <3>6, <3>7
  <2> QED BY <2>1, <2>2, <2>3
<1> QED BY <1>1, CentralInvHolds, PTL DEF Spec, OnlyProvenWrites
-----------------------------------------------------------------------------
(* What the store answers to a request is what it answers to the operation *)
(* that the client was called with.                                        *)
LEMMA SameAnswer ==
  ASSUME NEW op \in Operations, NEW net
  PROVE  LET d == Decoded[op] IN
         /\ Answer(d, net) = Answer(op, net)
         /\ \A a : After(d, a) = After(op, a) /\ Status(d, a) = Status(op, a)
                     /\ Body(d, a) = Body(op, a)
<1>1. CASE op.do # "testSource"
  <2>1. Decoded[op] = op
    BY <1>1, DecodedIsMeant
  <2> QED BY <2>1
<1>2. CASE op.do = "testSource"
  <2> DEFINE d == Decoded[op]
  <2>1. d.do = "testSource" /\ d.arg = op.arg
    BY <1>2, DecodedIsMeant
  <2> HIDE DEF d
  <2>2. Answer(d, net) = IF net /\ Connects(d.arg) THEN Ok(Nothing) ELSE Error
    BY <2>1 DEF Answer
  <2>3. Answer(op, net) = IF net /\ Connects(op.arg) THEN Ok(Nothing) ELSE Error
    BY <1>2 DEF Answer
  <2>4. \A a : After(d, a) = db /\ After(op, a) = db
    BY <1>2, <2>1 DEF After, Effect
  <2>5. \A a : Status(d, a) = Status(op, a) /\ Body(d, a) = Body(op, a)
    BY <1>2, <2>1 DEF Status, Body, Writes
  <2> QED BY <2>1, <2>2, <2>3, <2>4, <2>5 DEF d
<1> QED BY <1>1, <1>2

(* The store finds what it is asked for, or not, or fails.                 *)
LEMMA AnswerResults ==
  ASSUME NEW op \in RecipeOps \cup SourceOps, NEW net
  PROVE  /\ Answer(op, net).result \in {"ok", "not found", "error"}
         /\ op.do = "testSource" /\ Answer(op, net).result = "ok" =>
              Answer(op, net).value = Nothing
<1>1. op.do \in {"list", "get", "history", "resolve", "version", "rollback", "put",
                 "listSources", "putSource", "deleteSource", "testSource"}
  BY KindsOfOperations DEF Operations
<1> QED BY <1>1 DEF Answer, Ok, NotFound, Error

(* A status and a body say what a report in memory says.                   *)
LEMMA OutcomeIsReport ==
  ASSUME NEW op \in RecipeOps \cup SourceOps, NEW net, NEW cookie
  PROVE  LET a == Answer(op, net) IN
         Outcome(op, [status |-> Status(op, a), body |-> Body(op, a), cookie |-> cookie])
           = Reported(op, a)
<1> DEFINE a == Answer(op, net)
           response == [status |-> Status(op, a), body |-> Body(op, a), cookie |-> cookie]
<1> SUFFICES Outcome(op, response) = Reported(op, a)
  OBVIOUS
<1>1. a.result \in {"ok", "not found", "error"}
  BY AnswerResults
<1>2. op.do = "testSource" /\ a.result = "ok" => a.value = Nothing
  BY AnswerResults
<1>3. op.do \notin {"login", "logout"}
  BY KindsOfOperations DEF Operations
<1> HIDE DEF a
<1>4. response.status = Status(op, a) /\ response.body = Body(op, a)
  OBVIOUS
<1> HIDE DEF response
<1>5. CASE a.result = "ok" /\ op.do # "testSource"
  <2>1. response.status = IF op.do \in Writes THEN 204 ELSE 200
    BY <1>4, <1>5 DEF Status
  <2>2. response.body = Shown(op, a.value)
    BY <1>4, <1>5 DEF Body
  <2> QED BY <1>3, <1>5, <2>1, <2>2 DEF Outcome, Reported
<1>6. CASE a.result = "ok" /\ op.do = "testSource"
  <2>1. response.status = 200 /\ response.body = TRUE
    BY <1>4, <1>6 DEF Status, Body, Writes
  <2>2. Reported(op, a) = Ok(Nothing)
    BY <1>2, <1>6 DEF Reported, Shown
  <2> QED BY <1>6, <2>1, <2>2 DEF Outcome, Writes
<1>7. CASE a.result # "ok"
  <2>1. Reported(op, a) = Failed
    BY <1>7 DEF Reported
  <2>2. \/ response.status \in {404, 500}
        \/ op.do = "testSource" /\ response.body = FALSE
    BY <1>1, <1>4, <1>7 DEF Status, Body
  <2> QED BY <2>1, <2>2 DEF Outcome
<1> QED BY <1>5, <1>6, <1>7

(* A refusal is a failure of an operation behind the gate.                 *)
LEMMA RefusalFails ==
  ASSUME NEW op \in Operations, RouteOf[op].gated,
         NEW status \in {401, 403}, NEW cookie
  PROVE  /\ op.do \in Writes \cup {"testSource"}
         /\ Outcome(op, [status |-> status, body |-> Nothing, cookie |-> cookie]) = Failed
<1>1. op.do \in Writes \cup {"testSource"}
  BY DecodedIsMeant DEF Handler, Routes, Route, Writes
<1>2. status # 204 /\ status # 200
  OBVIOUS
<1> QED BY <1>1, <1>2 DEF Outcome

LEMMA Responds ==
  ASSUME CentralInv, NEW c \in Clients, NEW status, NEW body, NEW cookie,
         Respond(c, status, body, cookie)
  PROVE  /\ call'[c].result = [status |-> status, body |-> body, cookie |-> cookie]
         /\ \A d \in Clients \ {c} : call'[d] = call[d]
BY DEF Respond, CentralInv, Shape

(* A call is answered by the server, and by nobody else.                   *)
LEMMA OnlyTheServerAnswers ==
  ASSUME CentralInv, Next, NEW c \in Clients, Answered(c)
  PROVE  Serve(c)
<1>1. ASSUME NEW d \in Processes,
             \/ \E op \in LocalOps : StartLocal(d, op)
             \/ OpenFile(d)
             \/ \E net \in BOOLEAN : Operate(d, net)
             \/ Kill(d)
      PROVE  FALSE
  BY <1>1 DEF StartLocal, OpenFile, Operate, Kill, Finish, Idle, Answered, CentralInv, Shape,
              Clients
<1>2. ASSUME NEW d \in Clients, NEW op, NEW bearer, Send(d, op, bearer)
      PROVE  FALSE
  BY <1>2 DEF Send, Answered, CentralInv, Shape
<1>3. ASSUME NEW d \in Processes, \E op \in RemoteOps, t \in Bearers : StartRemote(d, op, t)
      PROVE  FALSE
  BY <1>2, <1>3 DEF StartRemote, Clients
<1>4. ASSUME NEW d \in Clients, Receive(d) \/ Disconnect(d)
      PROVE  FALSE
  BY <1>4 DEF Receive, Disconnect, Finish, Idle, Answered, CentralInv, Shape
<1>5. ASSUME (\E t \in Tokens \cup {NoToken} : Boot(t)) \/ Crash \/ Tick
      PROVE  FALSE
  BY <1>5 DEF Boot, Crash, Tick, Idle, Answered
<1>6. ASSUME NEW d \in Clients, Serve(d)
      PROVE  d = c
  <2>1. \E s, b, k : Respond(d, s, b, k)
    BY <1>6 DEF Serve, Refuse, Handle, HandleLogin, HandleLogout, HandleSession
  <2> QED BY <2>1, Responds DEF Answered
<1>7. ASSUME NEW b \in Browsers, \E op \in BrowserOps : Send(b, op, NoToken)
      PROVE  FALSE
  BY <1>2, <1>7 DEF Clients
<1> QED BY <1>1, <1>3, <1>4, <1>5, <1>6, <1>7 DEF Next

(* Remote is like local: what the client makes of an answer is what the    *)
(* store says at that moment to the operation it was called with, whose    *)
(* effect is done, or the request was refused and nothing was done.        *)
THEOREM RemoteIsLikeLocal == Spec => RemoteLikeLocal
<1>1. ASSUME CentralInv, Next, NEW c \in Clients, Answered(c), call[c].op \notin SessionOps
      PROVE  LikeLocal(c)
  <2> DEFINE op == call[c].op
             d == Decoded[op]
  <2>1. Serve(c)
    BY <1>1, OnlyTheServerAnswers
  <2>2. op \in Operations
    BY <1>1 DEF CentralInv, CallsFit, Answered
  <2>3. op \in RecipeOps \cup SourceOps /\ op.do \notin {"login", "logout", "session"}
    BY <1>1, <2>2, KindsOfOperations DEF Operations
  <2>4. CASE Refuse(c)
    <3>1. PICK s \in {401, 403} : Respond(c, s, Nothing, NoCookie)
      BY <2>4 DEF Refuse
    <3>2. call'[c].result = [status |-> s, body |-> Nothing, cookie |-> NoCookie]
      BY <1>1, <3>1, Responds
    <3>3. RouteOf[op].gated /\ db' = db
      BY <2>4 DEF Refuse
    <3> QED BY <2>2, <3>2, <3>3, RefusalFails DEF LikeLocal
  <2>5. CASE \E net \in BOOLEAN : Handle(c, net)
    <3>1. PICK net \in BOOLEAN : Handle(c, net)
      BY <2>5
    <3> DEFINE a == Answer(op, net)
    <3>2. /\ db' = After(d, Answer(d, net))
          /\ Respond(c, Status(d, Answer(d, net)), Body(d, Answer(d, net)), NoCookie)
      BY <3>1 DEF Handle
    <3>3. db' = After(op, a) /\ Respond(c, Status(op, a), Body(op, a), NoCookie)
      BY <2>2, <3>2, SameAnswer
    <3>4. call'[c].result = [status |-> Status(op, a), body |-> Body(op, a),
                             cookie |-> NoCookie]
      BY <1>1, <3>3, Responds
    <3>5. Outcome(op, call'[c].result) = Reported(op, a)
      BY <2>3, <3>4, OutcomeIsReport
    <3> QED BY <3>3, <3>5 DEF LikeLocal
  <2>6. ~HandleLogin(c) /\ ~HandleLogout(c) /\ ~HandleSession(c)
    BY <2>2, <2>3, DecodedIsMeant DEF HandleLogin, HandleLogout, HandleSession, Arrived
  <2> QED BY <2>1, <2>4, <2>5, <2>6 DEF Serve
<1>2. CentralInv /\ [Next]_vars =>
        [\A c \in Clients : Answered(c) /\ call[c].op \notin SessionOps => LikeLocal(c)]_vars
  BY <1>1
<1> QED BY <1>2, CentralInvHolds, PTL DEF Spec, RemoteLikeLocal

-----------------------------------------------------------------------------
(* Types.  The versions that calls in flight may yet add are counted: a    *)
(* log has room for all of them.                                           *)
InFlight == {"opening", "operating", "sent"}
Pending(n) ==
  {c \in Clients : /\ call[c].at \in InFlight
                   /\ call[c].op.do \in {"put", "rollback"}
                   /\ call[c].op.name = n}

Databases == [log : [RecipeNames -> Seq(Bodies)],
              sources : [SourceNames -> Entries \cup {Nothing}]]

RoomForAll ==
  \A n \in RecipeNames : Len(db.log[n]) + Cardinality(Pending(n)) <= MaxVersions

(* Whoever has the file open operates on it; a token is a server's.        *)
FileIsHeld ==
  /\ holder \in Processes \cup {NoOne, "server"}
  /\ \A c \in Processes : holder = c => call[c].at = "operating"
  /\ token # NoToken => holder = "server"

CallsTyped ==
  \A c \in Clients :
    /\ call[c].at \in {"idle", "opening", "operating", "sent", "answered"}
    /\ call[c].at # "idle" => call[c].op \in Operations

StoreInv ==
  /\ db \in Databases
  /\ RoomForAll
  /\ FileIsHeld
  /\ CallsTyped

LEMMA PendingIsFinite ==
  ASSUME NEW n
  PROVE  IsFiniteSet(Pending(n)) /\ Cardinality(Pending(n)) \in Nat
<1>1. Pending(n) \in SUBSET Clients
  BY DEF Pending
<1>2. IsFiniteSet(Pending(n))
  BY <1>1, ClientsAssumption, FS_Subset
<1> QED BY <1>2, FS_CardinalityType

(* What the store makes of an operation is a database, with one version    *)
(* more at most, of the Recipe that was put or rolled back.                *)
LEMMA EffectIsTyped ==
  ASSUME db \in Databases, NEW op \in Operations, NEW net
  PROVE  LET e == After(op, Answer(op, net)) IN
         /\ e \in Databases
         /\ \A n \in RecipeNames :
              \/ e.log[n] = db.log[n]
              \/ /\ op.do \in {"put", "rollback"} /\ op.name = n
                 /\ Len(e.log[n]) = Len(db.log[n]) + 1
<1> DEFINE e == After(op, Answer(op, net))
           n == op.name
<1>1. /\ db = [log |-> db.log, sources |-> db.sources]
      /\ db.log \in [RecipeNames -> Seq(Bodies)]
      /\ db.sources \in [SourceNames -> Entries \cup {Nothing}]
  BY DEF Databases
<1>2. ASSUME NEW b \in Bodies, n \in RecipeNames, op.do \in {"put", "rollback"},
             e = [db EXCEPT !.log[n] = Append(@, b)]
      PROVE  /\ e \in Databases
             /\ \A m \in RecipeNames : \/ e.log[m] = db.log[m]
                                       \/ n = m /\ Len(e.log[m]) = Len(db.log[m]) + 1
  <2> DEFINE l == [db.log EXCEPT ![n] = Append(@, b)]
  <2>1. e = [log |-> l, sources |-> db.sources]
    BY <1>1, <1>2
  <2>2. db.log[n] \in Seq(Bodies)
    BY <1>1, <1>2
  <2>3. Append(db.log[n], b) \in Seq(Bodies) /\ Len(Append(db.log[n], b)) = Len(db.log[n]) + 1
    BY <2>2, AppendProperties
  <2>4. l \in [RecipeNames -> Seq(Bodies)]
    BY <1>1, <2>3
  <2>5. \A m \in RecipeNames : l[m] = IF m = n THEN Append(db.log[n], b) ELSE db.log[m]
    BY <1>1
  <2> HIDE DEF l, e
  <2>6. e \in Databases
    BY <1>1, <2>1, <2>4 DEF Databases
  <2>7. e.log = l
    BY <2>1
  <2> QED BY <2>3, <2>5, <2>6, <2>7
<1>3. CASE op.do = "put"
  <2>1. n \in RecipeNames /\ op.arg \in Bodies
    BY <1>3 DEF Operations, RecipeOps, SourceOps, SessionOps, Op
  <2>2. Answer(op, net) = Ok(Nothing)
    BY <1>3 DEF Answer
  <2>3. e = [db EXCEPT !.log[n] = Append(@, op.arg)]
    BY <1>3, <2>2 DEF After, Effect, Ok
  <2> QED BY <1>2, <1>3, <2>1, <2>3
<1>4. CASE op.do = "rollback"
  <2>1. n \in RecipeNames
    BY <1>4 DEF Operations, RecipeOps, SourceOps, SessionOps, Op
  <2>2. CASE op.arg \in DOMAIN db.log[n]
    <3>1. db.log[n] \in Seq(Bodies)
      BY <1>1, <2>1
    <3>2. db.log[n][op.arg] \in Bodies
      BY <2>2, <3>1, LenProperties, ElementOfSeq
    <3>3. Answer(op, net) = Ok(Nothing)
      BY <1>4, <2>2 DEF Answer
    <3>4. e = [db EXCEPT !.log[n] = Append(@, @[op.arg])]
      BY <1>4, <3>3 DEF After, Effect, Ok
    <3>5. e = [db EXCEPT !.log[n] = Append(@, db.log[n][op.arg])]
      BY <1>1, <2>1, <3>4
    <3> QED BY <1>2, <1>4, <2>1, <3>2, <3>5
  <2>3. CASE op.arg \notin DOMAIN db.log[n]
    <3>1. e = db
      BY <1>4, <2>3 DEF After, Answer, NotFound
    <3> QED BY <3>1
  <2> QED BY <2>2, <2>3
<1>5. CASE op.do = "putSource" \/ op.do = "deleteSource"
  <2>1. n \in SourceNames /\ (op.do = "putSource" => op.arg \in Entries)
    BY <1>5 DEF Operations, RecipeOps, SourceOps, SessionOps, Op
  <2>2. \E v \in Entries \cup {Nothing} : e \in {db, [db EXCEPT !.sources[n] = v]}
    BY <1>5, <2>1 DEF After, Effect
  <2> HIDE DEF e
  <2>3. e \in Databases /\ e.log = db.log
    BY <1>1, <2>1, <2>2 DEF Databases
  <2> QED BY <2>3 DEF e
<1>6. CASE op.do \notin {"put", "rollback", "putSource", "deleteSource"}
  <2>1. e = db
    BY <1>6 DEF After, Effect
  <2> QED BY <2>1
<1> QED BY <1>3, <1>4, <1>5, <1>6

(* Room stays if no call is pending that was not.                          *)
LEMMA RoomStays ==
  ASSUME db \in Databases, RoomForAll, UNCHANGED db,
         \A n \in RecipeNames : Pending(n)' \subseteq Pending(n)
  PROVE  RoomForAll'
<1> SUFFICES ASSUME NEW n \in RecipeNames
             PROVE  Len(db.log[n]) + Cardinality(Pending(n)') <= MaxVersions
  BY DEF RoomForAll
<1> DEFINE S == Pending(n)
           T == Pending(n)'
<1>1. IsFiniteSet(S) /\ Cardinality(S) \in Nat /\ T \in SUBSET S
  BY PendingIsFinite
<1> HIDE DEF S, T
<1>2. IsFiniteSet(T) /\ Cardinality(T) <= Cardinality(S)
  BY <1>1, FS_Subset
<1>3. Cardinality(T) \in Nat
  BY <1>2, FS_CardinalityType
<1>4. Len(db.log[n]) \in Nat /\ Len(db.log[n]) + Cardinality(S) <= MaxVersions
  BY LenProperties DEF Databases, RoomForAll, S
<1> QED BY <1>1, <1>2, <1>3, <1>4 DEF T

(* A call that starts has been found room.                                 *)
LEMMA RoomForOneMore ==
  ASSUME db \in Databases, RoomForAll, UNCHANGED db,
         NEW c \in Clients, call[c].at = "idle",
         NEW op, Room(op), call'[c].op.do = op.do, call'[c].op.name = op.name,
         \A d \in Clients \ {c} : call'[d] = call[d]
  PROVE  RoomForAll'
<1> SUFFICES ASSUME NEW n \in RecipeNames
             PROVE  Len(db.log[n]) + Cardinality(Pending(n)') <= MaxVersions
  BY DEF RoomForAll
<1> DEFINE S == Pending(n)
           T == Pending(n)'
           B == {d \in Clients : call[d].at # "idle" /\ call[d].op.name = n}
<1>1. IsFiniteSet(S) /\ Cardinality(S) \in Nat /\ c \notin S
  <2>1. c \notin S
    BY DEF Pending, InFlight
  <2> QED BY <2>1, PendingIsFinite
<1>2. Len(db.log[n]) \in Nat /\ Len(db.log[n]) + Cardinality(S) <= MaxVersions
  BY LenProperties DEF Databases, RoomForAll
<1>3. CASE op.do \in {"put", "rollback"} /\ op.name = n
  <2>1. Len(db.log[n]) + Cardinality(B) < MaxVersions
    BY <1>3 DEF Room
  <2>2. S \in SUBSET B /\ B \in SUBSET Clients
    BY DEF Pending, InFlight
  <2>3. T \in SUBSET (S \cup {c})
    BY DEF Pending
  <2> HIDE DEF S, T, B
  <2>4. IsFiniteSet(B) /\ Cardinality(S) <= Cardinality(B) /\ Cardinality(B) \in Nat
    BY <2>2, ClientsAssumption, FS_Subset, FS_CardinalityType
  <2>5. IsFiniteSet(S \cup {c}) /\ Cardinality(S \cup {c}) = Cardinality(S) + 1
    BY <1>1, FS_AddElement
  <2>6. IsFiniteSet(T) /\ Cardinality(T) <= Cardinality(S) + 1 /\ Cardinality(T) \in Nat
    BY <2>3, <2>5, FS_Subset, FS_CardinalityType
  <2>7. Len(db.log[n]) + Cardinality(T) <= MaxVersions
    BY <1>1, <1>2, <2>1, <2>4, <2>6
  <2> QED BY <2>7 DEF T
<1>4. CASE ~(op.do \in {"put", "rollback"} /\ op.name = n)
  <2>1. T \in SUBSET S
    BY <1>4 DEF Pending
  <2> HIDE DEF S, T
  <2>2. Cardinality(T) <= Cardinality(S) /\ Cardinality(T) \in Nat
    BY <1>1, <2>1, FS_Subset, FS_CardinalityType
  <2>3. Len(db.log[n]) + Cardinality(T) <= MaxVersions
    BY <1>1, <1>2, <2>2
  <2> QED BY <2>3 DEF T
<1> QED BY <1>3, <1>4

(* A call that takes effect is pending no more.                            *)
LEMMA RoomAfterEffect ==
  ASSUME db \in Databases, RoomForAll, NEW c \in Clients, NEW net,
         call[c].at \in InFlight, call[c].op \in Operations,
         db' = After(call[c].op, Answer(call[c].op, net)),
         call'[c].at \notin InFlight, \A d \in Clients \ {c} : call'[d] = call[d]
  PROVE  db' \in Databases /\ RoomForAll'
<1> DEFINE op == call[c].op
<1>1. /\ db' \in Databases
      /\ \A n \in RecipeNames :
           \/ db'.log[n] = db.log[n]
           \/ /\ op.do \in {"put", "rollback"} /\ op.name = n
              /\ Len(db'.log[n]) = Len(db.log[n]) + 1
  BY EffectIsTyped
<1>2. ASSUME NEW n \in RecipeNames
      PROVE  Len(db'.log[n]) + Cardinality(Pending(n)') <= MaxVersions
  <2> DEFINE S == Pending(n)
             T == Pending(n)'
  <2>1. IsFiniteSet(S) /\ Cardinality(S) \in Nat /\ T \in SUBSET (S \ {c})
    <3>1. T \in SUBSET (S \ {c})
      BY DEF Pending
    <3> QED BY <3>1, PendingIsFinite
  <2>2. Len(db.log[n]) \in Nat /\ Len(db.log[n]) + Cardinality(S) <= MaxVersions
    BY LenProperties DEF Databases, RoomForAll
  <2>3. op.do \in {"put", "rollback"} /\ op.name = n => c \in S
    BY DEF Pending
  <2> HIDE DEF S, T
  <2>4. IsFiniteSet(S \ {c})
        /\ Cardinality(S \ {c}) = IF c \in S THEN Cardinality(S) - 1 ELSE Cardinality(S)
    BY <2>1, FS_RemoveElement
  <2>5. IsFiniteSet(T) /\ Cardinality(T) <= Cardinality(S \ {c}) /\ Cardinality(T) \in Nat
    BY <2>1, <2>4, FS_Subset, FS_CardinalityType
  <2>6. Len(db'.log[n]) + Cardinality(T) <= MaxVersions
    <3>1. CASE db'.log[n] = db.log[n]
      BY <2>1, <2>2, <2>4, <2>5, <3>1
    <3>2. CASE c \in S /\ Len(db'.log[n]) = Len(db.log[n]) + 1
      BY <2>1, <2>2, <2>4, <2>5, <3>2
    <3> HIDE DEF op
    <3> QED BY <1>1, <2>3, <3>1, <3>2
  <2> QED BY <2>6 DEF T
<1> QED BY <1>1, <1>2 DEF RoomForAll

(* A step of one client, by what it has before and after.                  *)
LEMMA CallsStayTyped ==
  ASSUME CallsTyped, NEW c \in Clients, \A d \in Clients \ {c} : call'[d] = call[d],
         call'[c].at \in {"idle", "opening", "operating", "sent", "answered"},
         call'[c].at # "idle" => call'[c].op \in Operations
  PROVE  CallsTyped'
BY DEF CallsTyped

LEMMA PendingAfterOne ==
  ASSUME NEW c \in Clients, \A d \in Clients \ {c} : call'[d] = call[d],
         call'[c].at \in InFlight => call[c].at \in InFlight /\ call'[c].op = call[c].op
  PROVE  \A n \in RecipeNames : Pending(n)' \subseteq Pending(n)
BY DEF Pending

LEMMA CommandIsAlike ==
  ASSUME NEW op \in RecipeOps \cup SourceOps
  PROVE  Command(op).do = op.do /\ Command(op).name = op.name
<1>1. op = [do |-> op.do, name |-> op.name, arg |-> op.arg]
  BY DEF RecipeOps, SourceOps, Op
<1> QED BY <1>1 DEF Command

LEMMA FinishTypes ==
  ASSUME CentralInv, StoreInv, NEW c \in Clients, Finish(c), UNCHANGED <<db, token>>,
         holder' = IF holder = c THEN NoOne ELSE holder
  PROVE  StoreInv'
<1>1. call'[c] = Idle /\ \A d \in Clients \ {c} : call'[d] = call[d]
  BY DEF Finish, CentralInv, Shape
<1>2. call'[c].at = "idle"
  BY <1>1 DEF Idle
<1>3. CallsTyped'
  BY <1>1, <1>2, CallsStayTyped DEF StoreInv
<1>4. RoomForAll'
  BY <1>1, <1>2, PendingAfterOne, RoomStays DEF StoreInv, InFlight
<1>5. FileIsHeld'
  BY <1>1, <1>2 DEF StoreInv, FileIsHeld, Clients
<1> QED BY <1>3, <1>4, <1>5 DEF StoreInv

LEMMA StartLocalTypes ==
  ASSUME CentralInv, StoreInv, NEW c \in Processes, NEW op \in LocalOps, StartLocal(c, op)
  PROVE  StoreInv'
<1>1. c \in Clients /\ op \in RecipeOps \cup SourceOps
  BY DEF Clients
<1>2. call'[c].at = "opening" /\ call'[c].op = Command(op)
  <2>1. call[c] = [at |-> call[c].at, op |-> call[c].op, bearer |-> call[c].bearer,
                   cookie |-> call[c].cookie, result |-> call[c].result]
    BY <1>1 DEF CentralInv, Shape
  <2>2. call'[c] = [call[c] EXCEPT !.at = "opening", !.op = Command(op)]
    BY <1>1 DEF StartLocal, CentralInv, Shape
  <2>3. call'[c] = [at |-> "opening", op |-> Command(op), bearer |-> call[c].bearer,
                    cookie |-> call[c].cookie, result |-> call[c].result]
    BY <2>1, <2>2, OpenedCall
  <2> QED BY <2>3
<1>3. \A d \in Clients \ {c} : call'[d] = call[d]
  BY DEF StartLocal, CentralInv, Shape
<1>4. /\ Command(op) \in Operations
      /\ Command(op).do = op.do /\ Command(op).name = op.name
  BY <1>1, CommandsAreOperations, CommandIsAlike DEF Operations
<1>5. CallsTyped'
  BY <1>1, <1>2, <1>3, <1>4, CallsStayTyped DEF StoreInv
<1>6. RoomForAll'
  BY <1>1, <1>2, <1>3, <1>4, RoomForOneMore DEF StoreInv, StartLocal
<1>7. FileIsHeld'
  BY <1>1, <1>3 DEF StoreInv, FileIsHeld, StartLocal, Clients
<1> QED BY <1>5, <1>6, <1>7 DEF StoreInv, StartLocal

LEMMA SendTypes ==
  ASSUME CentralInv, StoreInv, NEW c \in Clients, NEW o \in Operations, NEW bearer,
         Send(c, o, bearer)
  PROVE  StoreInv'
<1>1. /\ call'[c].at = "sent" /\ call'[c].op = o
      /\ \A d \in Clients \ {c} : call'[d] = call[d]
  BY DEF Send, CentralInv, Shape
<1>2. CallsTyped'
  BY <1>1, CallsStayTyped DEF StoreInv
<1>3. RoomForAll'
  BY <1>1, RoomForOneMore DEF StoreInv, Send
<1>4. FileIsHeld'
  BY <1>1 DEF StoreInv, FileIsHeld, Send, Clients
<1> QED BY <1>2, <1>3, <1>4 DEF StoreInv, Send

LEMMA StartRemoteTypes ==
  ASSUME CentralInv, StoreInv, NEW c \in Processes, NEW op \in RemoteOps, NEW t,
         StartRemote(c, op, t)
  PROVE  StoreInv'
<1>1. c \in Clients /\ op \in RecipeOps \cup SourceOps
  BY DEF Clients
<1>2. op \in Operations /\ Command(op) \in Operations
  BY <1>1, CommandsAreOperations DEF Operations
<1> QED BY <1>1, <1>2, SendTypes DEF StartRemote

LEMMA OpenFileTypes ==
  ASSUME CentralInv, StoreInv, NEW c \in Processes, OpenFile(c)
  PROVE  StoreInv'
<1>1. c \in Clients
  BY DEF Clients
<1>2. /\ call'[c].at = "operating" /\ call'[c].op = call[c].op
      /\ \A d \in Clients \ {c} : call'[d] = call[d]
  BY <1>1 DEF OpenFile, CentralInv, Shape
<1>3. call[c].at = "opening" /\ holder = NoOne /\ holder' = c /\ UNCHANGED <<db, token>>
  BY DEF OpenFile
<1>4. CallsTyped'
  BY <1>1, <1>2, <1>3, CallsStayTyped DEF StoreInv, CallsTyped
<1>5. RoomForAll'
  BY <1>1, <1>2, <1>3, PendingAfterOne, RoomStays DEF StoreInv, InFlight
<1>6. FileIsHeld'
  BY <1>1, <1>2, <1>3 DEF StoreInv, FileIsHeld, Clients
<1> QED BY <1>3, <1>4, <1>5, <1>6 DEF StoreInv

LEMMA OperateTypes ==
  ASSUME CentralInv, StoreInv, NEW c \in Processes, NEW net, Operate(c, net)
  PROVE  StoreInv'
<1>1. c \in Clients
  BY DEF Clients
<1>2. /\ call'[c] = Idle /\ Idle.at = "idle"
      /\ \A d \in Clients \ {c} : call'[d] = call[d]
  BY <1>1 DEF Operate, Finish, CentralInv, Shape, Idle
<1>3. /\ call[c].at = "operating" /\ holder = c /\ holder' = NoOne /\ UNCHANGED token
      /\ db' = After(call[c].op, Answer(call[c].op, net))
  BY <1>1 DEF Operate, CentralInv, CallsFit
<1>4. call[c].op \in Operations
  BY <1>1, <1>3 DEF StoreInv, CallsTyped
<1>5. CallsTyped'
  BY <1>1, <1>2, CallsStayTyped DEF StoreInv
<1>6. db' \in Databases /\ RoomForAll'
  BY <1>1, <1>2, <1>3, <1>4, RoomAfterEffect DEF StoreInv, InFlight
<1>7. FileIsHeld'
  BY <1>1, <1>2, <1>3 DEF StoreInv, FileIsHeld, Clients
<1> QED BY <1>5, <1>6, <1>7 DEF StoreInv

(* An answer from the server, which has the file open.                     *)
LEMMA RespondTypes ==
  ASSUME CentralInv, StoreInv, NEW c \in Clients, NEW status, NEW body, NEW cookie,
         Respond(c, status, body, cookie), holder = "server", call[c].at = "sent"
  PROVE  /\ CallsTyped' /\ FileIsHeld'
         /\ call'[c].at = "answered" /\ \A d \in Clients \ {c} : call'[d] = call[d]
         /\ UNCHANGED db => StoreInv'
<1>1. /\ call'[c].at = "answered" /\ call'[c].op = call[c].op
      /\ \A d \in Clients \ {c} : call'[d] = call[d]
  BY DEF Respond, CentralInv, Shape
<1>2. CallsTyped'
  BY <1>1, CallsStayTyped DEF StoreInv, CallsTyped
<1>3. FileIsHeld'
  <2>1. UNCHANGED <<holder, token>>
    BY DEF Respond
  <2> QED BY <2>1, NoOneAssumption DEF StoreInv, FileIsHeld, Clients
<1>4. UNCHANGED db => RoomForAll'
  BY <1>1, PendingAfterOne, RoomStays DEF StoreInv, InFlight
<1> QED BY <1>1, <1>2, <1>3, <1>4 DEF StoreInv

LEMMA ServeTypes ==
  ASSUME CentralInv, StoreInv, NEW c \in Clients, Serve(c)
  PROVE  StoreInv'
<1>1. holder = "server" /\ call[c].at = "sent"
  BY DEF Serve, Refuse, Handle, HandleLogin, HandleLogout, HandleSession, Arrived
<1>2. CASE Refuse(c) \/ HandleLogin(c) \/ HandleLogout(c) \/ HandleSession(c)
  <2>1. UNCHANGED db /\ \E s, b, k : Respond(c, s, b, k)
    BY <1>2 DEF Refuse, HandleLogin, HandleLogout, HandleSession
  <2> QED BY <1>1, <2>1, RespondTypes
<1>3. CASE \E net \in BOOLEAN : Handle(c, net)
  <2> DEFINE op == call[c].op
             d == Decoded[op]
  <2>1. PICK net \in BOOLEAN : Handle(c, net)
    BY <1>3
  <2>2. op \in Operations
    BY <1>1 DEF StoreInv, CallsTyped
  <2>3. /\ db' = After(d, Answer(d, net))
        /\ Respond(c, Status(d, Answer(d, net)), Body(d, Answer(d, net)), NoCookie)
    BY <2>1 DEF Handle
  <2>4. db' = After(op, Answer(op, net))
    BY <2>2, <2>3, SameAnswer
  <2>5. /\ CallsTyped' /\ FileIsHeld'
        /\ call'[c].at = "answered" /\ \A e \in Clients \ {c} : call'[e] = call[e]
    BY <1>1, <2>3, RespondTypes
  <2>6. db' \in Databases /\ RoomForAll'
    BY <1>1, <2>2, <2>4, <2>5, RoomAfterEffect DEF StoreInv, InFlight
  <2> QED BY <2>5, <2>6 DEF StoreInv
<1> QED BY <1>2, <1>3 DEF Serve

LEMMA ReceiveTypes ==
  ASSUME CentralInv, StoreInv, NEW c \in Clients, Receive(c) \/ Disconnect(c)
  PROVE  StoreInv'
<1>1. /\ Finish(c) /\ UNCHANGED <<db, token, holder>>
      /\ call[c].at \in {"sent", "answered"}
  BY DEF Receive, Disconnect
<1>2. holder # c
  BY <1>1, NoOneAssumption DEF StoreInv, FileIsHeld, Clients
<1> QED BY <1>1, <1>2, FinishTypes

LEMMA BootTypes ==
  ASSUME StoreInv, NEW t \in Tokens \cup {NoToken}, Boot(t)
  PROVE  StoreInv'
<1>1. UNCHANGED <<db, call>> /\ holder' = "server"
  BY DEF Boot
<1>2. \A n \in RecipeNames : Pending(n)' \subseteq Pending(n)
  BY <1>1 DEF Pending
<1>3. RoomForAll'
  BY <1>1, <1>2, RoomStays DEF StoreInv
<1>4. FileIsHeld'
  BY <1>1, NoOneAssumption DEF FileIsHeld, Clients
<1> QED BY <1>1, <1>3, <1>4 DEF StoreInv, CallsTyped

LEMMA CrashTypes ==
  ASSUME CentralInv, StoreInv, Crash
  PROVE  StoreInv'
<1>1. /\ \A c \in Clients : call'[c] = Idle \/ call'[c] = call[c]
      /\ UNCHANGED db /\ holder' = NoOne /\ token' = NoToken
  BY DEF Crash
<1>2. Idle.at = "idle" /\ "idle" \notin InFlight
  BY DEF Idle, InFlight
<1>3. \A n \in RecipeNames : Pending(n)' \subseteq Pending(n)
  BY <1>1, <1>2 DEF Pending
<1>4. RoomForAll'
  BY <1>1, <1>3, RoomStays DEF StoreInv
<1>5. FileIsHeld'
  BY <1>1, NoOneAssumption DEF FileIsHeld, Clients
<1>6. CallsTyped'
  BY <1>1, <1>2 DEF StoreInv, CallsTyped
<1> QED BY <1>1, <1>4, <1>5, <1>6 DEF StoreInv

LEMMA QuietTypes ==
  ASSUME StoreInv, UNCHANGED <<db, holder, token, call>>
  PROVE  StoreInv'
<1>1. \A n \in RecipeNames : Pending(n)' \subseteq Pending(n)
  BY DEF Pending
<1>2. RoomForAll'
  BY <1>1, RoomStays DEF StoreInv
<1> QED BY <1>2 DEF StoreInv, FileIsHeld, CallsTyped

LEMMA NextKeepsStore == CentralInv /\ StoreInv /\ [Next]_vars => StoreInv'
<1> SUFFICES ASSUME CentralInv, StoreInv, [Next]_vars PROVE StoreInv'
  OBVIOUS
<1>1. ASSUME NEW c \in Processes, Kill(c) PROVE StoreInv'
  BY <1>1, FinishTypes DEF Kill, Clients
<1>2. CASE \E c \in Processes :
             \/ \E op \in LocalOps : StartLocal(c, op)
             \/ \E op \in RemoteOps, t \in Bearers : StartRemote(c, op, t)
             \/ OpenFile(c)
             \/ \E net \in BOOLEAN : Operate(c, net)
             \/ Kill(c)
  BY <1>1, <1>2, StartLocalTypes, StartRemoteTypes, OpenFileTypes, OperateTypes
<1>3. CASE \E c \in Browsers, op \in BrowserOps : Send(c, op, NoToken)
  BY <1>3, SendTypes DEF Clients
<1>4. CASE \E c \in Clients : Serve(c) \/ Receive(c) \/ Disconnect(c)
  BY <1>4, ServeTypes, ReceiveTypes
<1>5. CASE (\E t \in Tokens \cup {NoToken} : Boot(t)) \/ Crash
  BY <1>5, BootTypes, CrashTypes
<1>6. CASE Tick \/ UNCHANGED vars
  BY <1>6, QuietTypes DEF Tick, vars
<1> QED BY <1>2, <1>3, <1>4, <1>5, <1>6 DEF Next

LEMMA InitStore == Init => StoreInv
<1> SUFFICES ASSUME Init PROVE StoreInv
  OBVIOUS
<1>1. /\ \A c \in Clients : call[c].at = "idle"
      /\ db.log = [n \in RecipeNames |-> <<>>]
      /\ holder = NoOne /\ token = NoToken
  BY DEF Init, Idle
<1>2. db \in Databases
  <2>1. <<>> \in Seq(Bodies)
    BY EmptySeq
  <2> QED BY <2>1 DEF Init, Databases
<1>3. RoomForAll
  <2>1. ASSUME NEW n \in RecipeNames
        PROVE  Len(db.log[n]) = 0 /\ Cardinality(Pending(n)) = 0
    <3>1. Pending(n) = {}
      BY <1>1 DEF Pending, InFlight
    <3>2. Len(db.log[n]) = 0
      BY <1>1, EmptySeq
    <3> QED BY <3>1, <3>2, FS_EmptySet
  <2> QED BY <2>1, BoundsAssumption DEF RoomForAll
<1>4. FileIsHeld
  BY <1>1, NoOneAssumption DEF FileIsHeld, Clients
<1>5. CallsTyped
  BY <1>1 DEF CallsTyped
<1> QED BY <1>2, <1>3, <1>4, <1>5 DEF StoreInv

(* The types of the service; above all that a command operates exactly     *)
(* while it has the file open, and that a server without the file has no   *)
(* token, through crashes and kills.                                       *)
THEOREM CentralTypes == Spec => []TypeOK
<1>1. Spec => []StoreInv
  BY InitStore, NextKeepsStore, CentralInvHolds, PTL DEF Spec
<1>2. CentralInv /\ StoreInv => TypeOK
  <2> SUFFICES ASSUME CentralInv, StoreInv PROVE TypeOK
    OBVIOUS
  <2>1. \A n \in RecipeNames : db.log[n] \in Seq(Bodies) /\ Len(db.log[n]) <= MaxVersions
    <3> SUFFICES ASSUME NEW n \in RecipeNames
                 PROVE  db.log[n] \in Seq(Bodies) /\ Len(db.log[n]) <= MaxVersions
      OBVIOUS
    <3>1. db.log[n] \in Seq(Bodies)
      BY DEF StoreInv, Databases
    <3>2. Len(db.log[n]) + Cardinality(Pending(n)) <= MaxVersions
      BY DEF StoreInv, RoomForAll
    <3>3. Len(db.log[n]) \in Nat /\ Cardinality(Pending(n)) \in Nat
      BY <3>1, LenProperties, PendingIsFinite
    <3> QED BY <3>1, <3>2, <3>3, BoundsAssumption
  <2>2. db.sources \in [SourceNames -> Entries \cup {Nothing}]
    BY DEF StoreInv, Databases
  <2>3. \A c \in Processes : call[c].at = "operating" <=> holder = c
    BY DEF CentralInv, CallsFit, StoreInv, FileIsHeld, Clients
  <2>4. \A c \in Clients : call[c].cookie \in Cookies \cup {NoCookie}
    BY DEF CentralInv, CookiesIssued, Issued
  <2> QED BY <2>1, <2>2, <2>3, <2>4
          DEF TypeOK, CentralInv, Globals, StoreInv, FileIsHeld, CallsTyped
<1> QED BY <1>1, <1>2, CentralInvHolds, PTL
=============================================================================
