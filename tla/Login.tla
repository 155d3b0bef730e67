---------------------------- MODULE Login ----------------------------
(***************************************************************************)
(* Connecting, registering and logging in: the pages connectPage.c and     *)
(* loginReg.c of a client, the requests of its auth.c, the handlers of the *)
(* server's auth.c, the accounts of userDb.c and the local database of the *)
(* client.  A client has one thread that draws the pages and blocks in a   *)
(* request until the answer is there, and one detached thread per click on *)
(* "Connect".  Connections break and processes end at any moment.          *)
(***************************************************************************)
EXTENDS Naturals, Sequences, FiniteSets

CONSTANTS
    Clients,     \* machines that run the client; each has one ./db/client.db
    Names,       \* usernames
    NoName,
    Enrolled,    \* the users that exist at the start, each with a second factor
    Uids,        \* user ids the server may draw
    Secrets,     \* secrets of a second factor the server may draw
    MaxConns,    \* bound: connections at a time
    MaxRunners   \* bound: detached connecting threads of one client

ASSUME LoginAssumption ==
    /\ NoName \notin Names /\ Enrolled \subseteq Names
    /\ 0 \notin Uids /\ 0 \notin Secrets
    /\ MaxConns \in Nat \ {0} /\ MaxRunners \in Nat \ {0}

Conns == 1..MaxConns
Runners == 1..MaxRunners

VARIABLES
    users,       \* the table users: uid 0 is no row, secret 0 is NULL
    session,     \* the server's sessions; need, gave: what the second factor asked for and got
    request,     \* packets on their way to the server
    answer,      \* packets on their way to the client
    fd, aesKey,  \* Client.fd and Client.aesKey, 0 is none
    opened,      \* the sockets a client's process has open
    runner,      \* the threads that run setupRunner
    page,        \* the page on the screen
    call,        \* the request the thread of the pages is blocked in
    db, file,    \* whose key Client.db is open with, and ./db/client.db encrypted with
    label,       \* the username and the nickname on the home page
    regSuccess,
    shown,       \* history: the secrets that were put on a screen
    overlap,     \* history: two connecting threads of the client ran at a time
    silent       \* history: connections with a request that gets no answer

srvVars == <<users, session>>
wireVars == <<request, answer>>
connVars == <<fd, aesKey, opened, runner, overlap>>
pageVars == <<page, call, db, file, label, regSuccess>>
vars == <<srvVars, wireVars, connVars, pageVars, shown, silent>>

Idle == [at |-> "idle", name |-> NoName, conn |-> 0]
NoUser == [state |-> "Free", name |-> NoName, totpSecret |-> 0, need |-> 0, gave |-> 0]
ClosedSession == [NoUser EXCEPT !.state = "Closed"]
NoLabel == [user |-> NoName, nick |-> NoName]

Init ==
    /\ users \in [Names -> [uid : Uids \cup {0}, secret : Secrets \cup {0}]]
    /\ \A n \in Names : IF n \in Enrolled THEN 0 \notin {users[n].uid, users[n].secret}
                        ELSE users[n] = [uid |-> 0, secret |-> 0]
    /\ \A m, n \in Enrolled : m # n => users[m].uid # users[n].uid /\ users[m].secret # users[n].secret
    /\ session = [k \in Conns |-> NoUser]
    /\ request = [k \in Conns |-> <<>>] /\ answer = [k \in Conns |-> <<>>]
    /\ fd = [c \in Clients |-> 0] /\ aesKey = [c \in Clients |-> 0]
    /\ opened = [c \in Clients |-> {}]
    /\ runner = [c \in Clients |-> [i \in Runners |-> [pc |-> "none", conn |-> 0]]]
    /\ page = [c \in Clients |-> "connect"] /\ call = [c \in Clients |-> Idle]
    /\ db = [c \in Clients |-> 0] /\ file = [c \in Clients |-> 0]
    /\ label = [c \in Clients |-> NoLabel] /\ regSuccess = [c \in Clients |-> FALSE]
    /\ shown = {users[n].secret : n \in Enrolled}
    /\ overlap = [c \in Clients |-> FALSE] /\ silent = {}

Live(k) == k \in Conns /\ session[k].state \notin {"Free", "Closed"}

-----------------------------------------------------------------------------
(***************************************************************************)
(* The table users.  A column is opened with the DEK each time it is read, *)
(* and that fails when memory is short or the tag does not match.          *)
(***************************************************************************)
EncryptBlob(secret) == {secret, 0}   \* the envelope, or NULL
DecryptBlob(blob) == {blob, 0}       \* the plaintext, or NULL

UserExists(n) == users[n].uid # 0

(* Draws random ids until one is free, at most ten times; 0 is reserved.   *)
FreeUid(u) == u \in Uids /\ \A n \in Names : users[n].uid # u

(* What a login with this password finds: the secret of the row, or no     *)
(* secret; no user when the row, the password or the envelope is bad.      *)
VerifyUser(n, right) ==
    IF right /\ UserExists(n)
    THEN {[name |-> n, secret |-> users[n].secret], [name |-> NoName, secret |-> 0]}
    ELSE {[name |-> NoName, secret |-> 0]}

(* NULL for a user without a secret and for a secret that cannot be read.  *)
GetTOTPSecret(n) == DecryptBlob(users[n].secret)

(* The uid stands for the key that was drawn for it.                       *)
GetCDBKey(n) == DecryptBlob(users[n].uid)

SetTOTPSecret(n, secret) ==
    \E blob \in EncryptBlob(secret) \ {0} : users' = [users EXCEPT ![n].secret = blob]

-----------------------------------------------------------------------------
(***************************************************************************)
(* The server.  A handler takes the request of a connection and, in most   *)
(* cases, answers it in the same step.                                     *)
(***************************************************************************)
Msg(type, name, n) == [type |-> type, name |-> name, n |-> n]

SendEncryptedPacket(k, msg) == answer' = [answer EXCEPT ![k] = Append(@, msg)]
Handled(k) == request' = [request EXCEPT ![k] = Tail(@)]

(* clientDisconnect of server.c, or the network: what was on the wire is   *)
(* lost.                                                                   *)
Drop(k) ==
    /\ session' = [session EXCEPT ![k] = ClosedSession]
    /\ request' = [request EXCEPT ![k] = <<>>]
    /\ answer' = [answer EXCEPT ![k] = <<>>]
    /\ silent' = silent \ {k}

Received(k, type, state) ==
    /\ session[k].state = state
    /\ request[k] # <<>> /\ Head(request[k]).key = k /\ Head(request[k]).type = type

(* The table of processClient, as far as the messages of this module go.     *)
Accepted ==
    {<<"LoginReq", "Login">>, <<"RegisterReq", "Login">>,
     <<"TOTPVerifyResp", "TOTPVerify">>, <<"TOTPSetupReq", "Room">>, <<"DBKeyReq", "Room">>}

RefuseMessage(k) ==
    /\ Live(k) /\ request[k] # <<>>
    /\ \/ Head(request[k]).key # k
       \/ <<Head(request[k]).type, session[k].state>> \notin Accepted
    /\ Drop(k)
    /\ UNCHANGED <<users, connVars, pageVars, shown>>

(* Mutant: a user with a second factor is let in after the password.       *)
StartSession_NoChallenge(k, user) ==
    /\ session' = [session EXCEPT ![k] =
          [state |-> "Room", name |-> user.name,
           totpSecret |-> user.secret, need |-> user.secret, gave |-> 0]]
    /\ SendEncryptedPacket(k, Msg("LoginResp", user.name, 0))

(* Challenge the second factor if there is one, grant access otherwise.    *)
StartSession(k, user) ==
    /\ session' = [session EXCEPT ![k] =
          [state |-> IF user.secret # 0 THEN "TOTPVerify" ELSE "Room", name |-> user.name,
           totpSecret |-> user.secret, need |-> user.secret, gave |-> 0]]
    /\ SendEncryptedPacket(k, IF user.secret # 0 THEN Msg("TOTPVerifyReq", NoName, 0)
                              ELSE Msg("LoginResp", user.name, 0))

(* Mutant: a login that fails is not answered.                             *)
ServerHandleLogin_NoRefusal(k) ==
    /\ Received(k, "LoginReq", "Login")
    /\ \E user \in VerifyUser(Head(request[k]).name, Head(request[k]).n = 1) :
          IF user.name = NoName THEN UNCHANGED <<session, answer>> ELSE StartSession(k, user)
    /\ Handled(k)
    /\ UNCHANGED <<users, connVars, pageVars, shown, silent>>

ServerHandleLogin(k) ==
    /\ Received(k, "LoginReq", "Login")
    /\ \E user \in VerifyUser(Head(request[k]).name, Head(request[k]).n = 1) :
          \/ /\ user.name = NoName
             /\ SendEncryptedPacket(k, Msg("LoginResp", NoName, 0))
             /\ UNCHANGED session
          \/ user.name # NoName /\ StartSession(k, user)
    /\ Handled(k)
    /\ UNCHANGED <<users, connVars, pageVars, shown, silent>>

(* createUser: a free id, a new key, and a row unless the name is taken.   *)
CreateUser(n, u) ==
    /\ ~UserExists(n) /\ FreeUid(u)
    /\ users' = [users EXCEPT ![n].uid = u]

ServerHandleRegister(k) ==
    /\ Received(k, "RegisterReq", "Login")
    /\ \/ \E u \in Uids : CreateUser(Head(request[k]).name, u)
          /\ SendEncryptedPacket(k, Msg("RegisterResp", NoName, 0))
       \/ UNCHANGED users /\ SendEncryptedPacket(k, Msg("RegisterResp", NoName, 1))
    /\ Handled(k)
    /\ UNCHANGED <<session, connVars, pageVars, shown, silent>>

(* Stores a new secret before it was shown to anybody, unless one is found. *)
ServerHandleTOTPSetup(k) ==
    /\ Received(k, "TOTPSetupReq", "Room")
    /\ \E existing \in GetTOTPSecret(session[k].name) :
          \/ /\ existing # 0
             /\ SendEncryptedPacket(k, Msg("TOTPSetupResp", NoName, 0))
             /\ Handled(k)
             /\ UNCHANGED <<users, session, silent>>
          \/ /\ existing = 0
             /\ \E secret \in Secrets \ (shown \cup {users[n].secret : n \in Names}) :
                   /\ SetTOTPSecret(session[k].name, secret)
                   /\ session' = [session EXCEPT ![k].state = "TOTPVerify",
                                     ![k].totpSecret = secret, ![k].need = secret, ![k].gave = 0]
                   /\ SendEncryptedPacket(k, Msg("TOTPSetupResp", NoName, secret))
             /\ Handled(k)
             /\ UNCHANGED silent
          \/ existing = 0 /\ Drop(k) /\ UNCHANGED users
    /\ UNCHANGED <<connVars, pageVars, shown>>

(* A wrong code leads back to the login prompt; the secret is forgotten in *)
(* either case.                                                            *)
ServerHandleTOTPVerify(k) ==
    /\ Received(k, "TOTPVerifyResp", "TOTPVerify")
    /\ LET code == Head(request[k]).n
           good == session[k].totpSecret # 0 /\ code = session[k].totpSecret
       IN  /\ session' = [session EXCEPT ![k].totpSecret = 0, ![k].gave = code,
                             ![k].state = IF good THEN "Room" ELSE "Login"]
           /\ SendEncryptedPacket(k, Msg("LoginResp", IF good THEN session[k].name ELSE NoName, 1))
    /\ Handled(k)
    /\ UNCHANGED <<users, connVars, pageVars, shown, silent>>

(* A key that cannot be read is not answered at all.                       *)
ServerHandleDBKeyReq(k) ==
    /\ Received(k, "DBKeyReq", "Room")
    /\ \E key \in GetCDBKey(session[k].name) :
          \/ key # 0 /\ SendEncryptedPacket(k, Msg("DBKeyResp", NoName, key)) /\ UNCHANGED silent
          \/ key = 0 /\ silent' = silent \cup {k} /\ UNCHANGED answer
    /\ Handled(k)
    /\ UNCHANGED <<srvVars, connVars, pageVars, shown>>

ConnectionBreaks(k) ==
    /\ Live(k) /\ Drop(k)
    /\ UNCHANGED <<users, connVars, pageVars, shown>>

-----------------------------------------------------------------------------
(***************************************************************************)
(* Connecting.  The button starts a detached thread each time; the thread  *)
(* writes Client.fd and Client.aesKey one after the other and then turns   *)
(* the page, whatever is on the screen by then.                            *)
(***************************************************************************)
NoRunner == [pc |-> "none", conn |-> 0]

ConnectButtonOnClick(c) ==
    /\ page[c] = "connect" /\ call[c] = Idle
    /\ \E i \in Runners :
          /\ runner[c][i] = NoRunner /\ \A j \in 1..(i - 1) : runner[c][j] # NoRunner
          /\ runner' = [runner EXCEPT ![c][i].pc = "connect"]
    /\ overlap' = [overlap EXCEPT ![c] = @ \/ \E i \in Runners : runner[c][i] # NoRunner]
    /\ UNCHANGED <<srvVars, wireVars, fd, aesKey, opened, pageVars, shown, silent>>

(* A connection nobody refers to any more; the lowest one.                 *)
Unused(k) ==
    /\ ~Live(k)
    /\ \A c \in Clients : k \notin opened[c] /\ aesKey[c] # k
NextConn == {k \in Conns : Unused(k) /\ \A j \in 1..(k - 1) : ~Unused(j)}

(* Connected, keys exchanged on both sides.                                *)
ExchangeAESKey(c, i) ==
    /\ runner[c][i].pc = "connect"
    /\ \/ \E k \in NextConn :
             /\ session' = [session EXCEPT ![k] = [NoUser EXCEPT !.state = "Login"]]
             /\ runner' = [runner EXCEPT ![c][i] = [pc |-> "fd", conn |-> k]]
             /\ opened' = [opened EXCEPT ![c] = @ \cup {k}]
       \/ runner' = [runner EXCEPT ![c][i] = NoRunner] /\ UNCHANGED <<session, opened>>
    /\ UNCHANGED <<users, wireVars, fd, aesKey, overlap, pageVars, shown, silent>>

ClientConnect(c, i) ==
    /\ \/ /\ runner[c][i].pc = "fd"
          /\ fd' = [fd EXCEPT ![c] = runner[c][i].conn]
          /\ runner' = [runner EXCEPT ![c][i].pc = "key"]
          /\ UNCHANGED aesKey
       \/ /\ runner[c][i].pc = "key"
          /\ aesKey' = [aesKey EXCEPT ![c] = runner[c][i].conn]
          /\ runner' = [runner EXCEPT ![c][i].pc = "page"]
          /\ UNCHANGED fd
    /\ UNCHANGED <<srvVars, wireVars, opened, overlap, pageVars, shown, silent>>

SetupRunner(c, i) ==
    /\ runner[c][i].pc = "page"
    /\ page' = [page EXCEPT ![c] = "login"]
    /\ runner' = [runner EXCEPT ![c][i] = NoRunner]
    /\ UNCHANGED <<srvVars, wireVars, fd, aesKey, opened, overlap, call, db, file, label, regSuccess,
                   shown, silent>>

(* Client c closes these sockets.  The server takes what was sent before,  *)
(* and of a session without it sees the end at once.                       *)
CloseSockets(c, socks) ==
    LET over == {k \in socks : Live(k) /\ request[k] = <<>>}
    IN  /\ opened' = [opened EXCEPT ![c] = @ \ socks]
        /\ session' = [k \in Conns |-> IF k \in over THEN ClosedSession ELSE session[k]]
        /\ answer' = [k \in Conns |-> IF k \in over THEN <<>> ELSE answer[k]]
        /\ silent' = silent \ over
        /\ UNCHANGED request

(* Mutant: the socket is forgotten, not closed.                            *)
ClientDisconnect_LeavesSocket(c) ==
    /\ fd' = [fd EXCEPT ![c] = 0] /\ aesKey' = [aesKey EXCEPT ![c] = 0]
    /\ db' = [db EXCEPT ![c] = 0]
    /\ CloseSockets(c, {})

(* clientCloseDB, wiping the keys and closing the socket, if there is one. *)
ClientDisconnect(c) ==
    IF fd[c] = 0 THEN UNCHANGED <<fd, aesKey, db>> /\ CloseSockets(c, {})
    ELSE /\ fd' = [fd EXCEPT ![c] = 0] /\ aesKey' = [aesKey EXCEPT ![c] = 0]
         /\ db' = [db EXCEPT ![c] = 0] /\ CloseSockets(c, {fd[c]})

ExitBtn(c) ==
    /\ page[c] \in {"login", "reg"} /\ call[c] = Idle
    /\ ClientDisconnect(c)
    /\ page' = [page EXCEPT ![c] = "connect"]
    /\ UNCHANGED <<users, runner, overlap, call, file, label, regSuccess, shown>>

(* The process ends, by homeStatusExitOnClick or in the middle of anything, *)
(* and is started again.  The system closes all of its sockets.            *)
ProcessEnds(c) ==
    /\ fd' = [fd EXCEPT ![c] = 0] /\ aesKey' = [aesKey EXCEPT ![c] = 0]
    /\ CloseSockets(c, opened[c])
    /\ runner' = [runner EXCEPT ![c] = [i \in Runners |-> NoRunner]]
    /\ page' = [page EXCEPT ![c] = "connect"] /\ call' = [call EXCEPT ![c] = Idle]
    /\ db' = [db EXCEPT ![c] = 0] /\ label' = [label EXCEPT ![c] = NoLabel]
    /\ regSuccess' = [regSuccess EXCEPT ![c] = FALSE]
    /\ overlap' = [overlap EXCEPT ![c] = FALSE]
    /\ UNCHANGED <<users, file, shown>>

-----------------------------------------------------------------------------
(***************************************************************************)
(* Requests.  The thread of the pages sends and then waits for whatever    *)
(* packet is next on Client.fd.                                            *)
(***************************************************************************)
CanSend(c) == Live(fd[c])

SendRequest(c, type, name, n) ==
    request' = [request EXCEPT ![fd[c]] =
                   Append(@, [type |-> type, name |-> name, n |-> n, key |-> aesKey[c]])]

Wait(c, at, name) == call' = [call EXCEPT ![c] = [at |-> at, name |-> name, conn |-> fd[c]]]
Return(c) == call' = [call EXCEPT ![c] = Idle]
ChangePage(c, p) == page' = [page EXCEPT ![c] = p]

(* The page a failed request leaves behind.                                *)
PageAfterFailure(c, at) == IF at \in {"verify", "verifyKey"} THEN "login" ELSE page[c]

Clicks(c, p) == page[c] = p /\ call[c] = Idle

(* One click that sends a request from a page and turns to the page "to"   *)
(* before it waits.                                                        *)
Request(c, at, to, type, name, n) ==
    IF CanSend(c)
    THEN /\ SendRequest(c, type, name, n) /\ Wait(c, at, name) /\ ChangePage(c, to)
         /\ UNCHANGED answer
    ELSE ChangePage(c, IF at = "verify" THEN "login" ELSE to) /\ UNCHANGED <<wireVars, call>>

LoginBtnOnClick(c, n, right) ==
    /\ Clicks(c, "login")
    /\ Request(c, "login", "login", "LoginReq", n, IF right THEN 1 ELSE 0)
    /\ UNCHANGED <<srvVars, connVars, db, file, label, regSuccess, shown, silent>>

RegBtnOnClick(c, n) ==
    /\ Clicks(c, "reg") /\ ~regSuccess[c]
    /\ Request(c, "register", "reg", "RegisterReq", n, 0)
    /\ UNCHANGED <<srvVars, connVars, db, file, label, regSuccess, shown, silent>>

TotpRecommendYesBtnOnClick(c) ==
    /\ Clicks(c, "recommend")
    /\ Request(c, "setup", "setup", "TOTPSetupReq", NoName, 0)
    /\ UNCHANGED <<srvVars, connVars, db, file, label, regSuccess, shown, silent>>

(* The code of some secret that was shown to somebody, or a wrong one.     *)
TotpVerifyBtnOnClick(c, code) ==
    /\ Clicks(c, "verify")
    /\ Request(c, "verify", "verify", "TOTPVerifyResp", NoName, code)
    /\ UNCHANGED <<srvVars, connVars, db, file, label, regSuccess, shown, silent>>

(* The buttons that only turn the page.                                    *)
TurnsTo(c, from, to) ==
    /\ Clicks(c, from) /\ ChangePage(c, to)
    /\ regSuccess' = IF from = "reg" THEN [regSuccess EXCEPT ![c] = FALSE] ELSE regSuccess
    /\ UNCHANGED <<srvVars, wireVars, connVars, call, db, file, label, shown, silent>>

LoginToRegBtnOnClick(c) == TurnsTo(c, "login", "reg")
RegToLoginBtnOnClick(c) == TurnsTo(c, "reg", "login")
TotpRecommendNoBtnOnClick(c) == TurnsTo(c, "recommend", "home")
TotpSetupDoneBtnOnClick(c) == TurnsTo(c, "setup", "verify")

(* clientInitDB: fails when a database is open, when the file was written  *)
(* under another key, and when the disk does.                              *)
ClientInitDB(c, key) ==
    IF db[c] = 0 /\ file[c] \in {0, key} THEN BOOLEAN ELSE {FALSE}

-----------------------------------------------------------------------------
(***************************************************************************)
(* Answers.  The socket read from is Client.fd when the wait began or what *)
(* a connecting thread put there in between.                               *)
(***************************************************************************)
Waiting(c, ats, k) ==
    /\ call[c].at \in ats
    /\ k \in {call[c].conn, fd[c]} \ {0}

Receives(c, ats, types, k) ==
    /\ Waiting(c, ats, k)
    /\ answer[k] # <<>> /\ aesKey[c] = k /\ Head(answer[k]).type \in types

Taken(k) == answer' = [answer EXCEPT ![k] = Tail(@)]

ExpectedAnswer(at) ==
    CASE at = "login" -> {"LoginResp", "TOTPVerifyReq"}
      [] at \in {"loginKey", "verifyKey"} -> {"DBKeyResp"}
      [] at = "register" -> {"RegisterResp"}
      [] at = "setup" -> {"TOTPSetupResp"}
      [] at = "verify" -> {"LoginResp"}

(* No packet, one that does not open, or one of another type.              *)
RequestFails(c, k) ==
    /\ call[c] # Idle /\ Waiting(c, {call[c].at}, k)
    /\ \/ ~Live(k) /\ UNCHANGED answer
       \/ /\ answer[k] # <<>>
          /\ aesKey[c] # k \/ Head(answer[k]).type \notin ExpectedAnswer(call[c].at)
          /\ Taken(k)
    /\ Return(c) /\ ChangePage(c, PageAfterFailure(c, call[c].at))
    /\ UNCHANGED <<srvVars, request, connVars, db, file, label, regSuccess, shown, silent>>

(* Mutant: the home page gets the nickname only.                           *)
HomePageInitUpdate_NickOnly(c, nick, user) ==
    label' = [label EXCEPT ![c].nick = nick]

HomePageInitUpdate(c, nick, user) ==
    label' = [label EXCEPT ![c] = [user |-> IF user = NoName THEN @.user ELSE user, nick |-> nick]]

(* clientLoadDB: a second request before the first one returns.            *)
ClientLoadDB(c, at) ==
    IF CanSend(c)
    THEN SendRequest(c, "DBKeyReq", NoName, 0) /\ Wait(c, at, call[c].name) /\ UNCHANGED page
    ELSE Return(c) /\ ChangePage(c, PageAfterFailure(c, at)) /\ UNCHANGED request

(* A challenge turns to the page for the code, with the name that was      *)
(* typed already on the home page; uid 0 is a refusal.                     *)
ClientLogin(c, k) ==
    /\ Receives(c, {"login"}, ExpectedAnswer("login"), k)
    /\ Taken(k)
    /\ LET resp == Head(answer[k])
       IN  \/ /\ resp.type = "TOTPVerifyReq"
              /\ Return(c) /\ HomePageInitUpdate(c, NoName, call[c].name) /\ ChangePage(c, "verify")
              /\ UNCHANGED request
           \/ /\ resp.type = "LoginResp" /\ resp.name = NoName
              /\ Return(c) /\ UNCHANGED <<request, page, label>>
           \/ /\ resp.type = "LoginResp" /\ resp.name # NoName
              /\ ClientLoadDB(c, "loginKey") /\ UNCHANGED label
    /\ UNCHANGED <<srvVars, connVars, db, file, regSuccess, shown, silent>>

(* The local database is opened before the page is turned.                 *)
DBKeyArrives(c, k) ==
    /\ Receives(c, {"loginKey", "verifyKey"}, {"DBKeyResp"}, k)
    /\ Taken(k) /\ Return(c)
    /\ \E opens \in ClientInitDB(c, Head(answer[k]).n) :
          IF opens
          THEN /\ db' = [db EXCEPT ![c] = Head(answer[k]).n]
               /\ file' = [file EXCEPT ![c] = Head(answer[k]).n]
               /\ HomePageInitUpdate(c, session[k].name, call[c].name)
               /\ ChangePage(c, IF call[c].at = "loginKey" THEN "recommend" ELSE "home")
          ELSE /\ ChangePage(c, PageAfterFailure(c, call[c].at))
               /\ UNCHANGED <<db, file, label>>
    /\ UNCHANGED <<srvVars, request, connVars, regSuccess, shown, silent>>

ClientRegister(c, k) ==
    /\ Receives(c, {"register"}, {"RegisterResp"}, k)
    /\ Taken(k) /\ Return(c)
    /\ regSuccess' = [regSuccess EXCEPT ![c] = Head(answer[k]).n = 0]
    /\ UNCHANGED <<srvVars, request, connVars, page, db, file, label, shown, silent>>

TotpSetup(secret) == shown' = shown \cup ({secret} \ {0})

(* The secret is put on the screen; a bare status is a failed request.     *)
ClientTOTPSetup(c, k) ==
    /\ Receives(c, {"setup"}, {"TOTPSetupResp"}, k)
    /\ Taken(k) /\ Return(c)
    /\ TotpSetup(Head(answer[k]).n)
    /\ UNCHANGED <<srvVars, request, connVars, page, db, file, label, regSuccess, silent>>

(* An open database is kept, whoever's it is.                              *)
ClientTOTPVerify(c, k) ==
    /\ Receives(c, {"verify"}, {"LoginResp"}, k)
    /\ Taken(k)
    /\ LET resp == Head(answer[k])
       IN  \/ /\ resp.name = NoName
              /\ Return(c) /\ ChangePage(c, "login") /\ UNCHANGED <<request, label>>
           \/ /\ resp.name # NoName /\ db[c] # 0
              /\ Return(c) /\ HomePageInitUpdate(c, resp.name, NoName) /\ ChangePage(c, "home")
              /\ UNCHANGED request
           \/ /\ resp.name # NoName /\ db[c] = 0
              /\ ClientLoadDB(c, "verifyKey") /\ UNCHANGED label
    /\ UNCHANGED <<srvVars, connVars, db, file, regSuccess, shown, silent>>

-----------------------------------------------------------------------------
ServerStep(k) ==
    \/ RefuseMessage(k) \/ ServerHandleLogin(k) \/ ServerHandleRegister(k)
    \/ ServerHandleTOTPSetup(k) \/ ServerHandleTOTPVerify(k) \/ ServerHandleDBKeyReq(k)
    \/ ConnectionBreaks(k)

RunnerStep(c, i) == ExchangeAESKey(c, i) \/ ClientConnect(c, i) \/ SetupRunner(c, i)

Click(c) ==
    \/ ConnectButtonOnClick(c) \/ ExitBtn(c) \/ LoginToRegBtnOnClick(c) \/ RegToLoginBtnOnClick(c)
    \/ TotpRecommendYesBtnOnClick(c) \/ TotpRecommendNoBtnOnClick(c) \/ TotpSetupDoneBtnOnClick(c)
    \/ \E n \in Names : (\E right \in BOOLEAN : LoginBtnOnClick(c, n, right)) \/ RegBtnOnClick(c, n)
    \/ \E code \in shown \cup {0} : TotpVerifyBtnOnClick(c, code)

Answered(c, k) ==
    \/ RequestFails(c, k) \/ ClientLogin(c, k) \/ DBKeyArrives(c, k) \/ ClientRegister(c, k)
    \/ ClientTOTPSetup(c, k) \/ ClientTOTPVerify(c, k)

Next ==
    \/ \E k \in Conns : ServerStep(k)
    \/ \E c \in Clients : Click(c) \/ ProcessEnds(c)
    \/ \E c \in Clients, i \in Runners : RunnerStep(c, i)
    \/ \E c \in Clients, k \in Conns : Answered(c, k)

Spec == Init /\ [][Next]_vars
=============================================================================
