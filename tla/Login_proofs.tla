---------------------------- MODULE Login_proofs ----------------------------
(***************************************************************************)
(* Proofs about Login, for any number of machines, users, connections and  *)
(* connecting threads: the second factor, and what the two ends of a       *)
(* connection know of each other.                                          *)
(***************************************************************************)
EXTENDS LoginProps, TLAPS

Fields == {"state", "name", "totpSecret", "need", "gave"}

(* What a session must hold: past the login, the code it asked for; at the   *)
(* challenge, the secret that it will compare the code with.                 *)
Guarded(s) ==
    /\ DOMAIN s = Fields
    /\ s.state = "Room" => s.gave = s.need
    /\ s.state = "TOTPVerify" => s.totpSecret = s.need

IInv == DOMAIN session = Conns /\ \A k \in Conns : Guarded(session[k])

(* A step that changes one session at most.                                  *)
LEMMA OneSession ==
    ASSUME IInv, NEW k \in Conns, NEW s, Guarded(s), session' = [session EXCEPT ![k] = s]
    PROVE  IInv'
BY DEF IInv

(* A connection without a user, or without a session, holds nothing.         *)
LEMMA NobodyIsGuarded ==
    /\ Guarded(NoUser) /\ Guarded(ClosedSession)
    /\ Guarded([NoUser EXCEPT !.state = "Login"])
<1>1. NoUser = [state |-> "Free", name |-> NoName, totpSecret |-> 0, need |-> 0, gave |-> 0]
  BY DEF NoUser
<1>2. \A st : [NoUser EXCEPT !.state = st]
               = [state |-> st, name |-> NoName, totpSecret |-> 0, need |-> 0, gave |-> 0]
  BY <1>1
<1> QED BY <1>1, <1>2 DEF Guarded, Fields, ClosedSession

(* server.c:497: the session of a connection that ends is closed.            *)
LEMMA DropOK ==
    ASSUME IInv, NEW k \in Conns, Drop(k)
    PROVE  IInv'
BY NobodyIsGuarded, OneSession DEF Drop

(* connection.c: a process that closes its sockets.                          *)
LEMMA CloseSocketsOK ==
    ASSUME IInv, NEW c \in Clients, NEW socks, CloseSockets(c, socks)
    PROVE  IInv'
<1>1. \E over : session' = [k \in Conns |-> IF k \in over THEN ClosedSession ELSE session[k]]
  BY DEF CloseSockets
<1> QED BY <1>1, NobodyIsGuarded DEF IInv

(* auth.c: a user with a second factor is asked for its code.                *)
LEMMA StartSessionOK ==
    ASSUME IInv, NEW k \in Conns, NEW user, StartSession(k, user)
    PROVE  IInv'
<1> DEFINE s == [state |-> IF user.secret # 0 THEN "TOTPVerify" ELSE "Room", name |-> user.name,
                 totpSecret |-> user.secret, need |-> user.secret, gave |-> 0]
<1>1. Guarded(s)
  BY DEF Guarded, Fields
<1>2. session' = [session EXCEPT ![k] = s]
  BY DEF StartSession
<1> HIDE DEF s
<1> QED BY <1>1, <1>2, OneSession

(* auth.c:139: with a new secret the session is back at the challenge.       *)
LEMMA ServerHandleTOTPSetupOK ==
    ASSUME IInv, NEW k \in Conns, ServerHandleTOTPSetup(k)
    PROVE  IInv'
<1>1. CASE session' = session
  BY <1>1 DEF IInv
<1>2. CASE Drop(k)
  BY <1>2, DropOK
<1>3. ASSUME NEW secret,
             session' = [session EXCEPT ![k].state = "TOTPVerify", ![k].totpSecret = secret,
                            ![k].need = secret, ![k].gave = 0]
      PROVE  IInv'
  <2> DEFINE s == [session[k] EXCEPT !.state = "TOTPVerify", !.totpSecret = secret,
                                     !.need = secret, !.gave = 0]
  <2>1. session' = [session EXCEPT ![k] = s]
    BY <1>3 DEF IInv
  <2>2. Guarded(s)
    BY DEF IInv, Guarded, Fields
  <2> HIDE DEF s
  <2> QED BY <2>1, <2>2, OneSession
<1> QED BY <1>1, <1>2, <1>3 DEF ServerHandleTOTPSetup

(* auth.c:173: only the code of the secret in the session leads on.          *)
LEMMA ServerHandleTOTPVerifyOK ==
    ASSUME IInv, NEW k \in Conns, ServerHandleTOTPVerify(k)
    PROVE  IInv'
<1> DEFINE code == Head(request[k]).n
           good == session[k].totpSecret # 0 /\ code = session[k].totpSecret
           s == [session[k] EXCEPT !.totpSecret = 0, !.gave = code,
                                   !.state = IF good THEN "Room" ELSE "Login"]
<1>1. session' = [session EXCEPT ![k] = s]
  BY DEF ServerHandleTOTPVerify, IInv
<1>2. session[k].state = "TOTPVerify" /\ Guarded(session[k])
  BY DEF ServerHandleTOTPVerify, Received, IInv
<1>3. DOMAIN s = Fields /\ s.gave = code /\ s.need = session[k].need
      /\ s.state = (IF good THEN "Room" ELSE "Login")
  BY <1>2 DEF Guarded, Fields
<1>4. Guarded(s)
  <2>1. good => code = session[k].need
    BY <1>2 DEF Guarded
  <2>2. s.state = "Room" => s.gave = s.need
    BY <1>3, <2>1
  <2>3. s.state # "TOTPVerify"
    BY <1>3
  <2> QED BY <1>3, <2>2, <2>3 DEF Guarded
<1> HIDE DEF s
<1> QED BY <1>1, <1>4, OneSession

(* auth.c, server.c: the server's handlers.                                  *)
LEMMA ServerStepOK ==
    ASSUME IInv, NEW k \in Conns, ServerStep(k)
    PROVE  IInv'
<1>1. CASE RefuseMessage(k) \/ ConnectionBreaks(k)
  BY <1>1, DropOK DEF RefuseMessage, ConnectionBreaks
<1>2. CASE ServerHandleLogin(k)
  <2>1. session' = session \/ \E user : StartSession(k, user)
    BY <1>2 DEF ServerHandleLogin
  <2>2. CASE session' = session
    BY <2>2 DEF IInv
  <2> QED BY <2>1, <2>2, StartSessionOK
<1>3. CASE ServerHandleRegister(k) \/ ServerHandleDBKeyReq(k)
  BY <1>3 DEF ServerHandleRegister, ServerHandleDBKeyReq, srvVars, IInv
<1>4. CASE ServerHandleTOTPSetup(k)
  BY <1>4, ServerHandleTOTPSetupOK
<1>5. CASE ServerHandleTOTPVerify(k)
  BY <1>5, ServerHandleTOTPVerifyOK
<1> QED BY <1>1, <1>2, <1>3, <1>4, <1>5 DEF ServerStep

(* connection.c: a key exchange begins a session, the end of a process ends  *)
(* those of its sockets; the rest of the client does not touch them.         *)
LEMMA ClientStepOK ==
    ASSUME IInv, NEW c \in Clients,
           \/ Click(c) \/ ProcessEnds(c)
           \/ \E i \in Runners : RunnerStep(c, i)
           \/ \E k \in Conns : Answered(c, k)
    PROVE  IInv'
<1>1. CASE UNCHANGED session
  BY <1>1 DEF IInv
<1>2. CASE ProcessEnds(c)
  BY <1>2, CloseSocketsOK DEF ProcessEnds
<1>3. CASE Click(c)
  <2>1. CASE ExitBtn(c)
    BY <2>1, CloseSocketsOK DEF ExitBtn, ClientDisconnect
  <2>2. CASE ~ExitBtn(c)
    BY <1>1, <1>3, <2>2
       DEF Click, ConnectButtonOnClick, LoginToRegBtnOnClick, RegToLoginBtnOnClick,
           TotpRecommendYesBtnOnClick, TotpRecommendNoBtnOnClick, TotpSetupDoneBtnOnClick,
           TurnsTo, LoginBtnOnClick, RegBtnOnClick, TotpVerifyBtnOnClick, srvVars
  <2> QED BY <2>1, <2>2
<1>4. ASSUME NEW i \in Runners, RunnerStep(c, i)  PROVE IInv'
  <2>1. CASE ExchangeAESKey(c, i)
    <3>1. \/ UNCHANGED session
          \/ \E k \in Conns : session' = [session EXCEPT ![k] = [NoUser EXCEPT !.state = "Login"]]
      BY <2>1 DEF ExchangeAESKey, NextConn
    <3> QED BY <1>1, <3>1, NobodyIsGuarded, OneSession
  <2>2. CASE ClientConnect(c, i) \/ SetupRunner(c, i)
    BY <1>1, <2>2 DEF ClientConnect, SetupRunner, srvVars
  <2> QED BY <1>4, <2>1, <2>2 DEF RunnerStep
<1>5. ASSUME NEW k \in Conns, Answered(c, k)  PROVE IInv'
  BY <1>1, <1>5 DEF Answered, RequestFails, ClientLogin, DBKeyArrives, ClientRegister,
                    ClientTOTPSetup, ClientTOTPVerify, srvVars
<1> QED BY <1>2, <1>3, <1>4, <1>5

(* The inductive invariant of the login: a session at the challenge holds    *)
(* the secret that it asked for.                                             *)
THEOREM LoginInvariant == Spec => []IInv
<1>1. Init => IInv
  BY NobodyIsGuarded DEF Init, IInv
<1>2. IInv /\ [Next]_vars => IInv'
  <2>1. ASSUME IInv, Next  PROVE IInv'
    BY <2>1, ServerStepOK, ClientStepOK DEF Next
  <2>2. ASSUME IInv, UNCHANGED vars  PROVE IInv'
    BY <2>2 DEF IInv, vars, srvVars
  <2> QED BY <2>1, <2>2
<1> QED BY <1>1, <1>2, PTL DEF Spec

(* No session is past the login without the code it was asked for            *)
(* (serverHandleLogin, serverHandleTOTPSetup, serverHandleTOTPVerify).       *)
THEOREM SecondFactorCorrect == Spec => []SecondFactorHolds
<1>1. IInv => SecondFactorHolds
  BY DEF IInv, Guarded, SecondFactorHolds
<1> QED BY LoginInvariant, <1>1, PTL

-----------------------------------------------------------------------------
(* Who is connected to what *)

CInv == IInv /\ ConnInv

LEMMA Constants0 ==
    /\ 0 \notin Conns /\ NoName \notin Names
    /\ Idle.at = "idle" /\ Idle.conn = 0 /\ NoRunner.pc = "none" /\ NoRunner.conn = 0
    /\ Idle \in Calls /\ NoRunner \in Threads
    /\ \A k \in Conns : k \in Nat
BY LoginAssumption DEF Conns, Idle, NoRunner, Calls, Threads

(* The client's own state, which no step of the server touches.              *)
cliVars == <<fd, aesKey, opened, runner, overlap, page, call, db, label>>

(* A step of the server on connection k: what has to be shown of it is only  *)
(* that the client on the other end can make sense of the answer.            *)
LEMMA ServerFrame ==
    ASSUME CInv, IInv', NEW k \in Conns, UNCHANGED cliVars,
           DOMAIN request' = Conns, DOMAIN answer' = Conns,
           \A q \in Conns \ {k} : /\ session'[q] = session[q] /\ request'[q] = request[q]
                                  /\ answer'[q] = answer[q] /\ (q \in silent' <=> q \in silent),
           ~Live(k)' => request'[k] = <<>> /\ answer'[k] = <<>> /\ k \notin silent',
           \A c \in Clients : ~overlap[c] /\ k \in opened[c] /\ Agree(c, k) /\ Live(k)' => Agree(c, k)',
           Live(k)
    PROVE  CInv'
<1> USE DEF CInv, ConnInv
<1>1. UNCHANGED <<fd, aesKey, opened, runner, overlap, page, call, db, label>>
  BY DEF cliVars
<1>2. TypeOK'
  BY <1>1 DEF TypeOK
<1>3. \A q \in Conns \ {k} : Live(q)' <=> Live(q)
  BY DEF Live
<1>4. DownIsEmpty'
  <2> SUFFICES ASSUME NEW q \in Conns, ~Live(q)'
               PROVE  request'[q] = <<>> /\ answer'[q] = <<>> /\ q \notin silent'
    BY DEF DownIsEmpty
  <2>1. CASE q = k
    BY <2>1
  <2>2. CASE q # k
    BY <1>3, <2>2 DEF DownIsEmpty
  <2> QED BY <2>1, <2>2
<1>5. SocketsOwned'
  BY <1>1 DEF SocketsOwned, OwnSockets
<1>6. ASSUME NEW c \in Clients, ~overlap[c]
      PROVE  /\ OneAtATime(c)'
             /\ \A q \in opened[c] : Live(q)' => Agree(c, q)'
  <2>1. OneAtATime(c)'
    BY <1>1, <1>6 DEF ClientOK, OneAtATime, Connecting
  <2>2. ASSUME NEW q \in opened[c], Live(q)'  PROVE Agree(c, q)'
    <3>1. q \in Conns /\ (q # k => Live(q))
      BY <1>3, <2>2 DEF TypeOK
    <3>2. Agree(c, q)
      BY <1>6, <3>1 DEF ClientOK
    <3>3. CASE q = k
      BY <1>6, <2>2, <3>2, <3>3
    <3>4. CASE q # k
      <4>1. PageAgrees(c, q)'
        BY <1>1, <3>1, <3>2, <3>4 DEF Agree, PageAgrees
      <4>2. WaitAgrees(c, q) => WaitAgrees(c, q)'
        BY <1>1, <3>1, <3>4 DEF WaitAgrees, AnswerAgrees
      <4> QED BY <1>1, <3>1, <3>2, <3>4, <4>1, <4>2 DEF Agree
    <3> QED BY <3>3, <3>4
  <2> QED BY <2>1, <2>2
<1>7. \A c \in Clients : ClientOK(c)'
  BY <1>1, <1>6 DEF ClientOK
<1> QED BY <1>2, <1>4, <1>5, <1>7

(* A request that is under way is the one its client waits for.              *)
LEMMA RequestIsAwaited ==
    ASSUME CInv, NEW k \in Conns, NEW c \in Clients, Agree(c, k), request[k] # <<>>
    PROVE  /\ call[c] # Idle /\ k \notin silent /\ answer[k] = <<>>
           /\ request[k] = <<Head(request[k])>>
           /\ Head(request[k]).type = RequestOf(call[c].at)
           /\ call[c].at = "login" => Head(request[k]).name = call[c].name
           /\ PageAgrees(c, k) /\ WaitAgrees(c, k)
BY DEF Agree, WaitAgrees

(* The handler takes it and answers.                                         *)
LEMMA Answers ==
    ASSUME CInv, NEW k \in Conns, NEW c \in Clients, Agree(c, k), request[k] # <<>>,
           UNCHANGED cliVars, UNCHANGED silent,
           NEW msg, Handled(k), SendEncryptedPacket(k, msg),
           PageAgrees(c, k)', AnswerAgrees(c, k, msg)',
           call[c].at \in {"loginKey", "verifyKey"} => session'[k].state = "Room",
           call[c].at = "loginKey" => session'[k].name = session[k].name
    PROVE  Agree(c, k)'
<1>1. /\ call[c] # Idle /\ k \notin silent /\ answer[k] = <<>>
      /\ request[k] = <<Head(request[k])>> /\ WaitAgrees(c, k)
  BY RequestIsAwaited
<1>2. request'[k] = <<>>
  <2> DEFINE m == Head(request[k])
  <2>1. request'[k] = Tail(request[k])
    BY DEF Handled, CInv, ConnInv, TypeOK
  <2>2. Tail(<<m>>) = <<>>
    OBVIOUS
  <2> QED BY <1>1, <2>1, <2>2
<1>3. answer'[k] = <<msg>>
  <2>1. answer'[k] = Append(answer[k], msg)
    BY DEF SendEncryptedPacket, CInv, ConnInv, TypeOK
  <2>2. Append(<<>>, msg) = <<msg>>
    OBVIOUS
  <2> QED BY <1>1, <2>1, <2>2
<1>4. Head(<<msg>>) = msg /\ <<msg>> # <<>>
  OBVIOUS
<1>5. call' = call /\ page' = page /\ silent' = silent
  BY DEF cliVars
<1>6. AnswerAgrees(c, k, Head(answer[k]))'
  BY <1>3, <1>4 DEF AnswerAgrees
<1>7. WaitAgrees(c, k)'
  BY <1>1, <1>2, <1>3, <1>4, <1>5, <1>6 DEF WaitAgrees
<1> QED BY <1>1, <1>5, <1>7 DEF Agree

(* What the answer msg, and a session s behind it, must be for the client    *)
(* that waits for it.                                                        *)
Understands(c, k, msg, s) ==
    LET at == call[c].at
    IN  /\ at \in {"setup", "verify", "verifyKey"} => label[c].user = s.name
        /\ at = "login" /\ (msg.type = "LoginResp" => msg.name # NoName) =>
             s.name = call[c].name /\ (msg.type = "LoginResp" => s.state = "Room")
        /\ at = "verify" /\ msg.name # NoName => s.state = "Room" /\ msg.name = s.name
        /\ at \in {"loginKey", "verifyKey"} => s.state = "Room"
        /\ at = "loginKey" => s.name = session[k].name

LEMMA Waits ==
    ASSUME CInv, NEW c \in Clients, call[c].at # "idle", page[c] = PageOf(call[c].at)
    PROVE  /\ page[c] \notin {"recommend", "home"}
           /\ page[c] = "setup" => call[c].at = "setup"
           /\ page[c] = "verify" => call[c].at \in {"verify", "verifyKey"}
<1>1. call[c].at \in {"idle", "login", "loginKey", "register", "setup", "verify", "verifyKey"}
  BY DEF CInv, ConnInv, TypeOK, Calls
<1> QED BY <1>1 DEF PageOf

LEMMA ServerAnswers ==
    ASSUME CInv, IInv', NEW k \in Conns, Live(k), request[k] # <<>>,
           UNCHANGED cliVars, UNCHANGED silent,
           NEW msg, NEW s, Handled(k), SendEncryptedPacket(k, msg),
           session'[k] = s, \A q \in Conns \ {k} : session'[q] = session[q],
           s.state \notin {"Free", "Closed"},
           \A c \in Clients : ~overlap[c] /\ k \in opened[c] /\ Agree(c, k) => Understands(c, k, msg, s)
    PROVE  CInv'
<1>1. /\ session'[k] = s /\ \A q \in Conns \ {k} : session'[q] = session[q]
      /\ DOMAIN request' = Conns /\ \A q \in Conns \ {k} : request'[q] = request[q]
      /\ DOMAIN answer' = Conns /\ \A q \in Conns \ {k} : answer'[q] = answer[q]
  BY DEF Handled, SendEncryptedPacket, CInv, IInv, ConnInv, TypeOK
<1>2. Live(k)'
  BY <1>1 DEF Live
<1>3. ASSUME NEW c \in Clients, ~overlap[c], k \in opened[c], Agree(c, k)
      PROVE  Agree(c, k)'
  <2>1. Understands(c, k, msg, s)
    BY <1>3
  <2>2. /\ call[c].at # "idle" /\ PageAgrees(c, k) /\ page[c] = PageOf(call[c].at)
    BY <1>3, RequestIsAwaited DEF WaitAgrees
  <2>3. UNCHANGED <<call, page, label>>
    BY DEF cliVars
  <2>4. PageAgrees(c, k)'
    <3>1. page[c] \notin {"recommend", "home"}
      BY <2>2, Waits
    <3>2. page[c] \in {"setup", "verify"} => label[c].user = s.name
      BY <2>1, <2>2, Waits DEF Understands
    <3> QED BY <1>1, <2>3, <3>1, <3>2 DEF PageAgrees
  <2>5. AnswerAgrees(c, k, msg)'
    BY <1>1, <2>1, <2>3 DEF AnswerAgrees, Understands
  <2> QED BY <1>1, <1>3, <2>1, <2>4, <2>5, Answers DEF Understands
<1> QED BY <1>1, <1>2, <1>3, ServerFrame

(* The kinds of waits for one kind of request.                               *)
LEMMA WaitsFor ==
    ASSUME CInv, NEW k \in Conns, NEW c \in Clients, Agree(c, k), request[k] # <<>>
    PROVE  LET type == Head(request[k]).type  at == call[c].at
           IN  /\ type = "LoginReq" => at = "login" /\ Head(request[k]).name = call[c].name
               /\ type = "RegisterReq" => at = "register"
               /\ type = "TOTPSetupReq" => at = "setup"
               /\ type = "TOTPVerifyResp" => at = "verify"
               /\ type = "DBKeyReq" => at \in {"loginKey", "verifyKey"}
               /\ at \in {"setup", "verify", "verifyKey"} => label[c].user = session[k].name
               /\ at = "loginKey" => session[k].name = call[c].name
<1>1. /\ call[c].at \in {"idle", "login", "loginKey", "register", "setup", "verify", "verifyKey"}
      /\ call[c].at # "idle" /\ page[c] = PageOf(call[c].at)
  BY RequestIsAwaited DEF CInv, ConnInv, TypeOK, Calls, WaitAgrees
<1>2. /\ Head(request[k]).type = RequestOf(call[c].at)
      /\ call[c].at = "login" => Head(request[k]).name = call[c].name
      /\ PageAgrees(c, k)
      /\ call[c].at = "loginKey" => session[k].name = call[c].name
  BY RequestIsAwaited DEF WaitAgrees
<1>3. call[c].at \in {"setup", "verify", "verifyKey"} => page[c] \in {"setup", "verify"}
  BY <1>1 DEF PageOf
<1>4. call[c].at \in {"setup", "verify", "verifyKey"} => label[c].user = session[k].name
  BY <1>2, <1>3 DEF PageAgrees
<1> QED BY <1>1, <1>2, <1>4 DEF RequestOf

(* server.c:497, clientDisconnect: nothing is promised of it any more.       *)
LEMMA DropConn ==
    ASSUME CInv, IInv', NEW k \in Conns, Live(k), Drop(k), UNCHANGED cliVars
    PROVE  CInv'
<1>1. /\ session'[k] = ClosedSession /\ \A q \in Conns \ {k} : session'[q] = session[q]
      /\ DOMAIN request' = Conns /\ request'[k] = <<>>
      /\ \A q \in Conns \ {k} : request'[q] = request[q]
      /\ DOMAIN answer' = Conns /\ answer'[k] = <<>>
      /\ \A q \in Conns \ {k} : answer'[q] = answer[q]
      /\ k \notin silent' /\ \A q \in Conns \ {k} : q \in silent' <=> q \in silent
  BY DEF Drop, CInv, IInv, ConnInv, TypeOK
<1>2. ~Live(k)'
  BY <1>1 DEF Live, ClosedSession, NoUser
<1> QED BY <1>1, <1>2, ServerFrame

LEMMA LiveStates ==
    ASSUME CInv, NEW k \in Conns, NEW type, NEW state \in {"Login", "TOTPVerify", "Room"},
           Received(k, type, state)
    PROVE  Live(k) /\ request[k] # <<>> /\ Head(request[k]).type = type /\ session[k].state = state
BY DEF Received, Live

(* auth.c:40, serverHandleLogin: the name of the session is the one that was *)
(* typed.                                                                    *)
LEMMA ServerHandleLoginConn ==
    ASSUME CInv, IInv', NEW k \in Conns, ServerHandleLogin(k), UNCHANGED cliVars
    PROVE  CInv'
<1>1. /\ Live(k) /\ request[k] # <<>> /\ Head(request[k]).type = "LoginReq"
      /\ session[k].state = "Login" /\ Handled(k) /\ UNCHANGED silent
  BY LiveStates DEF ServerHandleLogin
<1>2. PICK user \in VerifyUser(Head(request[k]).name, Head(request[k]).n = 1) :
          \/ /\ user.name = NoName
             /\ SendEncryptedPacket(k, Msg("LoginResp", NoName, 0))
             /\ UNCHANGED session
          \/ user.name # NoName /\ StartSession(k, user)
  BY DEF ServerHandleLogin
<1>3. user.name \in {Head(request[k]).name, NoName}
  BY DEF VerifyUser
<1>4. CASE user.name = NoName
  <2>1. PICK msg : msg = Msg("LoginResp", NoName, 0)
    OBVIOUS
  <2>2. SendEncryptedPacket(k, msg) /\ session' = session
    BY <1>2, <1>4, <2>1 DEF StartSession
  <2>3. PICK s : s = session[k]
    OBVIOUS
  <2>4. session'[k] = s /\ \A q \in Conns \ {k} : session'[q] = session[q]
    BY <2>2, <2>3
  <2>5. ASSUME NEW c \in Clients, Agree(c, k)  PROVE Understands(c, k, msg, s)
    <3>1. call[c].at = "login"
      BY <1>1, <2>5, WaitsFor
    <3>2. msg.type = "LoginResp" /\ msg.name = NoName
      BY <2>1 DEF Msg
    <3> QED BY <3>1, <3>2 DEF Understands
  <2>6. s.state = "Login"
    BY <1>1, <2>3
  <2> QED BY <1>1, <2>2, <2>4, <2>5, <2>6, ServerAnswers
<1>5. CASE user.name # NoName
  <2>1. StartSession(k, user)
    BY <1>2, <1>5
  <2>2. PICK msg : msg = IF user.secret # 0 THEN Msg("TOTPVerifyReq", NoName, 0)
                         ELSE Msg("LoginResp", user.name, 0)
    OBVIOUS
  <2>3. PICK s : s = [state |-> IF user.secret # 0 THEN "TOTPVerify" ELSE "Room", name |-> user.name,
                      totpSecret |-> user.secret, need |-> user.secret, gave |-> 0]
    OBVIOUS
  <2>4. /\ SendEncryptedPacket(k, msg)
        /\ session'[k] = s /\ \A q \in Conns \ {k} : session'[q] = session[q]
    BY <2>1, <2>2, <2>3 DEF StartSession, CInv, IInv
  <2>5. /\ s.name = user.name /\ s.state \in {"TOTPVerify", "Room"}
        /\ msg.type = "LoginResp" => s.state = "Room"
    BY <2>2, <2>3 DEF Msg
  <2>6. ASSUME NEW c \in Clients, Agree(c, k)  PROVE Understands(c, k, msg, s)
    <3>1. call[c].at = "login" /\ Head(request[k]).name = call[c].name
      BY <1>1, <2>6, WaitsFor
    <3> QED BY <1>3, <1>5, <2>5, <3>1 DEF Understands
  <2> QED BY <1>1, <2>4, <2>5, <2>6, ServerAnswers
<1> QED BY <1>4, <1>5

LEMMA ServerHandleRegisterConn ==
    ASSUME CInv, IInv', NEW k \in Conns, ServerHandleRegister(k), UNCHANGED cliVars
    PROVE  CInv'
<1>1. /\ Live(k) /\ request[k] # <<>> /\ Head(request[k]).type = "RegisterReq"
      /\ session[k].state = "Login" /\ Handled(k) /\ UNCHANGED <<session, silent>>
  BY LiveStates DEF ServerHandleRegister
<1>2. PICK msg : SendEncryptedPacket(k, msg)
  BY DEF ServerHandleRegister
<1>3. PICK s : s = session[k]
  OBVIOUS
<1>4. ASSUME NEW c \in Clients, Agree(c, k)  PROVE Understands(c, k, msg, s)
  <2>1. call[c].at = "register"
    BY <1>1, <1>4, WaitsFor
  <2> QED BY <2>1 DEF Understands
<1> QED BY <1>1, <1>2, <1>3, <1>4, ServerAnswers

(* auth.c:139: the session keeps its name.                                   *)
LEMMA ServerHandleTOTPSetupConn ==
    ASSUME CInv, IInv', NEW k \in Conns, ServerHandleTOTPSetup(k), UNCHANGED cliVars
    PROVE  CInv'
<1>1. /\ Live(k) /\ request[k] # <<>> /\ Head(request[k]).type = "TOTPSetupReq"
      /\ session[k].state = "Room"
  BY LiveStates DEF ServerHandleTOTPSetup
<1>2. CASE Drop(k)
  BY <1>1, <1>2, DropConn
<1>3. CASE ~Drop(k)
  <2>1. /\ Handled(k) /\ UNCHANGED silent
        /\ \E msg : SendEncryptedPacket(k, msg)
        /\ \/ UNCHANGED session
           \/ \E secret : session' = [session EXCEPT ![k].state = "TOTPVerify", ![k].totpSecret = secret,
                                                     ![k].need = secret, ![k].gave = 0]
    BY <1>3, Zenon DEF ServerHandleTOTPSetup
  <2>2. PICK msg : SendEncryptedPacket(k, msg)
    BY <2>1
  <2>3. DOMAIN session = Conns /\ DOMAIN session[k] = Fields
    BY DEF CInv, IInv, Guarded
  <2>4. \A secret : session' = [session EXCEPT ![k].state = "TOTPVerify", ![k].totpSecret = secret,
                                               ![k].need = secret, ![k].gave = 0]
          => /\ session'[k].name = session[k].name /\ session'[k].state = "TOTPVerify"
             /\ \A q \in Conns \ {k} : session'[q] = session[q]
    BY <2>3 DEF Fields
  <2>5. PICK s : s = session'[k]
    OBVIOUS
  <2>6. /\ s.name = session[k].name /\ s.state \in {"TOTPVerify", "Room"}
        /\ \A q \in Conns \ {k} : session'[q] = session[q]
    BY <1>1, <2>1, <2>4, <2>5
  <2>7. ASSUME NEW c \in Clients, Agree(c, k)  PROVE Understands(c, k, msg, s)
    <3>1. call[c].at = "setup" /\ label[c].user = session[k].name
      BY <1>1, <2>7, WaitsFor
    <3> QED BY <2>6, <3>1 DEF Understands
  <2> QED BY <1>1, <2>1, <2>2, <2>5, <2>6, <2>7, ServerAnswers
<1> QED BY <1>2, <1>3

(* auth.c:173: a code that is right is answered with the name.               *)
LEMMA ServerHandleTOTPVerifyConn ==
    ASSUME CInv, IInv', NEW k \in Conns, ServerHandleTOTPVerify(k), UNCHANGED cliVars
    PROVE  CInv'
<1> DEFINE code == Head(request[k]).n
           good == session[k].totpSecret # 0 /\ code = session[k].totpSecret
<1>1. /\ Live(k) /\ request[k] # <<>> /\ Head(request[k]).type = "TOTPVerifyResp"
      /\ session[k].state = "TOTPVerify" /\ Handled(k) /\ UNCHANGED silent
  BY LiveStates DEF ServerHandleTOTPVerify
<1>2. PICK msg : msg = Msg("LoginResp", IF good THEN session[k].name ELSE NoName, 1)
  OBVIOUS
<1>3. SendEncryptedPacket(k, msg)
  BY <1>2 DEF ServerHandleTOTPVerify
<1>4. PICK s : s = session'[k]
  OBVIOUS
<1>5. /\ s.name = session[k].name /\ s.state = IF good THEN "Room" ELSE "Login"
      /\ \A q \in Conns \ {k} : session'[q] = session[q]
  <2>1. DOMAIN session = Conns /\ DOMAIN session[k] = Fields
    BY DEF CInv, IInv, Guarded
  <2>2. session' = [session EXCEPT ![k].totpSecret = 0, ![k].gave = code,
                                   ![k].state = IF good THEN "Room" ELSE "Login"]
    BY DEF ServerHandleTOTPVerify
  <2> HIDE DEF good, code
  <2> QED BY <1>4, <2>1, <2>2 DEF Fields
<1>6. ASSUME NEW c \in Clients, Agree(c, k)  PROVE Understands(c, k, msg, s)
  <2>1. call[c].at = "verify" /\ label[c].user = session[k].name
    BY <1>1, <1>6, WaitsFor
  <2>2. msg.name = IF good THEN session[k].name ELSE NoName
    BY <1>2 DEF Msg
  <2> HIDE DEF good
  <2> QED BY <1>5, <2>1, <2>2 DEF Understands
<1>7. s.state \notin {"Free", "Closed"}
  BY <1>5
<1> QED BY <1>1, <1>3, <1>4, <1>5, <1>6, <1>7, ServerAnswers

(* auth.c:245: a key that cannot be read leaves the client waiting.          *)
LEMMA ServerHandleDBKeyReqConn ==
    ASSUME CInv, IInv', NEW k \in Conns, ServerHandleDBKeyReq(k), UNCHANGED cliVars
    PROVE  CInv'
<1>1. /\ Live(k) /\ request[k] # <<>> /\ Head(request[k]).type = "DBKeyReq"
      /\ session[k].state = "Room" /\ Handled(k) /\ UNCHANGED session
  BY LiveStates DEF ServerHandleDBKeyReq, srvVars
<1>2. CASE UNCHANGED silent /\ \E msg : SendEncryptedPacket(k, msg)
  <2>1. PICK msg : SendEncryptedPacket(k, msg)
    BY <1>2
  <2>2. PICK s : s = session[k]
    OBVIOUS
  <2>3. ASSUME NEW c \in Clients, Agree(c, k)  PROVE Understands(c, k, msg, s)
    <3>1. /\ call[c].at \in {"loginKey", "verifyKey"}
          /\ call[c].at = "verifyKey" => label[c].user = session[k].name
      BY <1>1, <2>3, WaitsFor
    <3> QED BY <1>1, <2>2, <3>1 DEF Understands
  <2> QED BY <1>1, <1>2, <2>1, <2>2, <2>3, ServerAnswers
<1>3. CASE silent' = silent \cup {k} /\ UNCHANGED answer
  <2>1. /\ DOMAIN request' = Conns /\ \A q \in Conns \ {k} : request'[q] = request[q]
        /\ DOMAIN answer' = Conns /\ request'[k] = Tail(request[k])
    BY <1>1, <1>3 DEF Handled, CInv, ConnInv, TypeOK
  <2>2. ASSUME NEW c \in Clients, Agree(c, k)
        PROVE  Agree(c, k)'
    <3>1. /\ call[c] # Idle /\ answer[k] = <<>> /\ request[k] = <<Head(request[k])>>
          /\ WaitAgrees(c, k) /\ PageAgrees(c, k)
      BY <1>1, <2>2, RequestIsAwaited
    <3>2. request'[k] = <<>>
      <4> DEFINE m == Head(request[k])
      <4>1. Tail(<<m>>) = <<>>
        OBVIOUS
      <4> QED BY <2>1, <3>1, <4>1
    <3>3. UNCHANGED <<call, page, label, session>>
      BY <1>1 DEF cliVars
    <3>4. PageAgrees(c, k)'
      BY <3>1, <3>3 DEF PageAgrees
    <3>5. WaitAgrees(c, k)'
      BY <1>3, <3>1, <3>2, <3>3 DEF WaitAgrees
    <3> QED BY <3>1, <3>3, <3>4, <3>5 DEF Agree
  <2>3. Live(k)'
    BY <1>1 DEF Live
  <2> QED BY <1>1, <1>3, <2>1, <2>2, <2>3, ServerFrame
<1> QED BY <1>2, <1>3 DEF ServerHandleDBKeyReq

(* auth.c, server.c: the steps of the server on one connection.              *)
LEMMA ServerStepConn ==
    ASSUME CInv, NEW k \in Conns, ServerStep(k)
    PROVE  CInv'
<1>1. IInv'
  BY ServerStepOK DEF CInv
<1>2. UNCHANGED cliVars
  BY DEF ServerStep, RefuseMessage, ConnectionBreaks, ServerHandleLogin, ServerHandleRegister,
         ServerHandleTOTPSetup, ServerHandleTOTPVerify, ServerHandleDBKeyReq, connVars, pageVars,
         cliVars
<1>3. CASE RefuseMessage(k) \/ ConnectionBreaks(k)
  BY <1>1, <1>2, <1>3, DropConn DEF RefuseMessage, ConnectionBreaks
<1> QED BY <1>1, <1>2, <1>3, ServerHandleLoginConn, ServerHandleRegisterConn,
           ServerHandleTOTPSetupConn, ServerHandleTOTPVerifyConn, ServerHandleDBKeyReqConn
        DEF ServerStep

-----------------------------------------------------------------------------
(* The steps of the clients *)

(* A step of client c, seen from the others: their sockets are not its own.  *)
LEMMA ClientFrame ==
    ASSUME CInv, IInv', TypeOK', DownIsEmpty', NEW c \in Clients,
           \A d \in Clients \ {c} :
             /\ fd'[d] = fd[d] /\ aesKey'[d] = aesKey[d] /\ opened'[d] = opened[d]
             /\ runner'[d] = runner[d] /\ overlap'[d] = overlap[d] /\ page'[d] = page[d]
             /\ call'[d] = call[d] /\ db'[d] = db[d] /\ label'[d] = label[d],
           \A d \in Clients \ {c} : \A k \in opened[d] :
             /\ session'[k] = session[k] /\ request'[k] = request[k] /\ answer'[k] = answer[k]
             /\ (k \in silent' <=> k \in silent) /\ k \notin opened'[c],
           OwnSockets(c)', ClientOK(c)'
    PROVE  CInv'
<1> USE DEF CInv, ConnInv
<1>1. SocketsOwned'
  <2>1. ASSUME NEW d \in Clients, d # c  PROVE OwnSockets(d)'
    BY <2>1 DEF SocketsOwned, OwnSockets
  <2>2. \A d \in Clients : d # c => opened'[c] \cap opened'[d] = {}
    OBVIOUS
  <2>3. \A d, e \in Clients : d # e => opened'[d] \cap opened'[e] = {}
    BY <2>2 DEF SocketsOwned
  <2> QED BY <2>1, <2>3 DEF SocketsOwned
<1>2. ASSUME NEW d \in Clients, d # c  PROVE ClientOK(d)'
  <2> SUFFICES ASSUME ~overlap'[d]
               PROVE  OneAtATime(d)' /\ \A k \in opened'[d] : Live(k)' => Agree(d, k)'
    BY DEF ClientOK
  <2>1. OneAtATime(d)'
    BY <1>2 DEF ClientOK, OneAtATime, Connecting
  <2>2. ASSUME NEW k \in opened'[d], Live(k)'  PROVE Agree(d, k)'
    <3>1. /\ session'[k] = session[k] /\ request'[k] = request[k] /\ answer'[k] = answer[k]
          /\ (k \in silent' <=> k \in silent) /\ k \in opened[d] /\ Live(k)
      BY <1>2, <2>2 DEF Live
    <3>2. Agree(d, k)
      BY <1>2, <3>1 DEF ClientOK
    <3>3. PageAgrees(d, k)'
      BY <1>2, <3>1, <3>2 DEF Agree, PageAgrees
    <3>4. WaitAgrees(d, k) => WaitAgrees(d, k)'
      BY <1>2, <3>1 DEF WaitAgrees, AnswerAgrees
    <3> QED BY <1>2, <3>1, <3>2, <3>3, <3>4 DEF Agree
  <2> QED BY <2>1, <2>2
<1> QED BY <1>1, <1>2

(* A step of the thread of the pages, which leaves the connections alone.    *)
LEMMA PageStep ==
    ASSUME CInv, NEW c \in Clients,
           UNCHANGED <<session, silent, fd, aesKey, opened, runner, overlap>>,
           DOMAIN request' = Conns, DOMAIN answer' = Conns,
           \A q \in Conns : ~Live(q) \/ q \notin opened[c] =>
             request'[q] = request[q] /\ answer'[q] = answer[q],
           page' \in [Clients -> Pages], call' \in [Clients -> Calls],
           DOMAIN db' = Clients, DOMAIN label' = Clients,
           \A d \in Clients \ {c} : /\ page'[d] = page[d] /\ call'[d] = call[d]
                                    /\ db'[d] = db[d] /\ label'[d] = label[d],
           ~overlap[c] => page[c] # "connect" /\ page'[c] # "connect",
           call'[c] # Idle => /\ call'[c].conn \in opened[c]
                              /\ ~overlap[c] => call'[c].conn = fd[c],
           ~overlap[c] /\ Live(fd[c]) /\ Agree(c, fd[c]) => Agree(c, fd[c])'
    PROVE  CInv'
<1> USE DEF CInv, ConnInv
<1>1. IInv' /\ TypeOK'
  BY DEF IInv, TypeOK
<1>2. \A q : Live(q)' <=> Live(q)
  BY DEF Live
<1>3. DownIsEmpty'
  BY <1>2 DEF DownIsEmpty
<1>4. OwnSockets(c)'
  BY DEF SocketsOwned, OwnSockets
<1>5. \A d \in Clients \ {c} : \A k \in opened[d] : k \in Conns /\ k \notin opened[c]
  BY DEF SocketsOwned, TypeOK
<1>6. ClientOK(c)'
  <2> SUFFICES ASSUME ~overlap[c]
               PROVE  OneAtATime(c)' /\ \A k \in opened[c] : Live(k)' => Agree(c, k)'
    BY DEF ClientOK
  <2>1. OneAtATime(c)
    BY DEF ClientOK
  <2>2. /\ \A i \in Runners : runner[c][i] = NoRunner
        /\ aesKey[c] = fd[c] /\ opened[c] = {fd[c]} \ {0} /\ fd[c] # 0
    BY <2>1 DEF OneAtATime, Connecting
  <2>3. OneAtATime(c)'
    BY <2>1, <2>2 DEF OneAtATime
  <2>4. ASSUME NEW k \in opened[c], Live(k)'  PROVE Agree(c, k)'
    <3>1. k = fd[c] /\ Live(k)
      BY <1>2, <2>2, <2>4
    <3>2. Agree(c, fd[c])
      BY <2>4, <3>1 DEF ClientOK
    <3>3. Agree(c, fd[c])'
      BY <3>1, <3>2
    <3> QED BY <3>1, <3>3 DEF Agree, PageAgrees, WaitAgrees, AnswerAgrees
  <2> QED BY <2>3, <2>4
<1> QED BY <1>1, <1>3, <1>4, <1>5, <1>6, ClientFrame

(* A client that is past the first page, and connects one at a time.         *)
LEMMA PastConnecting ==
    ASSUME CInv, NEW c \in Clients, ~overlap[c], page[c] # "connect"
    PROVE  /\ \A i \in Runners : runner[c][i] = NoRunner
           /\ aesKey[c] = fd[c] /\ opened[c] = {fd[c]} /\ fd[c] \in Conns
           /\ call[c] # Idle => call[c].conn = fd[c]
           /\ Live(fd[c]) => Agree(c, fd[c])
<1>1. OneAtATime(c) /\ \A k \in opened[c] : Live(k) => Agree(c, k)
  BY DEF CInv, ConnInv, ClientOK
<1>2. /\ \A i \in Runners : runner[c][i] = NoRunner
      /\ aesKey[c] = fd[c] /\ opened[c] = {fd[c]} \ {0} /\ fd[c] # 0
      /\ call[c] # Idle => call[c].conn = fd[c]
  BY <1>1 DEF OneAtATime, Connecting
<1>3. fd[c] \in Conns
  BY <1>2 DEF CInv, ConnInv, TypeOK
<1> QED BY <1>1, <1>2, <1>3

(* connection.c, sendAndWait: with one request in it the wire is as long as  *)
(* it gets.                                                                  *)
LEMMA RequestConn ==
    ASSUME CInv, NEW c \in Clients, NEW at \in {"login", "register", "setup", "verify"},
           NEW type, NEW name \in Names \cup {NoName}, NEW n,
           page[c] # "connect", call[c] = Idle, Request(c, at, PageOf(at), type, name, n),
           UNCHANGED <<session, silent, fd, aesKey, opened, runner, overlap, db, label>>,
           type = RequestOf(at), at = "login" => name # NoName, at = "verify" => name = NoName,
           at = "setup" => page[c] = "recommend", at = "verify" => page[c] = "verify"
    PROVE  CInv'
<1> USE DEF CInv, ConnInv
<1> DEFINE k == fd[c]
           m == [type |-> type, name |-> name, n |-> n, key |-> aesKey[c]]
           to == PageOf(at)
<1>1. to \in Pages /\ to \notin {"connect", "recommend", "home"} /\ (to = "setup" => at = "setup")
      /\ (to = "verify" => at = "verify")
  BY DEF PageOf, Pages
<1>2. CASE ~CanSend(c)
  <2>1. UNCHANGED <<request, answer, call>> /\ ~Live(k) /\ page' = [page EXCEPT ![c] = IF at = "verify" THEN "login" ELSE to]
    BY <1>2 DEF Request, wireVars, CanSend, ChangePage
  <2>2. /\ page' \in [Clients -> Pages] /\ page'[c] # "connect"
        /\ \A d \in Clients \ {c} : page'[d] = page[d]
    BY <1>1, <2>1 DEF TypeOK, Pages
  <2>3. call'[c] = Idle
    BY <2>1
  <2> QED BY <2>1, <2>2, <2>3, PageStep DEF TypeOK
<1>3. CASE CanSend(c)
  <2>1. /\ request' = [request EXCEPT ![k] = Append(@, m)] /\ UNCHANGED answer
        /\ call' = [call EXCEPT ![c] = [at |-> at, name |-> name, conn |-> k]]
        /\ page' = [page EXCEPT ![c] = to] /\ Live(k)
    BY <1>3 DEF Request, SendRequest, Wait, ChangePage, CanSend
  <2>2. k \in Conns /\ k \in opened[c]
    BY <2>1, Constants0 DEF Live, SocketsOwned, OwnSockets
  <2> HIDE DEF to, m
  <2>3. /\ page' \in [Clients -> Pages] /\ page'[c] = to
        /\ \A d \in Clients \ {c} : page'[d] = page[d]
    BY <1>1, <2>1 DEF TypeOK
  <2>4. /\ call' \in [Clients -> Calls] /\ call'[c] = [at |-> at, name |-> name, conn |-> k]
        /\ \A d \in Clients \ {c} : call'[d] = call[d]
    BY <2>1, <2>2 DEF TypeOK, Calls
  <2>5. /\ DOMAIN request' = Conns /\ request'[k] = Append(request[k], m)
        /\ \A q \in Conns \ {k} : request'[q] = request[q]
    BY <2>1, <2>2 DEF TypeOK
  <2>6. ASSUME Agree(c, k)  PROVE Agree(c, k)'
    <3>1. request[k] = <<>> /\ answer[k] = <<>> /\ k \notin silent /\ PageAgrees(c, k)
      BY <2>6 DEF Agree
    <3>2. request'[k] = <<m>> /\ Head(<<m>>) = m /\ <<m>> # <<>>
      <4>1. Append(<<>>, m) = <<m>> /\ Head(<<m>>) = m
        OBVIOUS
      <4> QED BY <2>5, <3>1, <4>1
    <3>3. m.type = type /\ m.name = name
      BY DEF m
    <3>4. PageAgrees(c, k)'
      BY <1>1, <2>3, <3>1 DEF PageAgrees
    <3>5. call'[c].at = at /\ call'[c].name = name /\ call'[c] # Idle
      BY <2>4, Constants0
    <3>6. WaitAgrees(c, k)'
      <4>1. at \notin {"loginKey", "verifyKey", "idle"}
        OBVIOUS
      <4> QED BY <2>1, <2>3, <3>1, <3>2, <3>3, <3>5, <4>1 DEF WaitAgrees, to
    <3> QED BY <3>4, <3>5, <3>6 DEF Agree
  <2>7. call'[c].conn = fd[c]
    BY <2>4
  <2>8. UNCHANGED <<session, silent, fd, aesKey, opened, runner, overlap, db, label, answer>>
    BY <2>1
  <2>9. DOMAIN answer = Conns /\ DOMAIN db = Clients /\ DOMAIN label = Clients
    BY DEF TypeOK
  <2> QED BY <1>1, <2>1, <2>2, <2>3, <2>4, <2>5, <2>6, <2>7, <2>8, <2>9, PageStep
<1> QED BY <1>2, <1>3

(* loginReg.c: the buttons of the pages after the first one.                 *)
LEMMA PageClicksConn ==
    ASSUME CInv, NEW c \in Clients,
           \/ LoginToRegBtnOnClick(c) \/ RegToLoginBtnOnClick(c)
           \/ TotpRecommendYesBtnOnClick(c) \/ TotpRecommendNoBtnOnClick(c) \/ TotpSetupDoneBtnOnClick(c)
           \/ \E n \in Names : (\E right \in BOOLEAN : LoginBtnOnClick(c, n, right)) \/ RegBtnOnClick(c, n)
           \/ \E code \in shown \cup {0} : TotpVerifyBtnOnClick(c, code)
    PROVE  CInv'
<1> USE DEF CInv, ConnInv
<1>1. ASSUME NEW n \in Names, NEW right \in BOOLEAN, LoginBtnOnClick(c, n, right)
      PROVE  CInv'
  <2> DEFINE r == IF right THEN 1 ELSE 0
  <2>1. Request(c, "login", PageOf("login"), "LoginReq", n, r) /\ page[c] = "login" /\ call[c] = Idle
    BY <1>1 DEF LoginBtnOnClick, Clicks, PageOf
  <2>2. UNCHANGED <<session, silent, fd, aesKey, opened, runner, overlap, db, label>>
    BY <1>1 DEF LoginBtnOnClick, srvVars, connVars
  <2> HIDE DEF r
  <2>3. RequestOf("login") = "LoginReq" /\ n # NoName
    BY Constants0 DEF RequestOf
  <2> QED BY <2>1, <2>2, <2>3, RequestConn
<1>2. ASSUME NEW n \in Names, RegBtnOnClick(c, n)  PROVE CInv'
  <2>1. Request(c, "register", PageOf("register"), "RegisterReq", n, 0) /\ page[c] = "reg" /\ call[c] = Idle
    BY <1>2 DEF RegBtnOnClick, Clicks, PageOf
  <2>2. UNCHANGED <<session, silent, fd, aesKey, opened, runner, overlap, db, label>>
    BY <1>2 DEF RegBtnOnClick, srvVars, connVars
  <2>3. RequestOf("register") = "RegisterReq"
    BY DEF RequestOf
  <2> QED BY <2>1, <2>2, <2>3, RequestConn
<1>3. CASE TotpRecommendYesBtnOnClick(c)
  <2>1. Request(c, "setup", PageOf("setup"), "TOTPSetupReq", NoName, 0) /\ page[c] = "recommend" /\ call[c] = Idle
    BY <1>3 DEF TotpRecommendYesBtnOnClick, Clicks, PageOf
  <2>2. UNCHANGED <<session, silent, fd, aesKey, opened, runner, overlap, db, label>>
    BY <1>3 DEF TotpRecommendYesBtnOnClick, srvVars, connVars
  <2>3. RequestOf("setup") = "TOTPSetupReq"
    BY DEF RequestOf
  <2> QED BY <2>1, <2>2, <2>3, RequestConn
<1>4. ASSUME NEW code, TotpVerifyBtnOnClick(c, code)  PROVE CInv'
  <2>1. Request(c, "verify", PageOf("verify"), "TOTPVerifyResp", NoName, code) /\ page[c] = "verify" /\ call[c] = Idle
    BY <1>4 DEF TotpVerifyBtnOnClick, Clicks, PageOf
  <2>2. UNCHANGED <<session, silent, fd, aesKey, opened, runner, overlap, db, label>>
    BY <1>4 DEF TotpVerifyBtnOnClick, srvVars, connVars
  <2>3. RequestOf("verify") = "TOTPVerifyResp"
    BY DEF RequestOf
  <2> QED BY <2>1, <2>2, <2>3, RequestConn
<1>5. ASSUME NEW from, NEW to, TurnsTo(c, from, to),
             <<from, to>> \in {<<"login", "reg">>, <<"reg", "login">>,
                               <<"recommend", "home">>, <<"setup", "verify">>}
      PROVE  CInv'
  <2>1. /\ page[c] = from /\ call[c] = Idle /\ page' = [page EXCEPT ![c] = to]
        /\ UNCHANGED <<session, silent, fd, aesKey, opened, runner, overlap, request, answer, call, db, label>>
    BY <1>5 DEF TurnsTo, Clicks, ChangePage, srvVars, connVars, wireVars
  <2>2. to \in Pages \ {"connect"} /\ from # "connect"
    BY <1>5 DEF Pages
  <2>3. /\ page' \in [Clients -> Pages] /\ page'[c] = to
        /\ \A d \in Clients \ {c} : page'[d] = page[d]
    BY <2>1, <2>2 DEF TypeOK
  <2>4. ASSUME Agree(c, fd[c])  PROVE Agree(c, fd[c])'
    <3>1. PageAgrees(c, fd[c])'
      BY <1>5, <2>1, <2>3, <2>4 DEF Agree, PageAgrees
    <3> QED BY <2>1, <2>4, <3>1 DEF Agree
  <2> QED BY <2>1, <2>2, <2>3, <2>4, PageStep DEF TypeOK
<1> QED BY <1>1, <1>2, <1>3, <1>4, <1>5 DEF LoginToRegBtnOnClick, RegToLoginBtnOnClick,
           TotpRecommendNoBtnOnClick, TotpSetupDoneBtnOnClick

(* What is read from is a socket of the client's own, and Client.fd if one   *)
(* thread connects at a time.                                                *)
LEMMA ReadsItsOwn ==
    ASSUME CInv, NEW c \in Clients, NEW k, NEW ats, Waiting(c, ats, k), call[c] # Idle
    PROVE  /\ k \in opened[c] /\ k \in Conns
           /\ ~overlap[c] => k = fd[c] /\ page[c] # "connect"
           /\ answer[k] # <<>> => Live(k)
<1> USE DEF CInv, ConnInv
<1>1. k \in opened[c]
  BY DEF Waiting, SocketsOwned, OwnSockets
<1>2. k \in Conns
  BY <1>1 DEF TypeOK
<1>3. ~overlap[c] => page[c] # "connect"
  BY DEF ClientOK, OneAtATime
<1>4. ~overlap[c] => k = fd[c]
  BY <1>3, PastConnecting DEF Waiting
<1> QED BY <1>1, <1>2, <1>3, <1>4 DEF DownIsEmpty

(* The answer that a client takes is the one it waits for, and the last one. *)
LEMMA AnswerIsAwaited ==
    ASSUME CInv, NEW c \in Clients, NEW k \in Conns, Agree(c, k), answer[k] # <<>>, Taken(k)
    PROVE  /\ request[k] = <<>> /\ answer'[k] = <<>> /\ k \notin silent
           /\ AnswerAgrees(c, k, Head(answer[k]))
           /\ PageAgrees(c, k) /\ WaitAgrees(c, k)
<1>1. /\ request[k] = <<>> /\ k \notin silent /\ answer[k] = <<Head(answer[k])>>
      /\ AnswerAgrees(c, k, Head(answer[k])) /\ PageAgrees(c, k) /\ WaitAgrees(c, k)
  BY DEF Agree, WaitAgrees
<1>2. answer'[k] = <<>>
  <2> DEFINE m == Head(answer[k])
  <2>1. answer'[k] = Tail(answer[k])
    BY DEF Taken, CInv, ConnInv, TypeOK
  <2>2. Tail(<<m>>) = <<>>
    OBVIOUS
  <2> QED BY <1>1, <2>1, <2>2
<1> QED BY <1>1, <1>2

(* The end of a request, well or badly: what has to be shown is the page.    *)
LEMMA ReturnConn ==
    ASSUME CInv, NEW c \in Clients, NEW k, NEW ats, Waiting(c, ats, k), call[c] # Idle,
           Return(c), \/ ~Live(k) /\ UNCHANGED answer
                      \/ answer[k] # <<>> /\ Taken(k),
           UNCHANGED <<session, silent, fd, aesKey, opened, runner, overlap, request>>,
           page' \in [Clients -> Pages], DOMAIN db' = Clients, DOMAIN label' = Clients,
           \A d \in Clients \ {c} : page'[d] = page[d] /\ db'[d] = db[d] /\ label'[d] = label[d],
           page'[c] = "connect" => page[c] = "connect",
           ~overlap[c] /\ Live(k) /\ k = fd[c] /\ Agree(c, k) => PageAgrees(c, fd[c])'
    PROVE  CInv'
<1> USE DEF CInv, ConnInv
<1>1. /\ k \in opened[c] /\ k \in Conns
      /\ ~overlap[c] => k = fd[c] /\ page[c] # "connect"
  BY ReadsItsOwn
<1>2. /\ call' \in [Clients -> Calls] /\ call'[c] = Idle
      /\ \A d \in Clients \ {c} : call'[d] = call[d]
  BY Constants0 DEF Return, TypeOK
<1>3. /\ DOMAIN answer' = Conns /\ \A q \in Conns \ {k} : answer'[q] = answer[q]
      /\ ~Live(k) => answer'[k] = answer[k]
  BY <1>1, ReadsItsOwn DEF Taken, TypeOK
<1>4. ASSUME ~overlap[c], Live(fd[c]), Agree(c, fd[c])  PROVE Agree(c, fd[c])'
  <2>1. k = fd[c] /\ answer[k] # <<>> /\ Taken(k)
    BY <1>1, <1>4
  <2>2. request[k] = <<>> /\ answer'[k] = <<>> /\ k \notin silent
    BY <1>1, <1>4, <2>1, AnswerIsAwaited
  <2> QED BY <1>2, <1>4, <2>1, <2>2 DEF Agree
<1>5. \A q \in Conns : ~Live(q) \/ q \notin opened[c] => request'[q] = request[q] /\ answer'[q] = answer[q]
  BY <1>1, <1>3
<1>6. DOMAIN request' = Conns
  BY DEF TypeOK
<1> HIDE DEF CInv, ConnInv
<1> QED BY <1>1, <1>2, <1>3, <1>4, <1>5, <1>6, PageStep

LEMMA RequestFailsConn ==
    ASSUME CInv, NEW c \in Clients, NEW k, RequestFails(c, k)
    PROVE  CInv'
<1>1. /\ call[c] # Idle /\ Waiting(c, {call[c].at}, k) /\ Return(c)
      /\ \/ ~Live(k) /\ UNCHANGED answer
         \/ answer[k] # <<>> /\ Taken(k)
      /\ UNCHANGED <<session, silent, fd, aesKey, opened, runner, overlap, request, db, label>>
      /\ page' = [page EXCEPT ![c] = PageAfterFailure(c, call[c].at)]
  BY DEF RequestFails, srvVars, connVars, ChangePage
<1>2. page \in [Clients -> Pages] /\ DOMAIN db = Clients /\ DOMAIN label = Clients
  BY DEF CInv, ConnInv, TypeOK
<1>3. PageAfterFailure(c, call[c].at) \in {page[c], "login"}
  BY DEF PageAfterFailure
<1>4. /\ page' \in [Clients -> Pages] /\ page'[c] \in {page[c], "login"}
      /\ \A d \in Clients \ {c} : page'[d] = page[d]
  BY <1>1, <1>2, <1>3 DEF Pages
<1>5. ASSUME k = fd[c], Agree(c, k)  PROVE PageAgrees(c, fd[c])'
  BY <1>1, <1>4, <1>5 DEF Agree, PageAgrees
<1> QED BY <1>1, <1>2, <1>4, <1>5, ReturnConn

(* auth.c:245, clientLoadDB: the request for the key follows the answer.     *)
LEMMA ClientLoadDBConn ==
    ASSUME CInv, NEW c \in Clients, NEW k, NEW ats, Waiting(c, ats, k), call[c] # Idle,
           answer[k] # <<>>, Taken(k), NEW at \in {"loginKey", "verifyKey"}, ClientLoadDB(c, at),
           UNCHANGED <<session, silent, fd, aesKey, opened, runner, overlap, db, label>>,
           ~overlap[c] /\ k = fd[c] /\ Agree(c, k) =>
             /\ page[c] = PageOf(at) /\ session[k].state = "Room"
             /\ at = "loginKey" => call[c].name # NoName /\ session[k].name = call[c].name
             /\ at = "verifyKey" => call[c].name = NoName
    PROVE  CInv'
<1> USE DEF CInv, ConnInv
<1>1. /\ k \in opened[c] /\ k \in Conns /\ Live(k)
      /\ ~overlap[c] => k = fd[c] /\ page[c] # "connect"
  BY ReadsItsOwn
<1>2. /\ DOMAIN answer' = Conns /\ \A q \in Conns \ {k} : answer'[q] = answer[q]
  BY <1>1 DEF Taken, TypeOK
<1>3. CASE CanSend(c)
  <2> DEFINE f == fd[c]
             m == [type |-> "DBKeyReq", name |-> NoName, n |-> 0, key |-> aesKey[c]]
  <2>1. /\ request' = [request EXCEPT ![f] = Append(@, m)] /\ UNCHANGED page /\ Live(f)
        /\ call' = [call EXCEPT ![c] = [at |-> at, name |-> call[c].name, conn |-> f]]
    BY <1>3 DEF ClientLoadDB, SendRequest, Wait, CanSend
  <2>2. f \in Conns /\ f \in opened[c]
    BY <2>1, Constants0 DEF Live, SocketsOwned, OwnSockets
  <2> HIDE DEF m
  <2>3. /\ call' \in [Clients -> Calls] /\ call'[c] = [at |-> at, name |-> call[c].name, conn |-> f]
        /\ \A d \in Clients \ {c} : call'[d] = call[d]
    <3>1. call[c].name \in Names \cup {NoName}
      BY DEF TypeOK, Calls
    <3> QED BY <2>1, <2>2, <3>1 DEF TypeOK, Calls
  <2>4. /\ DOMAIN request' = Conns /\ request'[f] = Append(request[f], m)
        /\ \A q \in Conns \ {f} : request'[q] = request[q]
    BY <2>1, <2>2 DEF TypeOK
  <2>5. ASSUME ~overlap[c], Agree(c, f)  PROVE Agree(c, f)'
    <3>1. k = f /\ request[f] = <<>> /\ answer'[f] = <<>> /\ f \notin silent /\ PageAgrees(c, f)
      BY <1>1, <2>5, AnswerIsAwaited
    <3>2. request'[f] = <<m>> /\ Head(<<m>>) = m /\ <<m>> # <<>>
      <4>1. Append(<<>>, m) = <<m>> /\ Head(<<m>>) = m
        OBVIOUS
      <4> QED BY <2>4, <3>1, <4>1
    <3>3. m.type = "DBKeyReq" /\ RequestOf(at) = "DBKeyReq"
      BY DEF m, RequestOf
    <3>4. PageAgrees(c, f)'
      BY <2>1, <3>1 DEF PageAgrees
    <3>5. call'[c].at = at /\ call'[c].name = call[c].name /\ call'[c] # Idle
      BY <2>3, Constants0
    <3>6. WaitAgrees(c, f)'
      BY <2>1, <2>5, <3>1, <3>2, <3>3, <3>5 DEF WaitAgrees
    <3> QED BY <3>4, <3>5, <3>6 DEF Agree
  <2>6. call'[c].conn = fd[c]
    BY <2>3
  <2>7. \A q \in Conns : ~Live(q) \/ q \notin opened[c] => request'[q] = request[q] /\ answer'[q] = answer[q]
    BY <1>1, <1>2, <2>1, <2>2, <2>4
  <2>8. page \in [Clients -> Pages] /\ DOMAIN db = Clients /\ DOMAIN label = Clients
    BY DEF TypeOK
  <2> HIDE DEF CInv, ConnInv
  <2> QED BY <1>1, <1>2, <2>1, <2>2, <2>3, <2>4, <2>5, <2>6, <2>7, <2>8, PageStep
<1>4. CASE ~CanSend(c)
  <2>1. /\ Return(c) /\ UNCHANGED request /\ page' = [page EXCEPT ![c] = PageAfterFailure(c, at)]
    BY <1>4 DEF ClientLoadDB, ChangePage
  <2>2. page \in [Clients -> Pages] /\ DOMAIN db = Clients /\ DOMAIN label = Clients
    BY DEF TypeOK
  <2>3. PageAfterFailure(c, at) \in {page[c], "login"}
    BY DEF PageAfterFailure
  <2>4. /\ page' \in [Clients -> Pages] /\ page'[c] \in {page[c], "login"}
        /\ \A d \in Clients \ {c} : page'[d] = page[d]
    BY <2>1, <2>2, <2>3 DEF Pages
  <2>5. ~(Live(k) /\ k = fd[c])
    BY <1>4 DEF CanSend
  <2> QED BY <2>1, <2>2, <2>4, <2>5, ReturnConn
<1> QED BY <1>3, <1>4

LEMMA ReceivesAnswer ==
    ASSUME CInv, NEW c \in Clients, NEW k, NEW ats, NEW types, Receives(c, ats, types, k), "idle" \notin ats
    PROVE  /\ Waiting(c, ats, k) /\ call[c] # Idle /\ answer[k] # <<>> /\ Head(answer[k]).type \in types
           /\ k \in Conns /\ Live(k) /\ call[c].at \in ats
BY ReadsItsOwn, Constants0 DEF Receives, Waiting

(* What the page makes of the answer in hand, while the client waits for it. *)
LEMMA AnswerTells ==
    ASSUME CInv, NEW c \in Clients, NEW k \in Conns, Agree(c, k), answer[k] # <<>>, Taken(k)
    PROVE  LET m == Head(answer[k])  at == call[c].at
           IN  /\ page[c] = PageOf(at)
               /\ at = "login" /\ (m.type = "LoginResp" => m.name # NoName) =>
                    /\ session[k].name = call[c].name /\ call[c].name # NoName
                    /\ m.type = "LoginResp" => session[k].state = "Room"
               /\ at = "verify" /\ m.name # NoName =>
                    session[k].state = "Room" /\ m.name = session[k].name
               /\ at \in {"verify", "verifyKey"} => label[c].user = session[k].name /\ call[c].name = NoName
               /\ at \in {"loginKey", "verifyKey"} => session[k].state = "Room"
               /\ at = "loginKey" => session[k].name = call[c].name /\ call[c].name # NoName
<1>1. AnswerAgrees(c, k, Head(answer[k])) /\ PageAgrees(c, k) /\ WaitAgrees(c, k)
  BY AnswerIsAwaited
<1>2. call[c].at \in {"verify", "verifyKey"} => page[c] = "verify"
  BY <1>1 DEF WaitAgrees, PageOf
<1>3. call[c].at \in {"verify", "verifyKey"} => label[c].user = session[k].name
  BY <1>1, <1>2 DEF PageAgrees
<1> QED BY <1>1, <1>3 DEF WaitAgrees, AnswerAgrees

(* auth.c, clientLogin: the name on the home page is the one that was typed. *)
LEMMA ClientLoginConn ==
    ASSUME CInv, NEW c \in Clients, NEW k, ClientLogin(c, k)
    PROVE  CInv'
<1> DEFINE resp == Head(answer[k])
<1>1. /\ Waiting(c, {"login"}, k) /\ call[c] # Idle /\ answer[k] # <<>> /\ k \in Conns
      /\ call[c].at = "login" /\ Taken(k)
      /\ UNCHANGED <<session, silent, fd, aesKey, opened, runner, overlap, db>>
  BY ReceivesAnswer DEF ClientLogin, srvVars, connVars
<1>2. page \in [Clients -> Pages] /\ DOMAIN db = Clients /\ DOMAIN label = Clients
  BY DEF CInv, ConnInv, TypeOK
<1>3. CASE /\ resp.type = "TOTPVerifyReq" /\ Return(c) /\ UNCHANGED request
           /\ HomePageInitUpdate(c, NoName, call[c].name) /\ ChangePage(c, "verify")
  <2>1. /\ page' = [page EXCEPT ![c] = "verify"]
        /\ label' = [label EXCEPT ![c] = [user |-> IF call[c].name = NoName THEN @.user ELSE call[c].name,
                                          nick |-> NoName]]
    BY <1>3 DEF ChangePage, HomePageInitUpdate
  <2>2. /\ page' \in [Clients -> Pages] /\ page'[c] = "verify"
        /\ \A d \in Clients \ {c} : page'[d] = page[d]
    BY <1>2, <2>1 DEF Pages
  <2>3. /\ DOMAIN label' = Clients /\ \A d \in Clients \ {c} : label'[d] = label[d]
        /\ call[c].name # NoName => label'[c].user = call[c].name
    BY <1>2, <2>1
  <2>4. ASSUME k = fd[c], Agree(c, k)  PROVE PageAgrees(c, fd[c])'
    <3>1. session[k].name = call[c].name /\ call[c].name # NoName
      BY <1>1, <1>3, <2>4, AnswerTells
    <3> QED BY <1>1, <2>2, <2>3, <2>4, <3>1 DEF PageAgrees
  <2> QED BY <1>1, <1>2, <1>3, <2>2, <2>3, <2>4, ReturnConn
<1>4. CASE Return(c) /\ UNCHANGED <<request, page, label>>
  <2>1. ASSUME k = fd[c], Agree(c, k)  PROVE PageAgrees(c, fd[c])'
    BY <1>1, <1>4, <2>1 DEF Agree, PageAgrees
  <2> QED BY <1>1, <1>2, <1>4, <2>1, ReturnConn
<1>5. CASE resp.type = "LoginResp" /\ resp.name # NoName /\ ClientLoadDB(c, "loginKey") /\ UNCHANGED label
  <2>1. ASSUME Agree(c, k)
        PROVE  /\ page[c] = PageOf("loginKey") /\ session[k].state = "Room"
               /\ call[c].name # NoName /\ session[k].name = call[c].name
    BY <1>1, <1>5, <2>1, AnswerTells DEF PageOf
  <2> HIDE DEF resp
  <2> QED BY <1>1, <1>5, <2>1, ClientLoadDBConn
<1> QED BY <1>3, <1>4, <1>5 DEF ClientLogin

(* auth.c, clientInitDB: the database is open, and the pages turn to those   *)
(* of a session that is past the login.                                      *)
LEMMA DBKeyArrivesConn ==
    ASSUME CInv, NEW c \in Clients, NEW k, DBKeyArrives(c, k)
    PROVE  CInv'
<1>1. /\ Waiting(c, {"loginKey", "verifyKey"}, k) /\ call[c] # Idle /\ answer[k] # <<>> /\ k \in Conns
      /\ call[c].at \in {"loginKey", "verifyKey"} /\ Taken(k) /\ Return(c)
      /\ UNCHANGED <<session, silent, fd, aesKey, opened, runner, overlap, request>>
  BY ReceivesAnswer DEF DBKeyArrives, srvVars, connVars
<1>2. page \in [Clients -> Pages] /\ DOMAIN db = Clients /\ DOMAIN label = Clients
  BY DEF CInv, ConnInv, TypeOK
<1>3. CASE /\ \E key : db' = [db EXCEPT ![c] = key]
           /\ HomePageInitUpdate(c, session[k].name, call[c].name)
           /\ ChangePage(c, IF call[c].at = "loginKey" THEN "recommend" ELSE "home")
  <2>1. /\ page' = [page EXCEPT ![c] = IF call[c].at = "loginKey" THEN "recommend" ELSE "home"]
        /\ label' = [label EXCEPT ![c] = [user |-> IF call[c].name = NoName THEN label[c].user ELSE call[c].name,
                                          nick |-> session[k].name]]
    BY <1>3 DEF ChangePage, HomePageInitUpdate
  <2>2. /\ page' \in [Clients -> Pages] /\ page'[c] \in {"recommend", "home"}
        /\ \A d \in Clients \ {c} : page'[d] = page[d]
    BY <1>2, <2>1 DEF Pages
  <2>3. /\ DOMAIN label' = Clients /\ \A d \in Clients \ {c} : label'[d] = label[d]
        /\ label'[c] = [user |-> IF call[c].name = NoName THEN label[c].user ELSE call[c].name,
                        nick |-> session[k].name]
    BY <1>2, <2>1
  <2>4. DOMAIN db' = Clients /\ \A d \in Clients \ {c} : db'[d] = db[d]
    BY <1>2, <1>3
  <2>5. ASSUME k = fd[c], Agree(c, k)  PROVE PageAgrees(c, fd[c])'
    <3>1. /\ session[k].state = "Room"
          /\ (IF call[c].name = NoName THEN label[c].user ELSE call[c].name) = session[k].name
      BY <1>1, <2>5, AnswerTells
    <3> QED BY <1>1, <2>2, <2>3, <2>5, <3>1 DEF PageAgrees
  <2>6. page'[c] = "connect" => page[c] = "connect"
    BY <2>2
  <2> QED BY <1>1, <2>2, <2>3, <2>4, <2>5, <2>6, ReturnConn
<1>4. CASE ChangePage(c, PageAfterFailure(c, call[c].at)) /\ UNCHANGED <<db, label>>
  <2>1. PageAfterFailure(c, call[c].at) \in {page[c], "login"}
    BY DEF PageAfterFailure
  <2>2. /\ page' \in [Clients -> Pages] /\ page'[c] \in {page[c], "login"}
        /\ \A d \in Clients \ {c} : page'[d] = page[d]
    BY <1>2, <1>4, <2>1 DEF ChangePage, Pages
  <2>3. ASSUME k = fd[c], Agree(c, k)  PROVE PageAgrees(c, fd[c])'
    BY <1>1, <1>4, <2>2, <2>3 DEF Agree, PageAgrees
  <2>4. page'[c] = "connect" => page[c] = "connect"
    BY <2>2
  <2> QED BY <1>1, <1>2, <1>4, <2>2, <2>3, <2>4, ReturnConn
<1> QED BY <1>3, <1>4, Zenon DEF DBKeyArrives

(* auth.c, clientTOTPVerify: the name is the one the challenge was for.      *)
LEMMA ClientTOTPVerifyConn ==
    ASSUME CInv, NEW c \in Clients, NEW k, ClientTOTPVerify(c, k)
    PROVE  CInv'
<1> DEFINE resp == Head(answer[k])
<1>1. /\ Waiting(c, {"verify"}, k) /\ call[c] # Idle /\ answer[k] # <<>> /\ k \in Conns
      /\ call[c].at = "verify" /\ Taken(k)
      /\ UNCHANGED <<session, silent, fd, aesKey, opened, runner, overlap, db>>
  BY ReceivesAnswer DEF ClientTOTPVerify, srvVars, connVars
<1>2. page \in [Clients -> Pages] /\ DOMAIN db = Clients /\ DOMAIN label = Clients
  BY DEF CInv, ConnInv, TypeOK
<1>3. CASE Return(c) /\ ChangePage(c, "login") /\ UNCHANGED <<request, label>>
  <2>1. /\ page' \in [Clients -> Pages] /\ page'[c] = "login"
        /\ \A d \in Clients \ {c} : page'[d] = page[d]
    BY <1>2, <1>3 DEF ChangePage, Pages
  <2>2. PageAgrees(c, fd[c])'
    BY <2>1 DEF PageAgrees
  <2> QED BY <1>1, <1>2, <1>3, <2>1, <2>2, ReturnConn
<1>4. CASE /\ resp.name # NoName /\ Return(c) /\ HomePageInitUpdate(c, resp.name, NoName)
           /\ ChangePage(c, "home") /\ UNCHANGED request
  <2>1. /\ page' \in [Clients -> Pages] /\ page'[c] = "home"
        /\ \A d \in Clients \ {c} : page'[d] = page[d]
    BY <1>2, <1>4 DEF ChangePage, Pages
  <2>2. label' = [label EXCEPT ![c] = [user |-> label[c].user, nick |-> resp.name]]
    BY <1>4 DEF HomePageInitUpdate
  <2>3. /\ DOMAIN label' = Clients /\ \A d \in Clients \ {c} : label'[d] = label[d]
        /\ label'[c] = [user |-> label[c].user, nick |-> resp.name]
    BY <1>2, <2>2
  <2>4. ASSUME k = fd[c], Agree(c, k)  PROVE PageAgrees(c, fd[c])'
    <3>1. /\ session[k].state = "Room" /\ resp.name = session[k].name
          /\ label[c].user = session[k].name
      BY <1>1, <1>4, <2>4, AnswerTells
    <3> QED BY <1>1, <2>1, <2>3, <2>4, <3>1 DEF PageAgrees
  <2> HIDE DEF resp
  <2> QED BY <1>1, <1>2, <1>4, <2>1, <2>3, <2>4, ReturnConn
<1>5. CASE resp.name # NoName /\ ClientLoadDB(c, "verifyKey") /\ UNCHANGED label
  <2>1. ASSUME Agree(c, k)
        PROVE  page[c] = PageOf("verifyKey") /\ session[k].state = "Room" /\ call[c].name = NoName
    BY <1>1, <1>5, <2>1, AnswerTells DEF PageOf
  <2> HIDE DEF resp
  <2> QED BY <1>1, <1>5, <2>1, ClientLoadDBConn
<1> QED BY <1>3, <1>4, <1>5 DEF ClientTOTPVerify

(* connection.c, auth.c: the end of a wait, whatever was waited for.         *)
LEMMA AnsweredConn ==
    ASSUME CInv, NEW c \in Clients, NEW k \in Conns, Answered(c, k)
    PROVE  CInv'
<1>1. CASE ClientRegister(c, k) \/ ClientTOTPSetup(c, k)
  <2>1. PICK ats \in {{"register"}, {"setup"}} :
          /\ Waiting(c, ats, k) /\ call[c] # Idle /\ answer[k] # <<>> /\ Taken(k) /\ Return(c)
    BY <1>1, ReceivesAnswer DEF ClientRegister, ClientTOTPSetup
  <2>2. UNCHANGED <<session, silent, fd, aesKey, opened, runner, overlap, request, page, db, label>>
    BY <1>1 DEF ClientRegister, ClientTOTPSetup, srvVars, connVars
  <2>3. page \in [Clients -> Pages] /\ DOMAIN db = Clients /\ DOMAIN label = Clients
    BY DEF CInv, ConnInv, TypeOK
  <2>4. ASSUME k = fd[c], Agree(c, k)  PROVE PageAgrees(c, fd[c])'
    BY <2>2, <2>4 DEF Agree, PageAgrees
  <2> QED BY <2>1, <2>2, <2>3, <2>4, ReturnConn
<1> QED BY <1>1, RequestFailsConn, ClientLoginConn, DBKeyArrivesConn, ClientTOTPVerifyConn DEF Answered

(* connectPage.c: a click while a thread is connecting is remembered.        *)
LEMMA ConnectButtonConn ==
    ASSUME CInv, NEW c \in Clients, ConnectButtonOnClick(c)
    PROVE  CInv'
<1> USE DEF CInv, ConnInv
<1>1. PICK i \in Runners : /\ runner[c][i] = NoRunner
                           /\ runner' = [runner EXCEPT ![c][i].pc = "connect"]
  BY DEF ConnectButtonOnClick
<1>2. /\ UNCHANGED <<session, request, answer, silent, fd, aesKey, opened, page, call, db, label>>
      /\ page[c] = "connect" /\ call[c] = Idle
  BY DEF ConnectButtonOnClick, srvVars, wireVars, pageVars
<1>3. /\ runner' \in [Clients -> [Runners -> Threads]]
      /\ runner'[c][i] = [pc |-> "connect", conn |-> 0]
      /\ \A j \in Runners \ {i} : runner'[c][j] = runner[c][j]
      /\ \A d \in Clients \ {c} : runner'[d] = runner[d]
  <2>1. [NoRunner EXCEPT !.pc = "connect"] = [pc |-> "connect", conn |-> 0]
    BY DEF NoRunner
  <2>2. runner' = [runner EXCEPT ![c] = [runner[c] EXCEPT ![i] = [pc |-> "connect", conn |-> 0]]]
    BY <1>1, <2>1 DEF TypeOK
  <2> QED BY <2>2 DEF TypeOK, Threads
<1>4. /\ overlap' \in [Clients -> BOOLEAN]
      /\ \A d \in Clients \ {c} : overlap'[d] = overlap[d]
  BY DEF ConnectButtonOnClick, TypeOK
<1>5. ~overlap'[c] => ~overlap[c] /\ \A j \in Runners : runner[c][j] = NoRunner
  BY DEF ConnectButtonOnClick, TypeOK
<1>6. IInv' /\ TypeOK' /\ DownIsEmpty'
  BY <1>2, <1>3, <1>4 DEF IInv, TypeOK, DownIsEmpty, Live
<1>7. OwnSockets(c)'
  <2>1. OwnSockets(c)
    BY DEF SocketsOwned
  <2>2. \A j \in Runners : runner'[c][j].pc = "fd" => j # i
    BY <1>3
  <2> QED BY <1>2, <1>3, <2>1, <2>2 DEF OwnSockets
<1>8. ClientOK(c)'
  <2> SUFFICES ASSUME ~overlap'[c]
               PROVE  OneAtATime(c)' /\ \A k \in opened'[c] : Live(k)' => Agree(c, k)'
    BY DEF ClientOK
  <2>1. ~overlap[c] /\ \A j \in Runners : runner[c][j] = NoRunner
    BY <1>5
  <2>2. /\ aesKey[c] = 0 /\ fd[c] = 0 /\ opened[c] = {} /\ db[c] = 0
    BY <1>2, <2>1 DEF ClientOK, OneAtATime
  <2>3. runner'[c][i] # NoRunner /\ \A j \in Runners : runner'[c][j] # NoRunner => j = i
    BY <1>3, <2>1, Constants0
  <2>4. Connecting(c, i)'
    BY <1>2, <1>3, <2>2 DEF Connecting
  <2> QED BY <1>2, <2>2, <2>3, <2>4 DEF OneAtATime
<1>9. \A d \in Clients \ {c} : \A k \in opened[d] : k \notin opened[c]
  BY DEF SocketsOwned
<1> HIDE DEF CInv, ConnInv
<1> QED BY <1>2, <1>3, <1>4, <1>6, <1>7, <1>8, <1>9, ClientFrame

(* One thread goes on: it is the only one, if the client connects one at a   *)
(* time, and then nothing is on the screen but the first page.               *)
LEMMA TheRunner ==
    ASSUME CInv, NEW c \in Clients, NEW i \in Runners, runner[c][i].pc # "none"
    PROVE  /\ runner[c][i] # NoRunner
           /\ ~overlap[c] => /\ Connecting(c, i) /\ page[c] = "connect" /\ call[c] = Idle /\ db[c] = 0
                             /\ \A j \in Runners \ {i} : runner[c][j] = NoRunner
<1>1. runner[c][i] # NoRunner
  BY Constants0
<1> QED BY <1>1 DEF CInv, ConnInv, ClientOK, OneAtATime, Connecting

(* The thread i of client c is in state r now.                               *)
RunnerTo(c, i, r) == runner' = [runner EXCEPT ![c] = [runner[c] EXCEPT ![i] = r]]

LEMMA RunnerToIs ==
    ASSUME CInv, NEW c \in Clients, NEW i \in Runners, NEW r \in Threads, RunnerTo(c, i, r)
    PROVE  /\ runner' \in [Clients -> [Runners -> Threads]] /\ runner'[c][i] = r
           /\ \A j \in Runners \ {i} : runner'[c][j] = runner[c][j]
           /\ \A d \in Clients \ {c} : runner'[d] = runner[d]
BY DEF RunnerTo, CInv, ConnInv, TypeOK

(* connection.c, exchangeAESKey: a new socket, which nobody else has.        *)
LEMMA ExchangeAESKeyConn ==
    ASSUME CInv, NEW c \in Clients, NEW i \in Runners, ExchangeAESKey(c, i)
    PROVE  CInv'
<1> USE DEF CInv, ConnInv
<1>1. /\ runner[c][i].pc = "connect"
      /\ UNCHANGED <<request, answer, silent, fd, aesKey, overlap, page, call, db, label>>
  BY DEF ExchangeAESKey, wireVars, pageVars
<1>2. CASE RunnerTo(c, i, NoRunner) /\ UNCHANGED <<session, opened>>
  <2>1. /\ runner' \in [Clients -> [Runners -> Threads]] /\ runner'[c][i] = NoRunner
        /\ \A j \in Runners \ {i} : runner'[c][j] = runner[c][j]
        /\ \A d \in Clients \ {c} : runner'[d] = runner[d]
    BY <1>2, Constants0, RunnerToIs
  <2>2. IInv' /\ TypeOK' /\ DownIsEmpty'
    BY <1>1, <1>2, <2>1 DEF IInv, TypeOK, DownIsEmpty, Live
  <2>3. OwnSockets(c)'
    <3>1. OwnSockets(c) /\ \A j \in Runners : runner'[c][j].pc = "fd" => j # i
      BY <2>1, Constants0 DEF SocketsOwned
    <3> QED BY <1>1, <1>2, <2>1, <3>1 DEF OwnSockets
  <2>4. ClientOK(c)'
    <3> SUFFICES ASSUME ~overlap[c]
                 PROVE  OneAtATime(c)' /\ \A k \in opened'[c] : Live(k)' => Agree(c, k)'
      BY <1>1 DEF ClientOK
    <3>1. /\ Connecting(c, i) /\ page[c] = "connect" /\ call[c] = Idle /\ db[c] = 0
          /\ \A j \in Runners \ {i} : runner[c][j] = NoRunner
      BY <1>1, TheRunner
    <3>2. opened[c] = {} /\ fd[c] = 0 /\ aesKey[c] = 0
      BY <1>1, <3>1 DEF Connecting
    <3>3. \A j \in Runners : runner'[c][j] = NoRunner
      BY <2>1, <3>1
    <3> QED BY <1>1, <1>2, <3>1, <3>2, <3>3 DEF OneAtATime
  <2>5. \A d \in Clients \ {c} : \A k \in opened[d] : k \notin opened[c]
    BY DEF SocketsOwned
  <2> HIDE DEF CInv, ConnInv
  <2> QED BY <1>1, <1>2, <2>1, <2>2, <2>3, <2>4, <2>5, ClientFrame
<1>3. ASSUME NEW k \in NextConn, RunnerTo(c, i, [pc |-> "fd", conn |-> k]),
             session' = [session EXCEPT ![k] = [NoUser EXCEPT !.state = "Login"]],
             opened' = [opened EXCEPT ![c] = opened[c] \cup {k}]
      PROVE  CInv'
  <2> DEFINE r == [pc |-> "fd", conn |-> k]
  <2>1. k \in Conns /\ ~Live(k) /\ \A d \in Clients : k \notin opened[d]
    BY DEF NextConn, Unused
  <2>2. r \in Threads
    BY <2>1 DEF Threads
  <2>3. /\ runner' \in [Clients -> [Runners -> Threads]] /\ runner'[c][i] = r
        /\ \A j \in Runners \ {i} : runner'[c][j] = runner[c][j]
        /\ \A d \in Clients \ {c} : runner'[d] = runner[d]
    BY <1>3, <2>2, RunnerToIs
  <2>4. /\ DOMAIN session' = Conns /\ session'[k] = [NoUser EXCEPT !.state = "Login"]
        /\ \A q \in Conns \ {k} : session'[q] = session[q]
    BY <1>3, <2>1 DEF IInv
  <2>5. IInv'
    BY <2>1, <2>4, NobodyIsGuarded DEF IInv
  <2>6. /\ opened' \in [Clients -> SUBSET Conns] /\ opened'[c] = opened[c] \cup {k}
        /\ \A d \in Clients \ {c} : opened'[d] = opened[d]
    BY <1>3, <2>1 DEF TypeOK
  <2>7. TypeOK'
    BY <1>1, <2>3, <2>6 DEF TypeOK
  <2>8. DownIsEmpty'
    <3>1. \A q \in Conns : ~Live(q)' => ~Live(q)
      BY <2>1, <2>4 DEF Live
    <3> QED BY <1>1, <3>1 DEF DownIsEmpty
  <2>9. OwnSockets(c)'
    <3>1. OwnSockets(c) /\ r.pc = "fd" /\ r.conn = k
      BY DEF SocketsOwned
    <3> HIDE DEF r
    <3>2. k # fd[c]
      BY <2>1, <3>1, Constants0 DEF OwnSockets
    <3>3. \A j \in Runners : runner[c][j].pc = "fd" => runner[c][j].conn # k
      BY <2>1, <3>1 DEF OwnSockets
    <3>4. /\ fd'[c] = fd[c] /\ call'[c] = call[c] /\ opened[c] \subseteq opened'[c]
          /\ k \in opened'[c]
      BY <1>1, <2>6
    <3>5. \A j \in Runners : runner'[c][j].pc = "fd" =>
            /\ runner'[c][j].conn \in opened'[c] /\ runner'[c][j].conn # fd'[c]
            /\ \A q \in Runners \ {j} :
                 runner'[c][q].pc = "fd" => runner'[c][q].conn # runner'[c][j].conn
      <4>1. ASSUME NEW j \in Runners \ {i}, runner'[c][j].pc = "fd"
            PROVE  /\ runner'[c][j].conn \in opened'[c] /\ runner'[c][j].conn # fd'[c]
                   /\ \A q \in Runners \ {j} :
                        runner'[c][q].pc = "fd" => runner'[c][q].conn # runner'[c][j].conn
        BY <2>3, <3>1, <3>3, <3>4, <4>1 DEF OwnSockets
      <4>2. /\ runner'[c][i].conn \in opened'[c] /\ runner'[c][i].conn # fd'[c]
            /\ \A q \in Runners \ {i} :
                 runner'[c][q].pc = "fd" => runner'[c][q].conn # runner'[c][i].conn
        BY <2>3, <3>1, <3>2, <3>3, <3>4
      <4> QED BY <4>1, <4>2
    <3> QED BY <3>1, <3>4, <3>5 DEF OwnSockets
  <2>10. ClientOK(c)'
    <3> SUFFICES ASSUME ~overlap[c]
                 PROVE  OneAtATime(c)' /\ \A q \in opened'[c] : Live(q)' => Agree(c, q)'
      BY <1>1 DEF ClientOK
    <3>1. /\ Connecting(c, i) /\ page[c] = "connect" /\ call[c] = Idle /\ db[c] = 0
          /\ \A j \in Runners \ {i} : runner[c][j] = NoRunner
      BY <1>1, TheRunner
    <3>2. opened'[c] = {k} /\ fd[c] = 0 /\ aesKey[c] = 0 /\ k # 0
      BY <1>1, <2>1, <2>6, <3>1, Constants0 DEF Connecting
    <3>3. r.pc = "fd" /\ r.conn = k /\ r # NoRunner
      BY Constants0
    <3> HIDE DEF r
    <3>4. Connecting(c, i)'
      BY <1>1, <2>3, <3>1, <3>2, <3>3 DEF Connecting
    <3>5. OneAtATime(c)'
      BY <1>1, <2>3, <3>1, <3>3, <3>4 DEF OneAtATime
    <3>6. request[k] = <<>> /\ answer[k] = <<>> /\ k \notin silent
      BY <2>1 DEF DownIsEmpty
    <3>7. Agree(c, k)'
      BY <1>1, <3>1, <3>6 DEF Agree, PageAgrees
    <3> QED BY <3>2, <3>5, <3>7
  <2>11. \A d \in Clients \ {c} : \A q \in opened[d] :
           q \in Conns /\ q # k /\ q \notin opened'[c]
    BY <2>1, <2>6 DEF SocketsOwned, TypeOK
  <2> HIDE DEF CInv, ConnInv, r
  <2> QED BY <1>1, <2>3, <2>4, <2>5, <2>6, <2>7, <2>8, <2>9, <2>10, <2>11, ClientFrame
<1>4. /\ runner' = [runner EXCEPT ![c][i] = NoRunner] => RunnerTo(c, i, NoRunner)
      /\ \A k : runner' = [runner EXCEPT ![c][i] = [pc |-> "fd", conn |-> k]]
                  => RunnerTo(c, i, [pc |-> "fd", conn |-> k])
  BY DEF RunnerTo, TypeOK
<1> QED BY <1>2, <1>3, <1>4, Zenon DEF ExchangeAESKey

(* connection.c, connectPage.c: the socket, the key, and then the page.      *)
LEMMA ClientConnectConn ==
    ASSUME CInv, NEW c \in Clients, NEW i \in Runners, ClientConnect(c, i)
    PROVE  CInv'
<1> DEFINE k == runner[c][i].conn
           r == [pc |-> IF runner[c][i].pc = "fd" THEN "key" ELSE "page", conn |-> k]
<1>1. /\ UNCHANGED <<session, request, answer, silent, opened, overlap, page, call, db, label>>
      /\ runner[c][i].pc \in {"fd", "key"}
  BY DEF ClientConnect, srvVars, wireVars, pageVars
<1>2. runner[c][i] \in Threads /\ DOMAIN runner[c][i] = {"pc", "conn"} /\ k \in Conns \cup {0}
  BY DEF CInv, ConnInv, TypeOK, Threads
<1>3. r \in Threads /\ RunnerTo(c, i, r)
  <2>1. r \in Threads
    BY <1>2 DEF Threads
  <2>2. runner \in [Clients -> [Runners -> Threads]]
    BY DEF CInv, ConnInv, TypeOK
  <2>5. \A t \in Threads : /\ [t EXCEPT !.pc = "key"] = [pc |-> "key", conn |-> t.conn]
                           /\ [t EXCEPT !.pc = "page"] = [pc |-> "page", conn |-> t.conn]
    BY DEF Threads
  <2>3. CASE runner[c][i].pc = "fd" /\ runner' = [runner EXCEPT ![c][i].pc = "key"]
    <3>1. [runner[c][i] EXCEPT !.pc = "key"] = [pc |-> "key", conn |-> k]
      BY <1>2, <2>5, Zenon
    <3>2. r = [pc |-> "key", conn |-> k]
      BY <2>3
    <3>3. runner' = [runner EXCEPT ![c] = [runner[c] EXCEPT ![i] = r]]
      BY <2>2, <2>3, <3>1, <3>2
    <3> QED BY <2>1, <3>3 DEF RunnerTo
  <2>4. CASE runner[c][i].pc = "key" /\ runner' = [runner EXCEPT ![c][i].pc = "page"]
    <3>1. [runner[c][i] EXCEPT !.pc = "page"] = [pc |-> "page", conn |-> k]
      BY <1>2, <2>5, Zenon
    <3>2. r = [pc |-> "page", conn |-> k]
      BY <2>4
    <3>3. runner' = [runner EXCEPT ![c] = [runner[c] EXCEPT ![i] = r]]
      BY <2>2, <2>4, <3>1, <3>2
    <3> QED BY <2>1, <3>3 DEF RunnerTo
  <2> QED BY <2>1, <2>3, <2>4, Zenon DEF ClientConnect
<1>4. r.conn = k /\ r.pc = IF runner[c][i].pc = "fd" THEN "key" ELSE "page"
  OBVIOUS
<1> HIDE DEF r
<1>5. /\ runner' \in [Clients -> [Runners -> Threads]] /\ runner'[c][i] = r
      /\ \A j \in Runners \ {i} : runner'[c][j] = runner[c][j]
      /\ \A d \in Clients \ {c} : runner'[d] = runner[d]
  BY <1>3, RunnerToIs
<1>6. /\ fd' \in [Clients -> Conns \cup {0}] /\ aesKey' \in [Clients -> Conns \cup {0}]
      /\ \A d \in Clients \ {c} : fd'[d] = fd[d] /\ aesKey'[d] = aesKey[d]
      /\ runner[c][i].pc = "fd" => fd'[c] = k /\ aesKey' = aesKey
      /\ runner[c][i].pc = "key" => fd' = fd /\ aesKey'[c] = k
  BY <1>2 DEF ClientConnect, CInv, ConnInv, TypeOK
<1>7. IInv' /\ TypeOK' /\ DownIsEmpty'
  BY <1>1, <1>5, <1>6 DEF CInv, ConnInv, IInv, TypeOK, DownIsEmpty, Live
<1>8. OwnSockets(c)'
  <2>1. OwnSockets(c)
    BY DEF CInv, ConnInv, SocketsOwned
  <2>2. \A j \in Runners : runner'[c][j].pc = "fd" => j # i /\ runner'[c][j] = runner[c][j]
    BY <1>1, <1>4, <1>5
  <2>3. CASE runner[c][i].pc = "fd"
    BY <1>1, <1>6, <2>1, <2>2, <2>3 DEF OwnSockets
  <2>4. CASE runner[c][i].pc = "key"
    BY <1>1, <1>6, <2>1, <2>2, <2>4 DEF OwnSockets
  <2> QED BY <1>1, <2>3, <2>4
<1>9. ClientOK(c)'
  <2> SUFFICES ASSUME ~overlap[c]
               PROVE  OneAtATime(c)' /\ \A q \in opened'[c] : Live(q)' => Agree(c, q)'
    BY <1>1 DEF ClientOK
  <2>1. /\ Connecting(c, i) /\ page[c] = "connect" /\ call[c] = Idle /\ db[c] = 0
        /\ \A j \in Runners \ {i} : runner[c][j] = NoRunner
    BY <1>1, TheRunner
  <2>2. r # NoRunner
    BY <1>1, <1>4, Constants0
  <2>3. Connecting(c, i)'
    <3>1. CASE runner[c][i].pc = "fd"
      BY <1>1, <1>4, <1>5, <1>6, <2>1, <3>1 DEF Connecting
    <3>2. CASE runner[c][i].pc = "key"
      BY <1>1, <1>4, <1>5, <1>6, <2>1, <3>2 DEF Connecting
    <3> QED BY <1>1, <3>1, <3>2
  <2>4. OneAtATime(c)'
    BY <1>1, <1>5, <2>1, <2>2, <2>3 DEF OneAtATime
  <2>5. ASSUME NEW q \in opened'[c], Live(q)'  PROVE Agree(c, q)'
    <3>1. Agree(c, q)
      BY <1>1, <2>5 DEF CInv, ConnInv, ClientOK, Live
    <3> QED BY <1>1, <2>1, <3>1 DEF Agree, PageAgrees
  <2> QED BY <2>4, <2>5
<1>10. \A d \in Clients \ {c} : \A q \in opened[d] : q \notin opened[c]
  BY DEF CInv, ConnInv, SocketsOwned
<1> QED BY <1>1, <1>5, <1>6, <1>7, <1>8, <1>9, <1>10, ClientFrame

(* connectPage.c, setupRunner: the thread turns the page and ends.           *)
LEMMA SetupRunnerConn ==
    ASSUME CInv, NEW c \in Clients, NEW i \in Runners, SetupRunner(c, i)
    PROVE  CInv'
<1>1. /\ UNCHANGED <<session, request, answer, silent, fd, aesKey, opened, overlap, call, db, label>>
      /\ runner[c][i].pc = "page"
  BY DEF SetupRunner, srvVars, wireVars
<1>2. /\ page' \in [Clients -> Pages] /\ page'[c] = "login"
      /\ \A d \in Clients \ {c} : page'[d] = page[d]
  BY DEF SetupRunner, CInv, ConnInv, TypeOK, Pages
<1>3. RunnerTo(c, i, NoRunner)
  BY DEF SetupRunner, RunnerTo, CInv, ConnInv, TypeOK
<1>4. /\ runner' \in [Clients -> [Runners -> Threads]] /\ runner'[c][i] = NoRunner
      /\ \A j \in Runners \ {i} : runner'[c][j] = runner[c][j]
      /\ \A d \in Clients \ {c} : runner'[d] = runner[d]
  BY <1>3, Constants0, RunnerToIs
<1>5. IInv' /\ TypeOK' /\ DownIsEmpty'
  BY <1>1, <1>2, <1>4 DEF CInv, ConnInv, IInv, TypeOK, DownIsEmpty, Live
<1>6. OwnSockets(c)'
  <2>1. OwnSockets(c) /\ \A j \in Runners : runner'[c][j].pc = "fd" => j # i
    BY <1>4, Constants0 DEF CInv, ConnInv, SocketsOwned
  <2> QED BY <1>1, <1>4, <2>1 DEF OwnSockets
<1>7. ClientOK(c)'
  <2> SUFFICES ASSUME ~overlap[c]
               PROVE  OneAtATime(c)' /\ \A q \in opened'[c] : Live(q)' => Agree(c, q)'
    BY <1>1 DEF ClientOK
  <2>1. /\ Connecting(c, i) /\ page[c] = "connect" /\ call[c] = Idle /\ db[c] = 0
        /\ \A j \in Runners \ {i} : runner[c][j] = NoRunner
    BY <1>1, TheRunner
  <2>2. fd[c] = runner[c][i].conn /\ aesKey[c] = fd[c] /\ opened[c] = {fd[c]} \ {0} /\ fd[c] # 0
    BY <1>1, <2>1 DEF Connecting
  <2>3. \A j \in Runners : runner'[c][j] = NoRunner
    BY <1>4, <2>1
  <2>4. OneAtATime(c)'
    BY <1>1, <1>2, <2>1, <2>2, <2>3 DEF OneAtATime
  <2>5. ASSUME NEW q \in opened'[c], Live(q)'  PROVE Agree(c, q)'
    <3>1. Agree(c, q)
      BY <1>1, <2>5 DEF CInv, ConnInv, ClientOK, Live
    <3> QED BY <1>1, <1>2, <2>1, <3>1 DEF Agree, PageAgrees
  <2> QED BY <2>4, <2>5
<1>8. \A d \in Clients \ {c} : \A q \in opened[d] : q \notin opened[c]
  BY DEF CInv, ConnInv, SocketsOwned
<1> QED BY <1>1, <1>2, <1>4, <1>5, <1>6, <1>7, <1>8, ClientFrame

(* connection.c: closing sockets of its own leaves every other connection    *)
(* as it is, and nothing on the wires of those that are down.                *)
LEMMA CloseConn ==
    ASSUME CInv, NEW c \in Clients, NEW socks \in SUBSET opened[c], CloseSockets(c, socks)
    PROVE  /\ IInv' /\ DownIsEmpty' /\ DOMAIN request' = Conns /\ DOMAIN answer' = Conns
           /\ opened' \in [Clients -> SUBSET Conns] /\ opened'[c] = opened[c] \ socks
           /\ \A d \in Clients \ {c} : opened'[d] = opened[d]
           /\ \A k \in Conns \ socks : /\ session'[k] = session[k] /\ request'[k] = request[k]
                                       /\ answer'[k] = answer[k] /\ (k \in silent' <=> k \in silent)
<1>1. PICK over : over = {k \in socks : Live(k) /\ request[k] = <<>>}
  OBVIOUS
<1>2. /\ opened' = [opened EXCEPT ![c] = opened[c] \ socks]
      /\ session' = [k \in Conns |-> IF k \in over THEN ClosedSession ELSE session[k]]
      /\ answer' = [k \in Conns |-> IF k \in over THEN <<>> ELSE answer[k]]
      /\ silent' = silent \ over
      /\ request' = request
  BY <1>1 DEF CloseSockets
<1>3. /\ opened \in [Clients -> SUBSET Conns] /\ DOMAIN request = Conns
      /\ DownIsEmpty
  BY DEF CInv, ConnInv, TypeOK
<1>4. IInv'
  BY CloseSocketsOK DEF CInv
<1>5. /\ \A k \in Conns \ over : /\ session'[k] = session[k] /\ answer'[k] = answer[k]
                                 /\ (k \in silent' <=> k \in silent)
      /\ \A k \in Conns : k \in over => answer'[k] = <<>> /\ k \notin silent' /\ request[k] = <<>>
  BY <1>1, <1>2
<1>6. DownIsEmpty'
  <2> SUFFICES ASSUME NEW k \in Conns, ~Live(k)'
               PROVE  request'[k] = <<>> /\ answer'[k] = <<>> /\ k \notin silent'
    BY DEF DownIsEmpty
  <2>1. CASE k \in over
    BY <1>2, <1>5, <2>1
  <2>2. CASE k \notin over
    <3>1. ~Live(k)
      BY <1>5, <2>2 DEF Live
    <3> QED BY <1>2, <1>3, <1>5, <2>2, <3>1 DEF DownIsEmpty
  <2> QED BY <2>1, <2>2
<1>7. over \subseteq socks
  BY <1>1
<1> QED BY <1>2, <1>3, <1>4, <1>5, <1>6, <1>7

(* loginReg.c, connection.c, clientDisconnect: back to the first page, with  *)
(* the socket closed, the key wiped and no database open.                    *)
LEMMA ExitBtnConn ==
    ASSUME CInv, NEW c \in Clients, ExitBtn(c)
    PROVE  CInv'
<1>1. /\ UNCHANGED <<runner, overlap, call, label>>
      /\ page[c] \in {"login", "reg"} /\ call[c] = Idle
      /\ ClientDisconnect(c) /\ page' = [page EXCEPT ![c] = "connect"]
  BY DEF ExitBtn
<1>2. PICK socks : socks = {fd[c]} \ {0}
  OBVIOUS
<1>3. SocketsOwned /\ TypeOK /\ OwnSockets(c)
  BY DEF CInv, ConnInv, SocketsOwned
<1>4. socks \in SUBSET opened[c]
  BY <1>2, <1>3 DEF OwnSockets
<1>5. CloseSockets(c, socks)
  BY <1>1, <1>2, Constants0, Zenon DEF ClientDisconnect
<1>6. /\ IInv' /\ DownIsEmpty' /\ DOMAIN request' = Conns /\ DOMAIN answer' = Conns
      /\ opened' \in [Clients -> SUBSET Conns] /\ opened'[c] = opened[c] \ socks
      /\ \A d \in Clients \ {c} : opened'[d] = opened[d]
      /\ \A k \in Conns \ socks : /\ session'[k] = session[k] /\ request'[k] = request[k]
                                  /\ answer'[k] = answer[k] /\ (k \in silent' <=> k \in silent)
  BY <1>4, <1>5, CloseConn
<1>7. /\ fd' \in [Clients -> Conns \cup {0}] /\ aesKey' \in [Clients -> Conns \cup {0}]
      /\ DOMAIN db' = Clients /\ fd'[c] = 0
      /\ fd[c] = 0 => aesKey'[c] = aesKey[c] /\ db'[c] = db[c]
      /\ fd[c] # 0 => aesKey'[c] = 0 /\ db'[c] = 0
      /\ \A d \in Clients \ {c} : fd'[d] = fd[d] /\ aesKey'[d] = aesKey[d] /\ db'[d] = db[d]
  BY <1>1, <1>3 DEF ClientDisconnect, TypeOK
<1>8. /\ page' \in [Clients -> Pages] /\ page'[c] = "connect"
      /\ \A d \in Clients \ {c} : page'[d] = page[d]
  BY <1>1, <1>3 DEF TypeOK, Pages
<1>9. TypeOK'
  BY <1>1, <1>3, <1>6, <1>7, <1>8 DEF TypeOK
<1>10. OwnSockets(c)'
  <2>1. fd'[c] = 0 /\ call'[c] = Idle
    BY <1>1, <1>7
  <2>2. \A i \in Runners : runner'[c][i].pc = "fd" =>
          /\ runner'[c][i].conn \in opened'[c] /\ runner'[c][i].conn # fd'[c]
          /\ \A j \in Runners \ {i} :
               runner'[c][j].pc = "fd" => runner'[c][j].conn # runner'[c][i].conn
    <3>1. \A q \in opened[c] : q # 0
      BY <1>3, Constants0 DEF TypeOK
    <3> QED BY <1>1, <1>2, <1>3, <1>6, <1>7, <3>1 DEF OwnSockets
  <2> QED BY <2>1, <2>2 DEF OwnSockets
<1>11. ClientOK(c)'
  <2> SUFFICES ASSUME ~overlap[c]
               PROVE  OneAtATime(c)' /\ \A q \in opened'[c] : Live(q)' => Agree(c, q)'
    BY <1>1 DEF ClientOK
  <2>1. /\ \A i \in Runners : runner[c][i] = NoRunner
        /\ opened[c] = {fd[c]} /\ fd[c] \in Conns
    BY <1>1, PastConnecting
  <2>2. opened'[c] = {} /\ aesKey'[c] = 0 /\ db'[c] = 0
    BY <1>2, <1>6, <1>7, <2>1, Constants0
  <2> QED BY <1>1, <1>7, <1>8, <2>1, <2>2 DEF OneAtATime
<1>12. \A d \in Clients \ {c} : \A q \in opened[d] : q \in Conns \ socks /\ q \notin opened'[c]
  BY <1>3, <1>4, <1>6 DEF SocketsOwned, TypeOK
<1> QED BY <1>1, <1>6, <1>7, <1>8, <1>9, <1>10, <1>11, <1>12, ClientFrame

(* main.c: the process ends, and with it all of its sockets.                 *)
LEMMA ProcessEndsConn ==
    ASSUME CInv, NEW c \in Clients, ProcessEnds(c)
    PROVE  CInv'
<1>1. PICK socks : socks = opened[c]
  OBVIOUS
<1>2. SocketsOwned /\ TypeOK
  BY DEF CInv, ConnInv
<1>3. socks \in SUBSET opened[c] /\ CloseSockets(c, socks)
  BY <1>1, Zenon DEF ProcessEnds
<1>4. /\ IInv' /\ DownIsEmpty' /\ DOMAIN request' = Conns /\ DOMAIN answer' = Conns
      /\ opened' \in [Clients -> SUBSET Conns] /\ opened'[c] = opened[c] \ socks
      /\ \A d \in Clients \ {c} : opened'[d] = opened[d]
      /\ \A k \in Conns \ socks : /\ session'[k] = session[k] /\ request'[k] = request[k]
                                  /\ answer'[k] = answer[k] /\ (k \in silent' <=> k \in silent)
  BY <1>3, CloseConn
<1>5. PICK none : none = [i \in Runners |-> NoRunner]
  OBVIOUS
<1>6. none \in [Runners -> Threads] /\ \A i \in Runners : none[i] = NoRunner
  BY <1>5, Constants0
<1>7. /\ fd' = [fd EXCEPT ![c] = 0] /\ aesKey' = [aesKey EXCEPT ![c] = 0]
      /\ runner' = [runner EXCEPT ![c] = none] /\ page' = [page EXCEPT ![c] = "connect"]
      /\ call' = [call EXCEPT ![c] = Idle] /\ db' = [db EXCEPT ![c] = 0]
      /\ label' = [label EXCEPT ![c] = NoLabel] /\ overlap' = [overlap EXCEPT ![c] = FALSE]
  BY <1>5 DEF ProcessEnds
<1>8. /\ fd' \in [Clients -> Conns \cup {0}] /\ aesKey' \in [Clients -> Conns \cup {0}]
      /\ runner' \in [Clients -> [Runners -> Threads]] /\ page' \in [Clients -> Pages]
      /\ call' \in [Clients -> Calls] /\ overlap' \in [Clients -> BOOLEAN]
      /\ DOMAIN db' = Clients /\ DOMAIN label' = Clients
  BY <1>2, <1>6, <1>7, Constants0 DEF TypeOK, Pages
<1>9. \A d \in Clients \ {c} :
        /\ fd'[d] = fd[d] /\ aesKey'[d] = aesKey[d] /\ runner'[d] = runner[d]
        /\ overlap'[d] = overlap[d] /\ page'[d] = page[d] /\ call'[d] = call[d]
        /\ db'[d] = db[d] /\ label'[d] = label[d]
  BY <1>2, <1>7 DEF TypeOK
<1>10. /\ fd'[c] = 0 /\ aesKey'[c] = 0 /\ page'[c] = "connect" /\ call'[c] = Idle /\ db'[c] = 0
       /\ opened'[c] = {} /\ \A i \in Runners : runner'[c][i] = NoRunner
  BY <1>1, <1>2, <1>4, <1>6, <1>7 DEF TypeOK
<1>11. TypeOK'
  BY <1>4, <1>8 DEF TypeOK
<1>12. OwnSockets(c)'
  BY <1>10, Constants0 DEF OwnSockets
<1>13. ClientOK(c)'
  BY <1>10 DEF ClientOK, OneAtATime
<1>14. \A d \in Clients \ {c} : \A q \in opened[d] : q \in Conns \ socks /\ q \notin opened'[c]
  BY <1>1, <1>2, <1>10 DEF SocketsOwned, TypeOK
<1> QED BY <1>4, <1>9, <1>11, <1>12, <1>13, <1>14, ClientFrame

-----------------------------------------------------------------------------
(* What the pages promise *)

LEMMA ConnInit == Init => CInv
<1> SUFFICES ASSUME Init  PROVE CInv
  OBVIOUS
<1>1. IInv
  BY NobodyIsGuarded DEF Init, IInv
<1>2. \A c \in Clients :
        /\ fd[c] = 0 /\ aesKey[c] = 0 /\ opened[c] = {} /\ page[c] = "connect" /\ call[c] = Idle
        /\ db[c] = 0 /\ \A i \in Runners : runner[c][i] = NoRunner
  BY DEF Init, NoRunner
<1>3. TypeOK
  <2>1. runner \in [Clients -> [Runners -> Threads]]
    BY DEF Init, Threads
  <2> QED BY <2>1, Constants0 DEF Init, TypeOK, Pages
<1>4. DownIsEmpty
  BY DEF Init, DownIsEmpty
<1>5. SocketsOwned
  BY <1>2, Constants0 DEF SocketsOwned, OwnSockets
<1>6. \A c \in Clients : ClientOK(c)
  BY <1>2 DEF ClientOK, OneAtATime
<1> QED BY <1>1, <1>3, <1>4, <1>5, <1>6 DEF CInv, ConnInv

(* The inductive invariant of the connections: every socket belongs to one   *)
(* process, and where a client connects one at a time the page, the wait,    *)
(* the wires and the session of the server agree (connection.c, auth.c).     *)
THEOREM ConnInvariant == Spec => [](IInv /\ ConnInv)
<1>1. Init => CInv
  BY ConnInit
<1>2. CInv /\ [Next]_vars => CInv'
  <2>1. ASSUME CInv, NEW k \in Conns, ServerStep(k)  PROVE CInv'
    BY <2>1, ServerStepConn
  <2>2. ASSUME CInv, NEW c \in Clients, Click(c)  PROVE CInv'
    BY <2>2, ConnectButtonConn, ExitBtnConn, PageClicksConn DEF Click
  <2>3. ASSUME CInv, NEW c \in Clients, NEW i \in Runners, RunnerStep(c, i)  PROVE CInv'
    BY <2>3, ExchangeAESKeyConn, ClientConnectConn, SetupRunnerConn DEF RunnerStep
  <2>4. ASSUME CInv, UNCHANGED vars  PROVE CInv'
    <3>1. UNCHANGED <<session, request, answer, silent, fd, aesKey, opened, runner, overlap,
                      page, call, db, label>>
      BY <2>4 DEF vars, srvVars, wireVars, connVars, pageVars
    <3>2. IInv' /\ TypeOK' /\ DownIsEmpty' /\ SocketsOwned'
      BY <2>4, <3>1 DEF CInv, ConnInv, IInv, TypeOK, DownIsEmpty, Live, SocketsOwned, OwnSockets
    <3>3. ASSUME NEW c \in Clients  PROVE ClientOK(c)'
      BY <2>4, <3>1 DEF CInv, ConnInv, ClientOK, OneAtATime, Connecting, Agree, PageAgrees,
                        WaitAgrees, AnswerAgrees, Live
    <3> QED BY <3>2, <3>3 DEF CInv, ConnInv
  <2> QED BY <2>1, <2>2, <2>3, <2>4, AnsweredConn, ProcessEndsConn DEF Next
<1> QED BY <1>1, <1>2, PTL DEF Spec, CInv

(* Back on the first page a client has no socket, no key and no database;    *)
(* otherwise it has one socket, and the key of that socket                   *)
(* (connection.c, clientConnect and clientDisconnect).                       *)
THEOREM OneConnectionCorrect == Spec => []OneConnection
<1>1. IInv /\ ConnInv => OneConnection
  BY DEF ConnInv, ClientOK, OneAtATime, OneConnection
<1> QED BY ConnInvariant, <1>1, PTL

(* A request that is waited for is under way or answered, and never twice:   *)
(* only a key that the server cannot read leaves the client waiting          *)
(* (connection.c, sendAndWait; server/auth.c, serverHandleDBKeyReq).         *)
THEOREM OneAnswerEachCorrect == Spec => []OneAnswerEach
<1>1. IInv /\ ConnInv => OneAnswerEach
  <2> SUFFICES ASSUME CInv, NEW c \in Clients, call[c] # Idle, ~overlap[c], Live(fd[c])
               PROVE  IF fd[c] \in silent THEN request[fd[c]] = <<>> /\ answer[fd[c]] = <<>>
                      ELSE Len(request[fd[c]]) + Len(answer[fd[c]]) = 1
    BY DEF CInv, OneAnswerEach
  <2>1. page[c] # "connect"
    BY DEF CInv, ConnInv, ClientOK, OneAtATime
  <2>2. WaitAgrees(c, fd[c])
    BY <2>1, PastConnecting DEF Agree
  <2> HIDE DEF CInv
  <2>3. \/ fd[c] \in silent /\ request[fd[c]] = <<>> /\ answer[fd[c]] = <<>>
        \/ fd[c] \notin silent /\ answer[fd[c]] = <<>> /\ request[fd[c]] = <<Head(request[fd[c]])>>
        \/ fd[c] \notin silent /\ request[fd[c]] = <<>> /\ answer[fd[c]] = <<Head(answer[fd[c]])>>
    BY <2>2 DEF WaitAgrees
  <2>4. Len(<<>>) = 0 /\ \A m : Len(<<m>>) = 1
    OBVIOUS
  <2>5. CASE fd[c] \notin silent
    <3>1. \/ Len(request[fd[c]]) = 1 /\ Len(answer[fd[c]]) = 0
          \/ Len(request[fd[c]]) = 0 /\ Len(answer[fd[c]]) = 1
      BY <2>3, <2>4, <2>5, Zenon
    <3>2. 1 + 0 = 1 /\ 0 + 1 = 1
      OBVIOUS
    <3>3. Len(request[fd[c]]) + Len(answer[fd[c]]) = 1
      BY <3>1, <3>2, Zenon
    <3> QED BY <2>5, <3>3
  <2> QED BY <2>3, <2>5
<1> QED BY ConnInvariant, <1>1, PTL

(* The home page of a client that connected once is that of the user whom    *)
(* the server has past the login on this very connection                     *)
(* (client/auth.c, clientLogin and clientTOTPVerify).                        *)
THEOREM HomeIsServedCorrect == Spec => []HomeIsServed
<1>1. IInv /\ ConnInv => HomeIsServed
  <2> SUFFICES ASSUME CInv, NEW c \in Clients, page[c] = "home", Live(fd[c]), ~overlap[c]
               PROVE  /\ session[fd[c]].state = "Room"
                      /\ label[c] = [user |-> session[fd[c]].name, nick |-> session[fd[c]].name]
    BY DEF CInv, HomeIsServed
  <2>1. Agree(c, fd[c])
    BY PastConnecting
  <2> QED BY <2>1 DEF Agree, PageAgrees
<1> QED BY ConnInvariant, <1>1, PTL
=============================================================================
