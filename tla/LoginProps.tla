---------------------------- MODULE LoginProps ----------------------------
(* What logging in promises, over any interleaving of clients, their       *)
(* connecting threads, the server, broken connections and failures.        *)
EXTENDS Login

States == {"Free", "Closed", "Login", "TOTPVerify", "Room"}
Types == {"LoginReq", "RegisterReq", "TOTPSetupReq", "TOTPVerifyResp", "DBKeyReq",
          "LoginResp", "RegisterResp", "TOTPSetupResp", "TOTPVerifyReq", "DBKeyResp"}

(* A session of the server is past the login only if the code of the       *)
(* secret that was stored when the password was accepted, or that was set  *)
(* up since, has been given over it.                                       *)
SecondFactorHolds ==
    \A k \in Conns : session[k].state = "Room" => session[k].gave = session[k].need

(* On the home page of a client that was clicked through one connection,   *)
(* the server has the session past the login, under the name and nickname  *)
(* the page shows.                                                         *)
HomeIsServed ==
    \A c \in Clients :
        page[c] = "home" /\ Live(fd[c]) /\ ~overlap[c] =>
            /\ session[fd[c]].state = "Room"
            /\ label[c] = [user |-> session[fd[c]].name, nick |-> session[fd[c]].name]

(* A client without overlapping connects has one socket open at most, and  *)
(* the key of that socket; back on the first page it has none and no       *)
(* database: the sessions of the server are left to nobody.                *)
OneConnection ==
    \A c \in Clients :
        ~overlap[c] /\ (\A i \in Runners : runner[c][i] = NoRunner) =>
            /\ aesKey[c] = fd[c] /\ opened[c] = {fd[c]} \ {0}
            /\ page[c] = "connect" => fd[c] = 0 /\ db[c] = 0

(* A request that is waited for is under way, or its answer is, or the     *)
(* connection is down; the exception is a key the server could not read.   *)
OneAnswerEach ==
    \A c \in Clients :
        call[c] # Idle /\ ~overlap[c] /\ Live(fd[c]) =>
            IF fd[c] \in silent THEN request[fd[c]] = <<>> /\ answer[fd[c]] = <<>>
            ELSE Len(request[fd[c]]) + Len(answer[fd[c]]) = 1

-----------------------------------------------------------------------------
(***************************************************************************)
(* The inductive invariant of the three: who owns which socket, and how    *)
(* far the page, the request that is waited for, the wires and the session *)
(* of the server have come together.                                       *)
(***************************************************************************)
Pages == {"connect", "login", "reg", "recommend", "setup", "verify", "home"}
Calls == [at : {"idle", "login", "loginKey", "register", "setup", "verify", "verifyKey"},
          name : Names \cup {NoName}, conn : Conns \cup {0}]
Threads == [pc : {"none", "connect", "fd", "key", "page"}, conn : Conns \cup {0}]

TypeOK ==
    /\ DOMAIN request = Conns /\ DOMAIN answer = Conns
    /\ fd \in [Clients -> Conns \cup {0}] /\ aesKey \in [Clients -> Conns \cup {0}]
    /\ opened \in [Clients -> SUBSET Conns]
    /\ runner \in [Clients -> [Runners -> Threads]]
    /\ page \in [Clients -> Pages] /\ call \in [Clients -> Calls]
    /\ DOMAIN db = Clients /\ DOMAIN label = Clients
    /\ overlap \in [Clients -> BOOLEAN]

(* server.c:497: nothing is left of a connection that is down.             *)
DownIsEmpty ==
    \A k \in Conns : ~Live(k) => request[k] = <<>> /\ answer[k] = <<>> /\ k \notin silent

(* connection.c: a socket belongs to one process, and the one in Client.fd *)
(* and the one that is waited on are its own.                              *)
OwnSockets(c) ==
    /\ fd[c] # 0 => fd[c] \in opened[c]
    /\ call[c] # Idle => call[c].conn \in opened[c]
    /\ \A i \in Runners : runner[c][i].pc = "fd" =>
         /\ runner[c][i].conn \in opened[c] /\ runner[c][i].conn # fd[c]
         /\ \A j \in Runners \ {i} :
              runner[c][j].pc = "fd" => runner[c][j].conn # runner[c][i].conn

SocketsOwned ==
    /\ \A c, d \in Clients : c # d => opened[c] \cap opened[d] = {}
    /\ \A c \in Clients : OwnSockets(c)

(* How far a connecting thread is.                                         *)
Connecting(c, i) ==
    LET pc == runner[c][i].pc
        k  == runner[c][i].conn
    IN  /\ pc # "none" /\ page[c] = "connect"
        /\ k = 0 <=> pc = "connect"
        /\ opened[c] = {k} \ {0}
        /\ fd[c] = IF pc \in {"key", "page"} THEN k ELSE 0
        /\ aesKey[c] = IF pc = "page" THEN k ELSE 0

(* A client of which one thread connects at a time.                        *)
OneAtATime(c) ==
    /\ \A i, j \in Runners : runner[c][i] # NoRunner /\ runner[c][j] # NoRunner => i = j
    /\ \A i \in Runners : runner[c][i] # NoRunner => Connecting(c, i)
    /\ (\A i \in Runners : runner[c][i] = NoRunner) =>
          /\ aesKey[c] = fd[c] /\ opened[c] = {fd[c]} \ {0}
          /\ page[c] = "connect" <=> fd[c] = 0
    /\ page[c] = "connect" => db[c] = 0 /\ call[c] = Idle
    /\ call[c] # Idle => call[c].conn = fd[c]

(* The request and the answer of each kind of wait.                        *)
RequestOf(at) ==
    CASE at = "login" -> "LoginReq" [] at = "register" -> "RegisterReq"
      [] at = "setup" -> "TOTPSetupReq" [] at = "verify" -> "TOTPVerifyResp"
      [] OTHER -> "DBKeyReq"

PageOf(at) ==
    CASE at \in {"login", "loginKey"} -> "login" [] at = "register" -> "reg"
      [] at = "setup" -> "setup" [] OTHER -> "verify"

(* What the page says of the session.                                      *)
PageAgrees(c, k) ==
    /\ page[c] \in {"recommend", "home"} =>
         /\ session[k].state = "Room"
         /\ label[c] = [user |-> session[k].name, nick |-> session[k].name]
    /\ page[c] \in {"setup", "verify"} => label[c].user = session[k].name

(* What the answer says of the session.                                    *)
AnswerAgrees(c, k, m) ==
    /\ call[c].at = "login" /\ (m.type = "LoginResp" => m.name # NoName) =>
         /\ session[k].name = call[c].name
         /\ m.type = "LoginResp" => session[k].state = "Room"
    /\ call[c].at = "verify" /\ m.name # NoName =>
         session[k].state = "Room" /\ m.name = session[k].name

WaitAgrees(c, k) ==
    /\ call[c].at # "idle" /\ page[c] = PageOf(call[c].at)
    /\ call[c].at \in {"login", "loginKey"} => call[c].name # NoName
    /\ call[c].at \in {"verify", "verifyKey"} => call[c].name = NoName
    /\ call[c].at \in {"loginKey", "verifyKey"} => session[k].state = "Room"
    /\ call[c].at = "loginKey" => session[k].name = call[c].name
    /\ \/ k \in silent /\ request[k] = <<>> /\ answer[k] = <<>>
       \/ /\ k \notin silent /\ answer[k] = <<>>
          /\ request[k] # <<>> /\ request[k] = <<Head(request[k])>>
          /\ Head(request[k]).type = RequestOf(call[c].at)
          /\ call[c].at = "login" => Head(request[k]).name = call[c].name
       \/ /\ k \notin silent /\ request[k] = <<>>
          /\ answer[k] # <<>> /\ answer[k] = <<Head(answer[k])>>
          /\ AnswerAgrees(c, k, Head(answer[k]))

Agree(c, k) ==
    /\ PageAgrees(c, k)
    /\ IF call[c] = Idle THEN request[k] = <<>> /\ answer[k] = <<>> /\ k \notin silent
       ELSE WaitAgrees(c, k)

ClientOK(c) == ~overlap[c] => OneAtATime(c) /\ \A k \in opened[c] : Live(k) => Agree(c, k)

ConnInv == TypeOK /\ DownIsEmpty /\ SocketsOwned /\ \A c \in Clients : ClientOK(c)
=============================================================================
