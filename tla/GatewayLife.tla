------------------------------ MODULE GatewayLife ------------------------------
(***************************************************************************)
(* How gateway processes come and go: main.run with its discovery files    *)
(* (db-gateway/main.go, serve.go), and the client's Gateway object, which  *)
(* finds one, spawns one and stops the one it spawned (cli/yamlq/          *)
(* gateway.py: start, _spawn_gateway, serve and stop).                     *)
(*                                                                         *)
(* A process spawned by a client bears the client's name.  In a process    *)
(* the shutdown sequence can run several times at once: on the main        *)
(* goroutine after a signal, and on those that POST /shutdown starts.      *)
(* What the manager does in between (StopReaper, CloseAll) is              *)
(* ConnManager's subject.                                                  *)
(***************************************************************************)
EXTENDS Naturals, Sequences

CONSTANTS
    Resident,   \* gateways started by "yamlq serve"
    Client,     \* client runs
    Daemon,     \* clients run with YAMLQ_GATEWAY_DAEMON=1
    File,       \* places of discovery files
    Cwd,        \* the discovery file of the working directory of each process
    Home,       \* the one in the home directory
    EnvURL,     \* the gateways YAMLQ_GATEWAY_URL may name
    Token,      \* the token given on the command line, or NoToken
    NoToken,
    Hook,       \* goroutines POST /shutdown may start in a process
    None,       \* no file, no process
    Empty       \* a file opened for writing, not written yet

Proc == Resident \cup Client

ASSUME LifeAssumption ==
    /\ Resident \cap Client = {}
    /\ Daemon \subseteq Client
    /\ Cwd \in [Proc -> File] /\ Home \in File
    /\ EnvURL \in [Client -> SUBSET (Resident \cup Daemon)]
    /\ DOMAIN Token = Proc
    /\ "main" \notin Hook
    /\ {None, Empty} \cap Proc = {} /\ None # Empty

VARIABLES
    file,       \* whose URL a discovery file holds
    \* processes
    state,      \* off, starting, up, or how it ended: exited, killed, or
                \* failed before it printed its port
    accepting,  \* the listener is open
    pc,         \* where the goroutine main and those of Hook are
    todo,       \* files writeEnvFile still has to write
    opened,     \* the first of them is opened and truncated
    written,    \* envFilesWritten
    rem,        \* files a goroutine in cleanupEnvFile still has to remove
    kept,       \* files os.Remove could not remove
    token,      \* Server.authToken
    \* clients
    at,         \* where the run is
    look,       \* discovery files it still has to look at
    target,     \* the gateway it found, Gateway._base_url once its token is checked
    owned,      \* Gateway._owned
    auth,       \* Gateway._auth_token
    session     \* the X-Auth-Token header of its session

procVars == <<state, accepting, pc, todo, opened, written, rem, kept, token>>
clientVars == <<at, look, target, owned, auth, session>>
vars == <<file, procVars, clientVars>>

Routine == {"main"} \cup Hook
Dead == {"exited", "failed", "killed"}
Idle == [r \in Routine |-> "off"]
Nothing == [r \in Routine |-> <<>>]

Init ==
    /\ file = [f \in File |-> None]
    /\ state = [p \in Proc |-> IF p \in Resident THEN "starting" ELSE "off"]
    /\ accepting = [p \in Proc |-> FALSE]
    /\ pc = [p \in Proc |-> Idle]
    /\ todo = [p \in Proc |-> <<>>]
    /\ opened = [p \in Proc |-> FALSE]
    /\ written = [p \in Proc |-> <<>>]
    /\ rem = [p \in Proc |-> Nothing]
    /\ kept = [p \in Proc |-> {}]
    /\ token = [p \in Proc |-> IF p \in Resident THEN Token[p] ELSE NoToken]
    /\ at = [c \in Client |-> "start"]
    /\ look = [c \in Client |-> <<>>]
    /\ target = [c \in Client |-> None]
    /\ owned = [c \in Client |-> TRUE]
    /\ auth = [c \in Client |-> Token[c]]
    /\ session = [c \in Client |-> Token[c]]

-------------------------------------------------------------------------------
(* A gateway process: main.run up to the wait for a signal *)

Up(p) == state[p] = "up"

\* The run function of a process is over, with whatever it was doing.
Ends(p, how) ==
    /\ state' = [state EXCEPT ![p] = how]
    /\ accepting' = [accepting EXCEPT ![p] = FALSE]
    /\ pc' = [pc EXCEPT ![p] = Idle]
    /\ todo' = [todo EXCEPT ![p] = <<>>]
    /\ opened' = [opened EXCEPT ![p] = FALSE]
    /\ written' = [written EXCEPT ![p] = <<>>]
    /\ rem' = [rem EXCEPT ![p] = Nothing]
    /\ UNCHANGED <<kept, token>>

\* "serve" writes discovery files, a gateway spawned for one run does not.
WritesEnv(p) == p \in Resident \cup Daemon

\* net.Listen, and the line with the port that clients wait for.
Listen(p) ==
    /\ state[p] = "starting"
    /\ state' = [state EXCEPT ![p] = "up"]
    /\ accepting' = [accepting EXCEPT ![p] = TRUE]
    /\ pc' = [pc EXCEPT ![p]["main"] = "write"]
    /\ todo' = [todo EXCEPT ![p] = IF WritesEnv(p) THEN <<Cwd[p], Home>> ELSE <<>>]
    /\ UNCHANGED <<file, opened, written, rem, kept, token, clientVars>>

\* The port is taken: log.Fatalf.
ListenFails(p) ==
    /\ state[p] = "starting"
    /\ Ends(p, "failed")
    /\ UNCHANGED <<file, clientVars>>

\* os.WriteFile opens and truncates the file ...
OpenFile(p) ==
    /\ Up(p) /\ todo[p] # <<>> /\ ~opened[p]
    /\ file' = [file EXCEPT ![Head(todo[p])] = Empty]
    /\ opened' = [opened EXCEPT ![p] = TRUE]
    /\ UNCHANGED <<state, accepting, pc, todo, written, rem, kept, token, clientVars>>

\* ... and writes it, to no effect on the directory if it was removed meanwhile.
FillFile(p) ==
    LET f == Head(todo[p]) IN
    /\ Up(p) /\ opened[p]
    /\ file' = IF file[f] = None THEN file ELSE [file EXCEPT ![f] = p]
    /\ written' = [written EXCEPT ![p] = Append(@, f)]
    /\ todo' = [todo EXCEPT ![p] = Tail(@)]
    /\ opened' = [opened EXCEPT ![p] = FALSE]
    /\ UNCHANGED <<state, accepting, pc, rem, kept, token, clientVars>>

\* Either of the two may fail: the file is not recorded.
WriteFails(p) ==
    /\ Up(p) /\ todo[p] # <<>>
    /\ todo' = [todo EXCEPT ![p] = Tail(@)]
    /\ opened' = [opened EXCEPT ![p] = FALSE]
    /\ UNCHANGED <<file, state, accepting, pc, written, rem, kept, token, clientVars>>

\* srv.SetShutdownFunc: a POST /shutdown served earlier is ignored.
SetShutdownFunc(p) ==
    /\ Up(p) /\ pc[p]["main"] = "write" /\ todo[p] = <<>>
    /\ pc' = [pc EXCEPT ![p]["main"] = "notify"]
    /\ UNCHANGED <<file, state, accepting, todo, opened, written, rem, kept, token, clientVars>>

HookSet(p) == Up(p) /\ pc[p]["main"] \notin {"off", "write"}

\* signal.Notify: until then a signal kills the process.
Notify(p) ==
    /\ Up(p) /\ pc[p]["main"] = "notify"
    /\ pc' = [pc EXCEPT ![p]["main"] = "wait"]
    /\ UNCHANGED <<file, state, accepting, todo, opened, written, rem, kept, token, clientVars>>

-------------------------------------------------------------------------------
(* A gateway process: the shutdown sequence *)

\* Mutant: the list is cleared before the files are removed.
BeginCleanupCleared(p, r) ==
    /\ pc' = [pc EXCEPT ![p][r] = "clean"]
    /\ rem' = [rem EXCEPT ![p][r] = written[p]]
    /\ written' = [written EXCEPT ![p] = <<>>]

\* Mutant: cleanupEnvFile comes last, after the wait for the requests.
BeginCleanupLast(p, r) ==
    /\ pc' = [pc EXCEPT ![p][r] = "drain"]
    /\ UNCHANGED <<rem, written>>

\* A goroutine enters cleanupEnvFile and ranges over envFilesWritten.
BeginCleanup(p, r) ==
    /\ pc' = [pc EXCEPT ![p][r] = "clean"]
    /\ rem' = [rem EXCEPT ![p][r] = written[p]]
    /\ UNCHANGED written

\* os.Remove, whose error nobody looks at.
RemoveFile(p, r) ==
    LET f == Head(rem[p][r]) IN
    /\ Up(p) /\ pc[p][r] = "clean" /\ rem[p][r] # <<>>
    /\ \/ file' = [file EXCEPT ![f] = None] /\ UNCHANGED kept
       \/ kept' = [kept EXCEPT ![p] = @ \cup {f}] /\ UNCHANGED file
    /\ rem' = [rem EXCEPT ![p][r] = Tail(@)]
    /\ UNCHANGED <<state, accepting, pc, todo, opened, written, token, clientVars>>

\* envFilesWritten = nil, then the pools and the listener are closed.
CloseServer(p, r) ==
    /\ Up(p) /\ pc[p][r] = "clean" /\ rem[p][r] = <<>>
    /\ written' = [written EXCEPT ![p] = <<>>]
    /\ accepting' = [accepting EXCEPT ![p] = FALSE]
    /\ pc' = [pc EXCEPT ![p][r] = "drain"]
    /\ UNCHANGED <<file, state, todo, opened, rem, kept, token, clientVars>>

\* httpServer.Shutdown returns when no request is left, which may be never: then
\* os.Exit, or main returns.
Drained(p, r) ==
    /\ Up(p) /\ pc[p][r] = "drain"
    /\ Ends(p, "exited")
    /\ UNCHANGED <<file, clientVars>>

\* What SIGINT or SIGTERM does to a process.
Interrupted(p) ==
    LET waiting == Up(p) /\ pc[p]["main"] = "wait"
        early == state[p] = "starting" \/ (Up(p) /\ pc[p]["main"] \in {"write", "notify"})
    IN
    \/ waiting /\ BeginCleanup(p, "main")
         /\ UNCHANGED <<state, accepting, todo, opened, kept, token>>
    \/ early /\ Ends(p, IF Up(p) THEN "killed" ELSE "failed")
    \/ ~waiting /\ ~early /\ UNCHANGED procVars

Signal(p) ==
    /\ p \in Resident \cup Daemon
    /\ Interrupted(p)
    /\ UNCHANGED <<file, clientVars>>

\* kill -9, a crash, log.Fatalf in the server, or the five seconds of serve.
KillGateway(p) ==
    /\ Up(p)
    /\ Ends(p, "killed")
    /\ UNCHANGED <<file, clientVars>>

\* handleShutdown, when the shutdown function is set: a new goroutine runs it.
Shutdown(p) ==
    IF accepting[p] /\ HookSet(p)
    THEN \E r \in Hook :
            /\ pc[p][r] = "off"
            /\ BeginCleanup(p, r)
            /\ UNCHANGED <<state, accepting, todo, opened, kept, token>>
    ELSE UNCHANGED procVars

\* Whoever uses the API may post /shutdown to a resident gateway.
ApiShutdown(p) ==
    /\ p \in Resident \cup Daemon
    /\ Shutdown(p)
    /\ UNCHANGED <<file, clientVars>>

-------------------------------------------------------------------------------
(* A client: Gateway.start *)

\* A step that only moves the client.
Moves(c, place) ==
    /\ at' = [at EXCEPT ![c] = place]
    /\ UNCHANGED <<file, procVars, target, owned, auth, session>>

\* _find_existing_gateway: the environment variable comes first, if somebody
\* has set it to the address of a gateway that came up.
Begin(c) ==
    /\ at[c] = "start"
    /\ \/ \E p \in EnvURL[c] :
              /\ state[p] \notin {"off", "starting", "failed"}
              /\ at' = [at EXCEPT ![c] = "found"]
              /\ target' = [target EXCEPT ![c] = p]
              /\ UNCHANGED look
       \/ /\ at' = [at EXCEPT ![c] = "look"]
          /\ look' = [look EXCEPT ![c] = <<Cwd[c], Home>>]
          /\ UNCHANGED target
    /\ UNCHANGED <<file, procVars, owned, auth, session>>

\* env_file.exists()
LookAtFile(c) ==
    /\ at[c] = "look" /\ look[c] # <<>>
    /\ IF file[Head(look[c])] = None
       THEN look' = [look EXCEPT ![c] = Tail(@)] /\ Moves(c, "look")
       ELSE Moves(c, "read") /\ UNCHANGED look

NoFileFound(c) ==
    /\ at[c] = "look" /\ look[c] = <<>>
    /\ Moves(c, "spawn")
    /\ UNCHANGED look

\* Mutant: a file that exists is taken to name a gateway.
ReadFileUnchecked(c) ==
    /\ at[c] = "read"
    /\ look' = [look EXCEPT ![c] = <<>>]
    /\ at' = [at EXCEPT ![c] = "found"]
    /\ target' = [target EXCEPT ![c] = file[Head(look[c])]]
    /\ UNCHANGED <<file, procVars, owned, auth, session>>

\* env_file.read_text(): the file that was there may be gone, which nothing
\* catches, or not written yet, and then the other file is not looked at.
ReadFile(c) ==
    LET found == file[Head(look[c])] IN
    /\ at[c] = "read"
    /\ look' = [look EXCEPT ![c] = <<>>]
    /\ \/ found = None /\ Moves(c, "failed")
       \/ found = Empty /\ Moves(c, "spawn")
       \/ /\ found \in Proc
          /\ at' = [at EXCEPT ![c] = "found"]
          /\ target' = [target EXCEPT ![c] = found]
          /\ UNCHANGED <<file, procVars, owned, auth, session>>

\* Mutant: the token found is kept, but the session does not get it.
AdoptTokenUnsent(c, t) ==
    /\ auth' = [auth EXCEPT ![c] = t]
    /\ UNCHANGED session

AdoptToken(c, t) ==
    /\ auth' = [auth EXCEPT ![c] = t]
    /\ session' = IF t = NoToken THEN session ELSE [session EXCEPT ![c] = t]

\* The tokens are compared and the one found is taken over, before the ping.
CheckToken(c) ==
    LET t == token[target[c]] IN
    /\ at[c] = "found"
    /\ IF auth[c] # NoToken /\ auth[c] # t
       THEN at' = [at EXCEPT ![c] = "failed"] /\ UNCHANGED <<auth, session>>
            /\ UNCHANGED owned
       ELSE at' = [at EXCEPT ![c] = "ping"] /\ AdoptToken(c, t)
            /\ owned' = [owned EXCEPT ![c] = FALSE]
    /\ UNCHANGED <<file, procVars, look, target>>

Authorised(c, p) == token[p] = NoToken \/ session[c] = token[p]

\* GET /ping is answered: attached.
PingOk(c) ==
    /\ at[c] = "ping"
    /\ accepting[target[c]] /\ Authorised(c, target[c])
    /\ Moves(c, "use")
    /\ UNCHANGED look

\* It is not, or not in two seconds.
PingFails(c) ==
    /\ at[c] = "ping"
    /\ at' = [at EXCEPT ![c] = "spawn"]
    /\ owned' = [owned EXCEPT ![c] = TRUE]
    /\ UNCHANGED <<file, procVars, look, target, auth, session>>

\* _spawn_gateway, with the token the client has by now; _base_url stays as it is.
Spawn(c) ==
    /\ at[c] = "spawn"
    /\ state' = [state EXCEPT ![c] = "starting"]
    /\ token' = [token EXCEPT ![c] = auth[c]]
    /\ owned' = [owned EXCEPT ![c] = c \notin Daemon]
    /\ at' = [at EXCEPT ![c] = "await"]
    /\ UNCHANGED <<file, accepting, pc, todo, opened, written, rem, kept,
                   look, target, auth, session>>

\* _find_binary finds none.
NoBinary(c) ==
    /\ at[c] = "spawn"
    /\ Moves(c, "failed")
    /\ UNCHANGED look

\* Mutant: stop does not ask is_owned.
LeaveUnowned(c) ==
    IF state[c] = "off" THEN "gone" ELSE IF at[c] = "await" THEN "abort" ELSE "stop"

\* A client leaves: atexit calls stop, which only cares for a gateway it owns.  It
\* is "abort" for a client that has not read the port of its gateway.
Leave(c) ==
    IF ~owned[c] \/ state[c] = "off" THEN "gone" ELSE IF at[c] = "await" THEN "abort" ELSE "stop"

\* The first line of the gateway's output has the port that makes _base_url; or the
\* output ends.
Await(c) ==
    /\ at[c] = "await"
    /\ state[c] # "starting"
    /\ IF state[c] = "failed"
       THEN Moves(c, Leave(c))
       ELSE /\ at' = [at EXCEPT ![c] = "use"]
            /\ target' = [target EXCEPT ![c] = c]
            /\ UNCHANGED <<file, procVars, owned, auth, session>>
    /\ UNCHANGED look

-------------------------------------------------------------------------------
(* A client: the end of a run, Gateway.stop *)

Finish(c) ==
    /\ at[c] = "use"
    /\ Moves(c, Leave(c))
    /\ UNCHANGED look

\* POST /shutdown to _base_url, which names another gateway, or none, while the
\* client has not read the port of its own; no answer in three seconds is as good
\* as one.
Stop(c) ==
    LET p == target[c] IN
    /\ at[c] \in {"stop", "abort"}
    /\ at' = [at EXCEPT ![c] = "reap"]
    /\ (p # None /\ Authorised(c, p) /\ Shutdown(p)) \/ UNCHANGED procVars
    /\ UNCHANGED <<file, look, target, owned, auth, session>>

\* self._proc.wait(timeout=5)
Reap(c) ==
    /\ at[c] = "reap"
    /\ state[c] \in Dead
    /\ Moves(c, "gone")
    /\ UNCHANGED look

\* Mutant: the process is waited for, not killed.
KillSpawnedNever(c) ==
    /\ at[c] = "reap" /\ state[c] \notin Dead
    /\ at' = [at EXCEPT ![c] = "gone"]
    /\ UNCHANGED <<file, procVars, look, target, owned, auth, session>>

\* except subprocess.TimeoutExpired: self._proc.kill()
KillSpawned(c) ==
    /\ at[c] = "reap" /\ state[c] \notin Dead
    /\ Ends(c, "killed")
    /\ at' = [at EXCEPT ![c] = "gone"]
    /\ UNCHANGED <<file, look, target, owned, auth, session>>

\* Ctrl+C in the terminal of a client reaches the gateway it spawned, too.  In stop
\* the KeyboardInterrupt is no Exception: nothing is waited for or killed then.
CtrlC(c) ==
    /\ at[c] \notin {"start", "gone", "failed", "crashed"}
    /\ at' = [at EXCEPT ![c] = IF @ \in {"stop", "abort", "reap"} THEN "crashed" ELSE Leave(c)]
    /\ Interrupted(c)
    /\ UNCHANGED <<file, look, target, owned, auth, session>>

\* A client that is killed runs no atexit functions.
CrashClient(c) ==
    /\ at[c] \notin {"start", "gone", "failed", "crashed"}
    /\ Moves(c, "crashed")
    /\ UNCHANGED look

-------------------------------------------------------------------------------
Startup(p) ==
    \/ Listen(p) \/ ListenFails(p)
    \/ OpenFile(p) \/ FillFile(p) \/ WriteFails(p)
    \/ SetShutdownFunc(p) \/ Notify(p)

Cleanup(p, r) == RemoveFile(p, r) \/ CloseServer(p, r)

ClientStep(c) ==
    \/ Begin(c)
    \/ LookAtFile(c) \/ NoFileFound(c) \/ ReadFile(c)
    \/ CheckToken(c) \/ PingOk(c) \/ PingFails(c)
    \/ Spawn(c) \/ NoBinary(c) \/ Await(c)
    \/ Finish(c) \/ Stop(c) \/ Reap(c) \/ KillSpawned(c)

Next ==
    \/ \E p \in Proc : Startup(p) \/ KillGateway(p) \/ Signal(p) \/ ApiShutdown(p)
    \/ \E p \in Proc, r \in Routine : Cleanup(p, r) \/ Drained(p, r)
    \/ \E c \in Client : ClientStep(c) \/ CtrlC(c) \/ CrashClient(c)

Spec == Init /\ [][Next]_vars

\* Goroutines run and clients go on.  The end of a run is not owed, and neither
\* is Drained: httpServer.Shutdown has no deadline.
FairSpec ==
    /\ Spec
    /\ \A p \in Proc, r \in Routine : WF_vars(Cleanup(p, r))
    /\ \A p \in Proc : WF_vars(Startup(p))
    /\ \A c \in Client : WF_vars(ClientStep(c) /\ at[c] # "use")

-------------------------------------------------------------------------------

Tokens == {NoToken} \cup {Token[q] : q \in Proc}

Place == {"start", "look", "read", "found", "ping", "spawn", "await", "use",
          "stop", "abort", "reap", "gone", "failed", "crashed"}

\* The types of what belongs to processes, and of what belongs to clients.
ProcTypeOK ==
    /\ file \in [File -> Proc \cup {None, Empty}]
    /\ state \in [Proc -> {"off", "starting", "up"} \cup Dead]
    /\ accepting \in [Proc -> BOOLEAN]
    /\ pc \in [Proc -> [Routine -> {"off", "write", "notify", "wait", "clean", "drain"}]]
    /\ todo \in [Proc -> Seq(File)]
    /\ opened \in [Proc -> BOOLEAN]
    /\ written \in [Proc -> Seq(File)]
    /\ rem \in [Proc -> [Routine -> Seq(File)]]
    /\ kept \in [Proc -> SUBSET File]
    /\ token \in [Proc -> Tokens]

ClientTypeOK ==
    /\ at \in [Client -> Place]
    /\ look \in [Client -> Seq(File)]
    /\ target \in [Client -> Proc \cup {None}]
    /\ owned \in [Client -> BOOLEAN]
    /\ auth \in [Client -> Tokens]
    /\ session \in [Client -> Tokens]

\* Every variable keeps its type; a client never talks to a file that names no
\* gateway (gateway.py:42-45).
TypeOK == ProcTypeOK /\ ClientTypeOK

\* A client that ended by itself or by one Ctrl+C leaves no gateway behind that was
\* spawned for it: not if it ended before the gateway could be asked to stop, or
\* asked another one, and not if the gateway waits for a request for ever
\* (gateway.py:164-175).
OwnedGatewayGone ==
    \A c \in Client :
        at[c] \in {"gone", "failed"} /\ owned[c] => state[c] \in Dead \cup {"off"}

\* A gateway that shut down in order is in no discovery file any more, but in those
\* it could not remove, also if a signal and /shutdown came at once and one of the
\* sequences ended the process before another was through (main.go:83-96, 152-157).
NoStaleFile ==
    \A p \in Proc : state[p] = "exited" => \A f \in File \ kept[p] : file[f] # p

\* Whatever gateway a client ended up with, found or spawned after a stale
\* discovery file had changed its token, accepts its requests (gateway.py:74-123).
ClientAuthorised ==
    \A c \in Client : at[c] = "use" => Authorised(c, target[c])

\* What the invariants rest on; IInv is inductive.

\* A process that is not up has nothing under way.
DownIsIdle ==
    \A p \in Proc : ~Up(p) =>
        /\ ~accepting[p] /\ ~opened[p]
        /\ pc[p] = Idle /\ rem[p] = Nothing
        /\ todo[p] = <<>> /\ written[p] = <<>>

\* Files are written before anything can start the shutdown sequence
\* (main.go:70-96).
WritesComeFirst ==
    \A p \in Proc :
        /\ Up(p) => pc[p]["main"] # "off"
        /\ opened[p] => todo[p] # <<>>
        /\ todo[p] # <<>> => pc[p]["main"] = "write"
        /\ pc[p]["main"] = "write" => \A r \in Hook : pc[p][r] = "off"

Members(s) == {s[i] : i \in DOMAIN s}

\* A discovery file names a gateway that was up.  It is in the list of one that is,
\* also in that of a cleanup under way, unless it could not be removed; only being
\* killed leaves another one behind.
FilesAccounted ==
    \A p \in Proc, f \in File : file[f] = p =>
        /\ state[p] \in {"up", "killed", "exited"}
        /\ f \notin kept[p] =>
              /\ state[p] # "exited"
              /\ Up(p) => f \in Members(written[p])
              /\ \A r \in Routine :
                    pc[p][r] # "drain" /\ (pc[p][r] = "clean" => f \in Members(rem[p][r]))

\* A client spawns once, reads the files it has looked for, and talks to a gateway
\* that was started: to its own one, if it has spawned one and read its port.
StartedOnce ==
    \A c \in Client :
        /\ at[c] \in {"start", "look", "read", "found", "ping", "spawn"} => state[c] = "off"
        /\ at[c] = "read" => look[c] # <<>>
        /\ at[c] \in {"found", "ping", "use"} =>
              target[c] \in Proc /\ state[target[c]] # "off"
        /\ at[c] = "await" => state[c] # "off" /\ token[c] = auth[c]
        /\ at[c] = "stop" \/ (at[c] = "use" /\ state[c] # "off") => target[c] = c

\* Only a client whose gateway is not to stay goes to stop it.
OwnersStop ==
    \A c \in Client :
        /\ at[c] \in {"stop", "abort", "reap"} => owned[c] /\ state[c] # "off"
        /\ c \in Daemon /\ state[c] # "off" => ~owned[c]

\* The token a client has is the one its session sends.
TokensSent ==
    \A c \in Client : auth[c] # NoToken => session[c] = auth[c]

\* The inductive invariant (main.go:70-96, 152-157, gateway.py:74-175): files are
\* accounted for by the gateway they name, whatever its shutdown sequences do, and a
\* client that has read the port of its gateway talks to that one.
IInv ==
    /\ TypeOK
    /\ DownIsIdle /\ WritesComeFirst /\ FilesAccounted
    /\ StartedOnce /\ OwnersStop /\ TokensSent
    /\ OwnedGatewayGone /\ ClientAuthorised

\* A gateway is made to end: its shutdown sequence starts, or it is gone.
Disturbed(p) == Up(p) /\ (~Up(p)' \/ pc'[p] # pc[p])

\* A resident gateway outlives the clients that spawned it or used it: none of them
\* asks it to stop or kills it (gateway.py:104, 128-134, 164-166).  What can end it
\* is a client that found it, had no answer to its ping, spawned a gateway of its
\* own and ended before it had read the port: its stop asks the address found
\* (gateway.py:82, 124, 168).
DaemonOutlivesClients ==
    [][\A c \in Client, p \in Resident \cup Daemon :
          (Stop(c) \/ KillSpawned(c)) /\ Disturbed(p) =>
              at[c] = "abort" /\ target[c] = p]_vars

\* A gateway told to stop disappears from the discovery files, even if a request
\* keeps it from ending: the files go before the requests are waited for.  Left out:
\* files it could not remove.
FilesGoFirst ==
    \A p \in Proc :
        (\E r \in Routine : pc[p][r] \in {"clean", "drain"}) ~>
            (state[p] \in Dead \/ \A f \in File \ kept[p] : file[f] # p)

\* What the comment on envFilesWritten and the test of cleanupEnvFile say
\* (main.go:106-108, main_test.go:145): a shutdown does not remove a discovery
\* file another process has written.
CleanupOwnOnly ==
    [][\A p \in Proc, r \in Routine :
          RemoveFile(p, r) => file[Head(rem[p][r])] \in {p, None, Empty}]_vars
===============================================================================
