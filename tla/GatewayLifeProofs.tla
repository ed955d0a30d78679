--------------------------- MODULE GatewayLifeProofs ---------------------------
(***************************************************************************)
(* Proofs about GatewayLife, for any number of resident gateways, clients, *)
(* discovery files and tokens.  What a step does to one process is shown   *)
(* in Sound and Accounted, what it does to one client in Minds.            *)
(***************************************************************************)
EXTENDS GatewayLife, TLAPS

-------------------------------------------------------------------------------
(* Initial states and types *)

LEMMA InitIInv == Init => IInv
<1> SUFFICES ASSUME Init  PROVE IInv
  OBVIOUS
<1> USE LifeAssumption DEF Init
<1>1. ProcTypeOK
  <2>1. token \in [Proc -> Tokens]
    BY DEF Proc, Tokens
  <2>2. rem \in [Proc -> [Routine -> Seq(File)]]
    BY DEF Nothing
  <2>3. pc \in [Proc -> [Routine -> {"off", "write", "notify", "wait", "clean", "drain"}]]
    BY DEF Idle
  <2>. QED  BY <2>1, <2>2, <2>3 DEF ProcTypeOK
<1>2. ClientTypeOK
  BY DEF ClientTypeOK, Proc, Tokens, Place
<1>3. DownIsIdle /\ WritesComeFirst /\ FilesAccounted
  BY DEF DownIsIdle, WritesComeFirst, FilesAccounted, Up, Idle, Nothing, Routine, Proc
<1>4. StartedOnce /\ OwnersStop /\ TokensSent /\ OwnedGatewayGone /\ ClientAuthorised
  BY DEF StartedOnce, OwnersStop, TokensSent, OwnedGatewayGone, ClientAuthorised, Proc
<1>. QED  BY <1>1, <1>2, <1>3, <1>4 DEF IInv, TypeOK

LEMMA IdleTypes ==
    /\ Idle \in [Routine -> {"off", "write", "notify", "wait", "clean", "drain"}]
    /\ Nothing \in [Routine -> Seq(File)]
    /\ "main" \in Routine /\ Hook \subseteq Routine /\ "main" \notin Hook
BY LifeAssumption DEF Idle, Nothing, Routine

LEMMA EndsTypes ==
    ASSUME ProcTypeOK, NEW p \in Proc, NEW how \in Dead, Ends(p, how), UNCHANGED file
    PROVE  ProcTypeOK'
BY IdleTypes DEF ProcTypeOK, Ends, Dead

LEMMA CleanupTypes ==
    ASSUME ProcTypeOK, NEW p \in Proc, NEW r \in Routine, BeginCleanup(p, r),
           UNCHANGED <<file, state, accepting, todo, opened, kept, token>>
    PROVE  ProcTypeOK'
BY DEF ProcTypeOK, BeginCleanup

\* What a signal does to a process: nothing, its end, or the shutdown sequence.
LEMMA InterruptedCases ==
    ASSUME NEW p, Interrupted(p)
    PROVE  \/ UNCHANGED procVars
           \/ \E how \in Dead : Ends(p, how)
           \/ /\ Up(p) /\ pc[p]["main"] = "wait" /\ BeginCleanup(p, "main")
              /\ UNCHANGED <<state, accepting, todo, opened, kept, token>>
BY Zenon DEF Interrupted, Dead

LEMMA InterruptedTypes ==
    ASSUME ProcTypeOK, NEW p \in Proc, Interrupted(p), UNCHANGED file
    PROVE  ProcTypeOK'
<1>1. CASE UNCHANGED procVars
  BY <1>1 DEF procVars, ProcTypeOK
<1>2. CASE \E how \in Dead : Ends(p, how)
  BY <1>2, EndsTypes
<1>3. CASE BeginCleanup(p, "main") /\ UNCHANGED <<state, accepting, todo, opened, kept, token>>
  BY <1>3, IdleTypes, CleanupTypes
<1>. QED  BY <1>1, <1>2, <1>3, InterruptedCases

\* What a POST /shutdown does to a process: nothing, or one more shutdown sequence.
LEMMA ShutdownCases ==
    ASSUME NEW p, Shutdown(p)
    PROVE  \/ UNCHANGED procVars
           \/ /\ HookSet(p) /\ accepting[p]
              /\ \E r \in Hook : BeginCleanup(p, r)
              /\ UNCHANGED <<state, accepting, todo, opened, kept, token>>
BY Zenon DEF Shutdown

LEMMA ShutdownTypes ==
    ASSUME ProcTypeOK, NEW p \in Proc, Shutdown(p), UNCHANGED file
    PROVE  ProcTypeOK'
<1>1. CASE UNCHANGED procVars
  BY <1>1 DEF procVars, ProcTypeOK
<1>2. ASSUME NEW r \in Hook, BeginCleanup(p, r),
             UNCHANGED <<state, accepting, todo, opened, kept, token>>
      PROVE  ProcTypeOK'
  BY <1>2, IdleTypes, CleanupTypes
<1>. QED  BY <1>1, <1>2, ShutdownCases

LEMMA ProcTypeStep == IInv /\ [Next]_vars => ProcTypeOK'
<1> SUFFICES ASSUME IInv, [Next]_vars  PROVE ProcTypeOK'
  OBVIOUS
<1> USE LifeAssumption DEF ProcTypeOK, Dead, procVars
<1>0. ProcTypeOK
  BY DEF IInv, TypeOK
<1>1. ASSUME NEW p \in Proc, Startup(p)  PROVE ProcTypeOK'
  <2>1. CASE Listen(p)
    BY <1>0, <2>1, IdleTypes DEF Listen, WritesEnv, Proc
  <2>2. CASE ListenFails(p)
    BY <1>0, <2>2, EndsTypes DEF ListenFails
  <2>3. CASE OpenFile(p)
    BY <1>0, <2>3 DEF OpenFile
  <2>4. CASE FillFile(p)
    <3>1. todo[p] # <<>> /\ todo[p] \in Seq(File)
      BY <1>0, <2>4 DEF FillFile, IInv, WritesComeFirst
    <3>2. Head(todo[p]) \in File /\ Tail(todo[p]) \in Seq(File)
      BY <3>1
    <3>3. Append(written[p], Head(todo[p])) \in Seq(File)
      BY <1>0, <3>2
    <3>. QED  BY <1>0, <2>4, <3>2, <3>3 DEF FillFile
  <2>5. CASE WriteFails(p)
    BY <1>0, <2>5 DEF WriteFails
  <2>6. CASE SetShutdownFunc(p)
    BY <1>0, <2>6, IdleTypes DEF SetShutdownFunc
  <2>7. CASE Notify(p)
    BY <1>0, <2>7, IdleTypes DEF Notify
  <2>. QED  BY <1>1, <2>1, <2>2, <2>3, <2>4, <2>5, <2>6, <2>7 DEF Startup
<1>2. ASSUME NEW p \in Proc, KillGateway(p) \/ Signal(p) \/ ApiShutdown(p)  PROVE ProcTypeOK'
  BY <1>0, <1>2, EndsTypes, InterruptedTypes, ShutdownTypes DEF KillGateway, Signal, ApiShutdown
<1>3. ASSUME NEW p \in Proc, NEW r \in Routine, Cleanup(p, r) \/ Drained(p, r)  PROVE ProcTypeOK'
  <2>1. CASE RemoveFile(p, r)
    <3>1. rem[p][r] \in Seq(File) /\ rem[p][r] # <<>>
      BY <1>0, <2>1 DEF RemoveFile
    <3>2. Head(rem[p][r]) \in File /\ Tail(rem[p][r]) \in Seq(File)
      BY <3>1
    <3>3. rem' \in [Proc -> [Routine -> Seq(File)]]
      BY <1>0, <2>1, <3>2 DEF RemoveFile
    <3>4. file' \in [File -> Proc \cup {None, Empty}]
      BY <1>0, <2>1, <3>2 DEF RemoveFile
    <3>5. kept' \in [Proc -> SUBSET File]
      <4>1. kept[p] \cup {Head(rem[p][r])} \in SUBSET File
        BY <1>0, <3>2
      <4>2. \/ kept' = kept
            \/ kept' = [kept EXCEPT ![p] = kept[p] \cup {Head(rem[p][r])}]
        BY <2>1 DEF RemoveFile
      <4>3. kept \in [Proc -> SUBSET File]
        BY <1>0
      <4>. HIDE DEF ProcTypeOK
      <4>. QED  BY <4>1, <4>2, <4>3
    <3>. QED  BY <1>0, <2>1, <3>3, <3>4, <3>5 DEF RemoveFile
  <2>2. CASE CloseServer(p, r)
    BY <1>0, <2>2 DEF CloseServer
  <2>3. CASE Drained(p, r)
    BY <1>0, <2>3, EndsTypes DEF Drained
  <2>. QED  BY <1>3, <2>1, <2>2, <2>3 DEF Cleanup
<1>4. ASSUME NEW c \in Client, ClientStep(c)  PROVE ProcTypeOK'
  <2>1. CASE Spawn(c)
    BY <1>0, <2>1 DEF Spawn, Proc, IInv, TypeOK, ClientTypeOK
  <2>2. CASE Stop(c)
    BY <1>0, <2>2, ShutdownTypes DEF Stop, IInv, TypeOK, ClientTypeOK
  <2>3. CASE KillSpawned(c)
    BY <1>0, <2>3, EndsTypes DEF KillSpawned, Proc
  <2>4. CASE ~Spawn(c) /\ ~Stop(c) /\ ~KillSpawned(c)
    BY <1>0, <1>4, <2>4 DEF ClientStep, Begin, LookAtFile, NoFileFound, ReadFile, CheckToken,
       PingOk, PingFails, NoBinary, Await, Finish, Reap, Moves
  <2>. QED  BY <2>1, <2>2, <2>3, <2>4
<1>5. ASSUME NEW c \in Client, CtrlC(c) \/ CrashClient(c)  PROVE ProcTypeOK'
  BY <1>0, <1>5, InterruptedTypes DEF CtrlC, CrashClient, Moves, Proc
<1>6. CASE UNCHANGED vars
  BY <1>0, <1>6 DEF vars
<1>. QED  BY <1>1, <1>2, <1>3, <1>4, <1>5, <1>6 DEF Next

LEMMA ClientTypeStep == IInv /\ [Next]_vars => ClientTypeOK'
<1> SUFFICES ASSUME IInv, [Next]_vars  PROVE ClientTypeOK'
  OBVIOUS
<1> USE DEF ClientTypeOK, clientVars
<1>0. ProcTypeOK /\ ClientTypeOK
  BY DEF IInv, TypeOK
<1>1. ASSUME NEW p \in Proc, Startup(p)  PROVE ClientTypeOK'
  BY <1>0, <1>1 DEF Startup, Listen, ListenFails, OpenFile, FillFile, WriteFails,
     SetShutdownFunc, Notify
<1>2. ASSUME NEW p \in Proc, KillGateway(p) \/ Signal(p) \/ ApiShutdown(p)  PROVE ClientTypeOK'
  BY <1>0, <1>2 DEF KillGateway, Signal, ApiShutdown
<1>3. ASSUME NEW p \in Proc, NEW r \in Routine, Cleanup(p, r) \/ Drained(p, r)
      PROVE  ClientTypeOK'
  BY <1>0, <1>3 DEF Cleanup, RemoveFile, CloseServer, Drained
<1>4. ASSUME NEW c \in Client, ClientStep(c)  PROVE ClientTypeOK'
  <2>1. CASE Begin(c)
    <3>1. EnvURL[c] \subseteq Proc
      BY LifeAssumption DEF Proc
    <3>2. <<Cwd[c], Home>> \in Seq(File)
      BY LifeAssumption DEF Proc
    <3>3. at' \in [Client -> Place] /\ UNCHANGED <<owned, auth, session>>
      BY <1>0, <2>1 DEF Begin, Place
    <3>4. target' \in [Client -> Proc \cup {None}]
      BY <1>0, <2>1, <3>1 DEF Begin
    <3>5. look' \in [Client -> Seq(File)]
      BY <1>0, <2>1, <3>2 DEF Begin
    <3>. QED  BY <1>0, <3>3, <3>4, <3>5
  <2>2. CASE LookAtFile(c)
    <3>1. Tail(look[c]) \in Seq(File)
      BY <1>0, <2>2 DEF LookAtFile
    <3>. QED  BY <1>0, <2>2, <3>1 DEF LookAtFile, Moves, Place
  <2>3. CASE NoFileFound(c)
    BY <1>0, <2>3 DEF NoFileFound, Moves, Place
  <2>4. CASE ReadFile(c)
    <3>1. look' \in [Client -> Seq(File)]
      BY <1>0, <2>4 DEF ReadFile
    <3>2. CASE \E place \in {"failed", "spawn"} : Moves(c, place)
      BY <1>0, <3>1, <3>2 DEF Moves, Place
    <3>3. CASE ~ \E place \in {"failed", "spawn"} : Moves(c, place)
      BY <1>0, <2>4, <3>1, <3>3 DEF ReadFile, Place
    <3>. QED  BY <3>2, <3>3
  <2>5. CASE CheckToken(c)
    <3>1. token[target[c]] \in Tokens
      BY <1>0, <2>5 DEF CheckToken, IInv, StartedOnce, ProcTypeOK
    <3>2. /\ auth' \in [Client -> Tokens] /\ session' \in [Client -> Tokens]
          /\ owned' \in [Client -> BOOLEAN]
      BY <1>0, <2>5, <3>1 DEF CheckToken, AdoptToken
    <3>. QED  BY <1>0, <2>5, <3>2 DEF CheckToken, Place
  <2>6. CASE PingOk(c)
    BY <1>0, <2>6 DEF PingOk, Moves, Place
  <2>6a. CASE Spawn(c)
    BY <1>0, <2>6a DEF Spawn, Proc, Place
  <2>7. CASE PingFails(c)
    BY <1>0, <2>7 DEF PingFails, Place
  <2>8. CASE NoBinary(c) \/ Finish(c)
    BY <1>0, <2>8 DEF NoBinary, Finish, Leave, Moves, Place
  <2>8a. CASE Await(c)
    BY <1>0, <2>8a DEF Await, Leave, Moves, Place, Proc
  <2>9. CASE Stop(c) \/ Reap(c) \/ KillSpawned(c)
    BY <1>0, <2>9 DEF Stop, Reap, KillSpawned, Moves, Place
  <2>. QED
    BY <1>4, <2>1, <2>2, <2>3, <2>4, <2>5, <2>6, <2>6a, <2>7, <2>8, <2>8a, <2>9
       DEF ClientStep
<1>5. ASSUME NEW c \in Client, CtrlC(c) \/ CrashClient(c)  PROVE ClientTypeOK'
  BY <1>0, <1>5 DEF CtrlC, CrashClient, Moves, Leave, Place
<1>6. CASE UNCHANGED vars
  BY <1>0, <1>6 DEF vars
<1>. QED  BY <1>1, <1>2, <1>3, <1>4, <1>5, <1>6 DEF Next

-------------------------------------------------------------------------------
(* Processes *)

\* DownIsIdle and WritesComeFirst of one process.
Sound(p) ==
    /\ ~Up(p) => /\ ~accepting[p] /\ ~opened[p]
                 /\ pc[p] = Idle /\ rem[p] = Nothing
                 /\ todo[p] = <<>> /\ written[p] = <<>>
    /\ Up(p) => pc[p]["main"] # "off"
    /\ opened[p] => todo[p] # <<>>
    /\ todo[p] # <<>> => pc[p]["main"] = "write"
    /\ pc[p]["main"] = "write" => \A r \in Hook : pc[p][r] = "off"

LEMMA EndsSound ==
    ASSUME ProcTypeOK, NEW p \in Proc, NEW how \in Dead, Ends(p, how)
    PROVE  Sound(p)'
BY IdleTypes DEF ProcTypeOK, Ends, Dead, Sound, Up, Idle

LEMMA SoundStep ==
    ASSUME IInv, [Next]_vars, NEW q \in Proc
    PROVE  Sound(q)'
<1> USE IdleTypes DEF procVars
<1>0. ProcTypeOK /\ Sound(q)
  BY DEF IInv, TypeOK, DownIsIdle, WritesComeFirst, Sound
<1>a. ASSUME UNCHANGED <<state[q], accepting[q], pc[q], todo[q], opened[q], written[q], rem[q]>>
      PROVE  Sound(q)'
  BY <1>0, <1>a DEF Sound, Up
<1>b. ASSUME NEW p \in Proc, Interrupted(p)  PROVE Sound(q)'
  <2>1. CASE UNCHANGED procVars
    BY <1>a, <2>1
  <2>2. ASSUME NEW how \in Dead, Ends(p, how)  PROVE Sound(q)'
    <3>1. CASE p = q
      BY <1>0, <2>2, <3>1, EndsSound
    <3>2. CASE p # q
      BY <1>0, <1>a, <2>2, <3>2 DEF Ends, ProcTypeOK
    <3>. QED  BY <3>1, <3>2
  <2>3. CASE /\ Up(p) /\ pc[p]["main"] = "wait" /\ BeginCleanup(p, "main")
             /\ UNCHANGED <<state, accepting, todo, opened, kept, token>>
    <3>1. CASE p = q
      BY <1>0, <2>3, <3>1 DEF BeginCleanup, ProcTypeOK, Sound, Up
    <3>2. CASE p # q
      BY <1>0, <1>a, <2>3, <3>2 DEF BeginCleanup, ProcTypeOK
    <3>. QED  BY <3>1, <3>2
  <2>. QED  BY <1>b, <2>1, <2>2, <2>3, InterruptedCases
<1>c. ASSUME NEW p \in Proc, Shutdown(p)  PROVE Sound(q)'
  <2>1. CASE UNCHANGED procVars
    BY <1>a, <2>1
  <2>2. ASSUME NEW r \in Hook, HookSet(p), BeginCleanup(p, r),
               UNCHANGED <<state, accepting, todo, opened>>
        PROVE  Sound(q)'
    <3>1. CASE p = q
      BY <1>0, <2>2, <3>1 DEF BeginCleanup, ProcTypeOK, Sound, Up, HookSet
    <3>2. CASE p # q
      BY <1>0, <1>a, <2>2, <3>2 DEF BeginCleanup, ProcTypeOK
    <3>. QED  BY <3>1, <3>2
  <2>. QED  BY <1>c, <2>1, <2>2, ShutdownCases
<1>1. ASSUME NEW p \in Proc, Startup(p)  PROVE Sound(q)'
  <2>1. CASE p # q
    BY <1>0, <1>a, <1>1, <2>1 DEF Startup, Listen, ListenFails, OpenFile, FillFile, WriteFails,
       SetShutdownFunc, Notify, Ends, ProcTypeOK
  <2>2. CASE p = q /\ Listen(p)
    BY <1>0, <2>2 DEF Listen, Sound, Up, Idle, ProcTypeOK
  <2>3. CASE p = q /\ ListenFails(p)
    BY <1>0, <2>3, EndsSound DEF ListenFails, Dead
  <2>4. CASE p = q /\ (OpenFile(p) \/ FillFile(p) \/ WriteFails(p))
    BY <1>0, <2>4 DEF OpenFile, FillFile, WriteFails, Sound, Up, ProcTypeOK
  <2>5. CASE p = q /\ (SetShutdownFunc(p) \/ Notify(p))
    BY <1>0, <2>5 DEF SetShutdownFunc, Notify, Sound, Up, ProcTypeOK
  <2>. QED  BY <1>1, <2>1, <2>2, <2>3, <2>4, <2>5 DEF Startup
<1>2. ASSUME NEW p \in Proc, KillGateway(p)  PROVE Sound(q)'
  BY <1>0, <1>2, EndsSound, <1>a DEF KillGateway, Ends, ProcTypeOK, Dead
<1>3. ASSUME NEW p \in Proc, NEW r \in Routine, Cleanup(p, r) \/ Drained(p, r)
      PROVE  Sound(q)'
  <2>1. CASE p # q
    BY <1>0, <1>a, <1>3, <2>1 DEF Cleanup, RemoveFile, CloseServer, Drained, Ends, ProcTypeOK
  <2>2. CASE p = q /\ RemoveFile(p, r)
    BY <1>0, <2>2 DEF RemoveFile, Sound, Up, ProcTypeOK
  <2>3. CASE p = q /\ CloseServer(p, r)
    BY <1>0, <2>3 DEF CloseServer, Sound, Up, ProcTypeOK, Routine
  <2>4. CASE p = q /\ Drained(p, r)
    BY <1>0, <2>4, EndsSound DEF Drained, Dead
  <2>. QED  BY <1>3, <2>1, <2>2, <2>3, <2>4 DEF Cleanup
<1>4. ASSUME NEW c \in Client, ClientStep(c)  PROVE Sound(q)'
  <2>1. CASE Spawn(c)
    <3>1. ~Up(c) /\ c \in Proc
      BY <2>1 DEF Spawn, IInv, StartedOnce, Up, Proc
    <3>2. UNCHANGED <<accepting[q], pc[q], todo[q], opened[q], written[q], rem[q]>> /\ (Up(q)' <=> Up(q))
      BY <2>1, <3>1, <1>0 DEF Spawn, Up, ProcTypeOK
    <3>. QED  BY <1>0, <3>2 DEF Sound
  <2>2. CASE Stop(c)
    BY <1>a, <1>c, <2>2 DEF Stop, IInv, TypeOK, ClientTypeOK
  <2>3. CASE KillSpawned(c)
    BY <1>0, <1>a, <2>3, EndsSound DEF KillSpawned, Ends, ProcTypeOK, Dead, Proc
  <2>4. CASE UNCHANGED procVars
    BY <1>a, <2>4
  <2>. QED
    BY <1>4, <2>1, <2>2, <2>3, <2>4 DEF ClientStep, Begin, LookAtFile, NoFileFound, ReadFile,
       CheckToken, PingOk, PingFails, NoBinary, Await, Finish, Reap, Moves
<1>5. ASSUME NEW c \in Client, CtrlC(c) \/ CrashClient(c)  PROVE Sound(q)'
  BY <1>a, <1>b, <1>5 DEF CtrlC, CrashClient, Moves, Proc
<1>6. CASE UNCHANGED vars
  BY <1>a, <1>6 DEF vars
<1>7. ASSUME NEW p \in Proc, Signal(p) \/ ApiShutdown(p)  PROVE Sound(q)'
  BY <1>b, <1>c, <1>7 DEF Signal, ApiShutdown
<1>. QED  BY <1>1, <1>2, <1>3, <1>4, <1>5, <1>6, <1>7 DEF Next

-------------------------------------------------------------------------------
(* Discovery files *)

LEMMA MembersAppend ==
    ASSUME NEW S, NEW s \in Seq(S), NEW x \in S
    PROVE  Members(s) \subseteq Members(Append(s, x)) /\ x \in Members(Append(s, x))
<1>1. \A i \in DOMAIN s : i \in DOMAIN Append(s, x) /\ Append(s, x)[i] = s[i]
  OBVIOUS
<1>2. Len(s) + 1 \in DOMAIN Append(s, x) /\ Append(s, x)[Len(s) + 1] = x
  OBVIOUS
<1>. QED  BY <1>1, <1>2 DEF Members

LEMMA MembersTail ==
    ASSUME NEW S, NEW s \in Seq(S), NEW x \in Members(s), s # <<>>, x # Head(s)
    PROVE  x \in Members(Tail(s))
<1>1. PICK i \in 1..Len(s) : s[i] = x
  BY DEF Members
<1>2. i - 1 \in DOMAIN Tail(s) /\ Tail(s)[i - 1] = x
  BY <1>1
<1>. QED  BY <1>2 DEF Members

LEMMA MembersEmpty == Members(<<>>) = {}
BY DEF Members

\* FilesAccounted of one process and file.
Accounted(p, f) ==
    file[f] = p =>
        /\ state[p] \in {"up", "killed", "exited"}
        /\ f \notin kept[p] =>
              /\ state[p] # "exited"
              /\ Up(p) => f \in Members(written[p])
              /\ \A r \in Routine :
                    pc[p][r] # "drain" /\ (pc[p][r] = "clean" => f \in Members(rem[p][r]))

LEMMA FilesAccountedStep ==
    ASSUME IInv, [Next]_vars, NEW q \in Proc, NEW f \in File
    PROVE  Accounted(q, f)'
<1> USE IdleTypes DEF procVars
<1>0. ProcTypeOK /\ Sound(q) /\ Accounted(q, f)
  BY DEF IInv, TypeOK, DownIsIdle, WritesComeFirst, Sound, FilesAccounted, Accounted
<1>a. ASSUME UNCHANGED <<state[q], pc[q], written[q], rem[q], kept[q]>>,
             file'[f] = q => file[f] = q
      PROVE  Accounted(q, f)'
  BY <1>0, <1>a DEF Accounted, Up
<1>b. ASSUME NEW p \in Proc, NEW how \in Dead, Ends(p, how), UNCHANGED file,
             p = q => how = "killed" \/ file[f] # p \/ (how = "exited" /\ f \in kept[p])
      PROVE  Accounted(q, f)'
  BY <1>0, <1>a, <1>b DEF Ends, ProcTypeOK, Accounted, Up, Idle
<1>c. ASSUME NEW p \in Proc, NEW r \in Routine, Up(p), BeginCleanup(p, r),
             UNCHANGED <<state, kept, file>>
      PROVE  Accounted(q, f)'
  <2>1. CASE p # q
    BY <1>0, <1>a, <1>c, <2>1 DEF BeginCleanup, ProcTypeOK
  <2>2. CASE p = q
    BY <1>0, <1>c, <2>2 DEF BeginCleanup, ProcTypeOK, Accounted, Up
  <2>. QED  BY <2>1, <2>2
<1>d. ASSUME NEW p \in Proc, Interrupted(p), UNCHANGED file  PROVE Accounted(q, f)'
  <2>1. CASE UNCHANGED procVars
    BY <1>a, <1>d, <2>1
  <2>2. CASE Up(p) /\ pc[p]["main"] = "wait" /\ BeginCleanup(p, "main")
             /\ UNCHANGED <<state, kept>>
    BY <1>c, <1>d, <2>2
  <2>3. ASSUME Ends(p, IF Up(p) THEN "killed" ELSE "failed"), state[p] = "starting" \/ Up(p)
        PROVE  Accounted(q, f)'
    BY <1>0, <1>b, <1>d, <2>3 DEF Accounted, Up, Dead
  <2>. QED  BY <1>d, <2>1, <2>2, <2>3, Zenon DEF Interrupted
<1>e. ASSUME NEW p \in Proc, Shutdown(p), UNCHANGED file  PROVE Accounted(q, f)'
  <2>1. CASE UNCHANGED procVars
    BY <1>a, <1>e, <2>1
  <2>2. ASSUME NEW r \in Hook, Up(p), BeginCleanup(p, r), UNCHANGED <<state, kept>>
        PROVE  Accounted(q, f)'
    BY <1>c, <1>e, <2>2
  <2>. QED  BY <1>e, <2>1, <2>2, ShutdownCases DEF HookSet
<1>1. ASSUME NEW p \in Proc, Startup(p)  PROVE Accounted(q, f)'
  <2>1. CASE Listen(p)
    <3>1. CASE p # q
      BY <1>0, <1>a, <2>1, <3>1 DEF Listen, ProcTypeOK
    <3>2. CASE p = q
      BY <1>0, <2>1, <3>2 DEF Listen, ProcTypeOK, Accounted
    <3>. QED  BY <3>1, <3>2
  <2>2. CASE ListenFails(p)
    BY <1>0, <1>b, <2>2 DEF ListenFails, Accounted, Dead
  <2>3. CASE OpenFile(p)
    BY <1>0, <1>a, <2>3, LifeAssumption DEF OpenFile, ProcTypeOK
  <2>4. CASE FillFile(p)
    <3>1. /\ todo[p] # <<>> /\ todo[p] \in Seq(File)
          /\ written[p] \in Seq(File)
      BY <1>0, <2>4 DEF FillFile, ProcTypeOK, IInv, WritesComeFirst
    <3>2. Head(todo[p]) \in File
      BY <3>1
    <3>3. /\ Members(written[p]) \subseteq Members(Append(written[p], Head(todo[p])))
          /\ Head(todo[p]) \in Members(Append(written[p], Head(todo[p])))
      BY <3>1, <3>2, MembersAppend
    <3>4. CASE p # q
      BY <1>0, <1>a, <2>4, <3>4 DEF FillFile, ProcTypeOK
    <3>5. CASE p = q
      <4>1. pc[q]["main"] = "write" /\ \A r \in Hook : pc[q][r] = "off"
        BY <1>0, <3>1, <3>5 DEF Sound
      <4>2. UNCHANGED <<state, pc, rem, kept>> /\ Up(q)
        BY <2>4, <3>5 DEF FillFile
      <4>3. file'[f] = q => f = Head(todo[q]) \/ file[f] = q
        BY <1>0, <2>4, <3>5 DEF FillFile, ProcTypeOK
      <4>4. written'[q] = Append(written[q], Head(todo[q]))
        BY <1>0, <2>4, <3>5 DEF FillFile, ProcTypeOK
      <4>. QED  BY <1>0, <3>3, <3>5, <4>1, <4>2, <4>3, <4>4 DEF Accounted, Up, Routine
    <3>. QED  BY <3>4, <3>5
  <2>5. CASE WriteFails(p)
    BY <1>a, <2>5 DEF WriteFails
  <2>6. CASE SetShutdownFunc(p) \/ Notify(p)
    BY <1>0, <1>a, <2>6 DEF SetShutdownFunc, Notify, ProcTypeOK, Accounted, Up, Routine
  <2>. QED  BY <1>1, <2>1, <2>2, <2>3, <2>4, <2>5, <2>6 DEF Startup
<1>2. ASSUME NEW p \in Proc, KillGateway(p) \/ Signal(p) \/ ApiShutdown(p)
      PROVE  Accounted(q, f)'
  BY <1>b, <1>d, <1>e, <1>2 DEF KillGateway, Signal, ApiShutdown, Dead
<1>3. ASSUME NEW p \in Proc, NEW r \in Routine, Cleanup(p, r) \/ Drained(p, r)
      PROVE  Accounted(q, f)'
  <2>1. CASE RemoveFile(p, r)
    <3>1. /\ rem[p][r] \in Seq(File) /\ rem[p][r] # <<>> /\ Head(rem[p][r]) \in File
          /\ UNCHANGED <<state, pc, written>>
      BY <1>0, <2>1 DEF RemoveFile, ProcTypeOK
    <3>2. file'[f] = q => file[f] = q
      BY <1>0, <2>1, <3>1, LifeAssumption DEF RemoveFile, ProcTypeOK
    <3>3. CASE p # q
      BY <1>0, <1>a, <2>1, <3>1, <3>2, <3>3 DEF RemoveFile, ProcTypeOK
    <3>4. CASE p = q
      <4>1. /\ rem'[q][r] = Tail(rem[q][r])
            /\ \A s \in Routine \ {r} : rem'[q][s] = rem[q][s]
        BY <1>0, <2>1, <3>4 DEF RemoveFile, ProcTypeOK
      <4>2. f \notin kept'[q] => f \notin kept[q]
        BY <1>0, <2>1, <3>4 DEF RemoveFile, ProcTypeOK
      <4>3. file'[f] = q /\ f \notin kept'[q] => f # Head(rem[q][r])
        BY <1>0, <2>1, <3>1, <3>4, LifeAssumption DEF RemoveFile, ProcTypeOK
      <4>4. /\ file'[f] = q /\ f \notin kept'[q] /\ f \in Members(rem[q][r])
            => f \in Members(Tail(rem[q][r]))
        BY <3>1, <3>4, <4>3, MembersTail
      <4>. QED  BY <1>0, <3>1, <3>2, <4>1, <4>2, <4>4 DEF Accounted, Up
    <3>. QED  BY <3>3, <3>4
  <2>2. CASE CloseServer(p, r)
    <3>1. CASE p # q
      BY <1>0, <1>a, <2>2, <3>1 DEF CloseServer, ProcTypeOK
    <3>2. CASE p = q
      BY <1>0, <2>2, <3>2, MembersEmpty DEF CloseServer, ProcTypeOK, Accounted
    <3>. QED  BY <3>1, <3>2
  <2>3. CASE Drained(p, r)
    BY <1>0, <1>b, <2>3 DEF Drained, Accounted, Dead
  <2>. QED  BY <1>3, <2>1, <2>2, <2>3 DEF Cleanup
<1>4. ASSUME NEW c \in Client, ClientStep(c)  PROVE Accounted(q, f)'
  <2>1. CASE Spawn(c)
    BY <1>0, <2>1 DEF Spawn, IInv, StartedOnce, Accounted, Up, ProcTypeOK, Proc
  <2>2. CASE Stop(c)
    BY <1>a, <1>e, <2>2 DEF Stop, IInv, TypeOK, ClientTypeOK
  <2>3. CASE KillSpawned(c)
    BY <1>b, <2>3 DEF KillSpawned, Proc, Dead
  <2>4. CASE UNCHANGED <<file, procVars>>
    BY <1>a, <2>4
  <2>. QED
    BY <1>4, <2>1, <2>2, <2>3, <2>4 DEF ClientStep, Begin, LookAtFile, NoFileFound, ReadFile,
       CheckToken, PingOk, PingFails, NoBinary, Await, Finish, Reap, Moves
<1>5. ASSUME NEW c \in Client, CtrlC(c) \/ CrashClient(c)  PROVE Accounted(q, f)'
  BY <1>a, <1>d, <1>5 DEF CtrlC, CrashClient, Moves, Proc
<1>6. CASE UNCHANGED vars
  BY <1>a, <1>6 DEF vars
<1>. QED  BY <1>1, <1>2, <1>3, <1>4, <1>5, <1>6 DEF Next

-------------------------------------------------------------------------------
(* Clients *)

\* How the state and the token of a process can change: only its client's Spawn
\* starts it or gives it a token, and it is never again as if it had not been started.
LEMMA StateSteps ==
    ASSUME IInv, [Next]_vars, NEW p \in Proc, p \in Client => ~Spawn(p)
    PROVE  /\ token'[p] = token[p]
           /\ state[p] = "off" => state'[p] = "off"
           /\ state[p] # "off" => state'[p] # "off"
           /\ state[p] \in Dead => state'[p] \in Dead
<1> DEFINE Goes == /\ token'[p] = token[p]
                   /\ state[p] = "off" => state'[p] = "off"
                   /\ state[p] # "off" => state'[p] # "off"
                   /\ state[p] \in Dead => state'[p] \in Dead
<1> USE DEF procVars
<1>0. ProcTypeOK /\ Sound(p)
  BY DEF IInv, TypeOK, DownIsIdle, WritesComeFirst, Sound
<1>a. ASSUME NEW q \in Proc, NEW how \in Dead, Ends(q, how), state[q] # "off"  PROVE Goes
  BY <1>0, <1>a DEF Ends, ProcTypeOK, Dead
<1>b. CASE UNCHANGED <<state, token>>
  BY <1>b
<1>c. ASSUME NEW q \in Proc, Interrupted(q)  PROVE Goes
  <2>1. CASE Ends(q, IF Up(q) THEN "killed" ELSE "failed") /\ state[q] # "off"
    BY <1>a, <2>1 DEF Dead
  <2>. QED  BY <1>c, <1>b, <2>1 DEF Interrupted, Up, BeginCleanup
<1>1. ASSUME NEW q \in Proc, Startup(q)  PROVE Goes
  <2>1. CASE Listen(q)
    BY <1>0, <2>1 DEF Listen, ProcTypeOK, Dead
  <2>2. CASE ListenFails(q)
    BY <1>a, <2>2 DEF ListenFails, Dead
  <2>. QED
    BY <1>1, <1>b, <2>1, <2>2 DEF Startup, OpenFile, FillFile, WriteFails, SetShutdownFunc, Notify
<1>2. ASSUME NEW q \in Proc, KillGateway(q) \/ Signal(q) \/ ApiShutdown(q)  PROVE Goes
  BY <1>a, <1>b, <1>c, <1>2 DEF KillGateway, Signal, ApiShutdown, Shutdown, BeginCleanup, Up, Dead
<1>3. ASSUME NEW q \in Proc, NEW r \in Routine, Cleanup(q, r) \/ Drained(q, r)  PROVE Goes
  BY <1>a, <1>b, <1>3 DEF Cleanup, RemoveFile, CloseServer, Drained, Up, Dead
<1>4. ASSUME NEW c \in Client, ClientStep(c)  PROVE Goes
  <2>1. CASE Spawn(c)
    <3>1. p # c
      BY <2>1
    <3>. QED  BY <1>0, <2>1, <3>1 DEF Spawn, ProcTypeOK
  <2>2. CASE KillSpawned(c)
    <3>1. state[c] # "off" /\ c \in Proc
      BY <2>2 DEF KillSpawned, IInv, OwnersStop, Proc
    <3>. QED  BY <1>a, <2>2, <3>1 DEF KillSpawned, Dead
  <2>. QED
    BY <1>4, <1>b, <2>1, <2>2 DEF ClientStep, Begin, LookAtFile, NoFileFound, ReadFile,
       CheckToken, PingOk, PingFails, NoBinary, Await, Finish, Stop, Shutdown, BeginCleanup,
       Reap, Moves
<1>5. ASSUME NEW c \in Client, CtrlC(c) \/ CrashClient(c)  PROVE Goes
  BY <1>b, <1>c, <1>5 DEF CtrlC, CrashClient, Moves, Proc
<1>6. CASE UNCHANGED vars
  BY <1>b, <1>6 DEF vars
<1>. QED  BY <1>1, <1>2, <1>3, <1>4, <1>5, <1>6 DEF Next

\* What a client knows only its own steps change.
LEMMA ClientSteps ==
    ASSUME IInv, [Next]_vars, NEW c \in Client
    PROVE  \/ ClientStep(c) \/ CtrlC(c) \/ CrashClient(c)
           \/ UNCHANGED <<at[c], look[c], target[c], owned[c], auth[c], session[c]>>
<1> DEFINE Same == UNCHANGED <<at[c], look[c], target[c], owned[c], auth[c], session[c]>>
<1>0. ClientTypeOK
  BY DEF IInv, TypeOK
<1>1. CASE UNCHANGED clientVars
  BY <1>1 DEF clientVars
<1>2. ASSUME NEW d \in Client \ {c}, ClientStep(d) \/ CtrlC(d) \/ CrashClient(d)
      PROVE  Same
  <2>1. CASE Begin(d) \/ LookAtFile(d) \/ NoFileFound(d) \/ ReadFile(d)
    BY <1>0, <2>1 DEF Begin, LookAtFile, NoFileFound, ReadFile, Moves, ClientTypeOK
  <2>2. CASE CheckToken(d) \/ PingOk(d) \/ PingFails(d) \/ Spawn(d)
    BY <1>0, <2>2 DEF CheckToken, AdoptToken, PingOk, PingFails, Spawn, Moves, ClientTypeOK
  <2>3. CASE NoBinary(d) \/ Await(d) \/ Finish(d) \/ Stop(d) \/ Reap(d) \/ KillSpawned(d)
             \/ CtrlC(d) \/ CrashClient(d)
    BY <1>0, <2>3 DEF NoBinary, Await, Finish, Stop, Reap, KillSpawned, CtrlC, CrashClient,
       Moves, ClientTypeOK
  <2>. QED  BY <1>2, <2>1, <2>2, <2>3 DEF ClientStep
<1>3. ASSUME NEW p \in Proc, NEW r \in Routine,
             \/ Startup(p) \/ KillGateway(p) \/ Signal(p) \/ ApiShutdown(p)
             \/ Cleanup(p, r) \/ Drained(p, r)
      PROVE  UNCHANGED clientVars
  BY <1>3 DEF Startup, Listen, ListenFails, OpenFile, FillFile, WriteFails, SetShutdownFunc,
     Notify, KillGateway, Signal, ApiShutdown, Cleanup, RemoveFile, CloseServer, Drained
<1>4. CASE UNCHANGED vars
  BY <1>1, <1>4 DEF vars
<1>. QED  BY <1>1, <1>2, <1>3, <1>4, IdleTypes DEF Next

\* The client's part of the invariant, of one client.
Minds(c) ==
    /\ at[c] \in {"start", "look", "read", "found", "ping", "spawn"} => state[c] = "off"
    /\ at[c] = "read" => look[c] # <<>>
    /\ at[c] \in {"found", "ping", "use"} =>
          target[c] \in Proc /\ state[target[c]] # "off"
    /\ at[c] = "await" => state[c] # "off" /\ token[c] = auth[c]
    /\ at[c] = "stop" \/ (at[c] = "use" /\ state[c] # "off") => target[c] = c
    /\ at[c] \in {"stop", "abort", "reap"} => owned[c] /\ state[c] # "off"
    /\ c \in Daemon /\ state[c] # "off" => ~owned[c]
    /\ auth[c] # NoToken => session[c] = auth[c]
    /\ at[c] \in {"gone", "failed"} /\ owned[c] => state[c] \in Dead \cup {"off"}
    /\ at[c] = "use" => Authorised(c, target[c])

LEMMA MindsIInv == (\A c \in Client : Minds(c)) <=>
                    StartedOnce /\ OwnersStop /\ TokensSent /\ OwnedGatewayGone /\ ClientAuthorised
BY DEF Minds, StartedOnce, OwnersStop, TokensSent, OwnedGatewayGone, ClientAuthorised

LEMMA MindsStep ==
    ASSUME IInv, [Next]_vars, NEW c \in Client
    PROVE  Minds(c)'
<1>0. ProcTypeOK /\ ClientTypeOK /\ Minds(c) /\ c \in Proc
  BY MindsIInv DEF IInv, TypeOK, Proc
\* A gateway that was started stays started and keeps its token.
<1>a. ASSUME NEW p \in Proc, state[p] # "off"
      PROVE  state'[p] # "off" /\ token'[p] = token[p] /\ (state[p] \in Dead => state'[p] \in Dead)
  <2>1. p \in Client => ~Spawn(p)
    BY <1>a DEF Spawn, IInv, StartedOnce
  <2>. QED  BY <1>a, <2>1, StateSteps
<1>b. at[c] # "spawn" /\ state[c] = "off" => state'[c] = "off"
  BY <1>0, StateSteps DEF Spawn
<1>c. at[c] \in {"found", "ping", "use"} =>
          state'[target[c]] # "off" /\ token'[target[c]] = token[target[c]]
  BY <1>0, <1>a DEF Minds
<1>1. CASE UNCHANGED <<at[c], look[c], target[c], owned[c], auth[c], session[c]>>
  <2>1. state[c] = "off" => state'[c] = "off"
    <3>1. CASE ~Spawn(c)
      BY <3>1, <1>0, StateSteps
    <3>2. CASE Spawn(c)
      BY <1>0, <1>1, <3>2 DEF Spawn, ClientTypeOK
    <3>. QED  BY <3>1, <3>2
  <2>. QED  BY <1>0, <1>1, <1>a, <1>c, <2>1 DEF Minds, Authorised
<1>2. CASE Begin(c)
  <2>1. EnvURL[c] \subseteq Proc
    BY LifeAssumption DEF Proc
  <2>2. /\ at'[c] \in {"found", "look"}
        /\ UNCHANGED <<state, token, owned[c], auth[c], session[c]>>
        /\ at'[c] = "found" => target'[c] \in Proc /\ state[target'[c]] # "off"
    BY <1>0, <1>2, <2>1 DEF Begin, ClientTypeOK, procVars
  <2>. QED  BY <1>0, <1>2, <2>2 DEF Minds, Begin
<1>3. CASE LookAtFile(c) \/ NoFileFound(c) \/ NoBinary(c)
  <2>1. /\ at'[c] \in {"look", "read", "spawn", "failed"}
        /\ at'[c] = "read" => look'[c] # <<>>
        /\ at[c] \in {"look", "spawn"}
        /\ UNCHANGED <<state, token, owned[c], auth[c], session[c]>>
    BY <1>0, <1>3 DEF LookAtFile, NoFileFound, NoBinary, Moves, ClientTypeOK, procVars
  <2>. QED  BY <1>0, <2>1 DEF Minds
<1>4. CASE ReadFile(c)
  <2>0. Head(look[c]) \in File
    BY <1>0, <1>4 DEF ReadFile, Minds, ClientTypeOK
  <2>1. file[Head(look[c])] \in Proc => state[file[Head(look[c])]] # "off"
    BY <2>0 DEF IInv, FilesAccounted
  <2>2. /\ at'[c] \in {"failed", "spawn", "found"}
        /\ UNCHANGED <<state, token, owned[c], auth[c], session[c]>>
        /\ at'[c] = "found" => target'[c] \in Proc /\ state[target'[c]] # "off"
    BY <1>0, <1>4, <2>1 DEF ReadFile, ClientTypeOK, procVars, Moves
  <2>. QED  BY <1>0, <1>4, <2>2 DEF Minds, ReadFile
<1>5. CASE CheckToken(c)
  <2>1. CASE at'[c] = "failed" /\ UNCHANGED <<auth, session, owned>>
    BY <1>0, <1>5, <2>1 DEF Minds, CheckToken, procVars
  <2>2. CASE at'[c] = "ping" /\ AdoptToken(c, token[target[c]]) /\ owned'[c] = FALSE
    BY <1>0, <1>5, <2>2 DEF Minds, CheckToken, procVars, AdoptToken, ClientTypeOK
  <2>. QED  BY <1>0, <1>5, <2>1, <2>2 DEF CheckToken, ClientTypeOK
<1>6. CASE PingOk(c)
  <2>1. /\ at[c] = "ping" /\ at'[c] = "use" /\ Authorised(c, target[c])
        /\ UNCHANGED <<state, token, target[c], owned[c], auth[c], session[c]>>
    BY <1>0, <1>6 DEF PingOk, Moves, ClientTypeOK, procVars
  <2>. QED  BY <1>0, <2>1 DEF Minds, Authorised
<1>7. CASE PingFails(c)
  <2>1. /\ at[c] = "ping" /\ at'[c] = "spawn"
        /\ UNCHANGED <<state, token, target[c], auth[c], session[c]>>
    BY <1>0, <1>7 DEF PingFails, ClientTypeOK, procVars
  <2>. QED  BY <1>0, <2>1 DEF Minds
<1>8. CASE Spawn(c)
  <2>1. /\ at'[c] = "await" /\ state'[c] = "starting"
        /\ token'[c] = auth[c] /\ owned'[c] = (c \notin Daemon)
        /\ UNCHANGED <<auth, session>>
    BY <1>0, <1>8 DEF Spawn, ProcTypeOK, ClientTypeOK
  <2>. QED  BY <1>0, <2>1 DEF Minds
<1>9. CASE Await(c) \/ Finish(c)
  <2>1. /\ at[c] \in {"await", "use"} /\ at'[c] \in {"use", Leave(c)}
        /\ UNCHANGED <<state, token, owned[c], auth[c], session[c]>>
        /\ IF at'[c] = "use" THEN at[c] = "await" /\ target'[c] = c
                             ELSE target'[c] = target[c]
    BY <1>0, <1>9 DEF Await, Finish, Leave, Moves, ClientTypeOK, procVars
  <2>. QED  BY <1>0, <2>1 DEF Minds, Authorised, Leave
<1>10. CASE Stop(c) \/ Reap(c) \/ KillSpawned(c)
  <2>1. /\ at[c] \in {"stop", "abort", "reap"} /\ at'[c] \in {"reap", "gone"}
        /\ UNCHANGED <<owned[c], auth[c], session[c]>>
        /\ at'[c] = "gone" => state'[c] \in Dead
    BY <1>0, <1>10 DEF Stop, Reap, KillSpawned, Ends, Dead, Moves, ProcTypeOK, ClientTypeOK, procVars
  <2>. QED  BY <1>0, <1>a, <2>1 DEF Minds
<1>11. CASE CtrlC(c) \/ CrashClient(c)
  <2>1. /\ \/ /\ at'[c] = Leave(c)
              /\ at[c] \in {"look", "read", "found", "ping", "spawn", "await", "use"}
           \/ at'[c] = "crashed"
        /\ UNCHANGED <<target[c], owned[c], auth[c], session[c]>>
    BY <1>0, <1>11 DEF CtrlC, CrashClient, Moves, ClientTypeOK, Place
  <2>2. state[c] = "off" => state'[c] = "off"
    BY <1>0, <1>11, StateSteps DEF CtrlC, CrashClient, Spawn, Moves, ClientTypeOK, Leave
  <2>. QED  BY <1>0, <1>a, <2>1, <2>2 DEF Minds, Leave
<1>. QED
  BY <1>1, <1>2, <1>3, <1>4, <1>5, <1>6, <1>7, <1>8, <1>9, <1>10, <1>11, ClientSteps DEF ClientStep

-------------------------------------------------------------------------------
(* The theorems *)

LEMMA NextIInv == IInv /\ [Next]_vars => IInv'
<1> SUFFICES ASSUME IInv, [Next]_vars  PROVE IInv'
  OBVIOUS
<1>1. TypeOK'
  BY ProcTypeStep, ClientTypeStep DEF TypeOK
<1>2. DownIsIdle' /\ WritesComeFirst'
  BY SoundStep DEF DownIsIdle, WritesComeFirst, Sound
<1>3. FilesAccounted'
  BY FilesAccountedStep DEF FilesAccounted, Accounted
<1>4. (\A c \in Client : Minds(c))'
  BY MindsStep
<1>5. (StartedOnce /\ OwnersStop /\ TokensSent /\ OwnedGatewayGone /\ ClientAuthorised)'
  BY <1>4 DEF Minds, StartedOnce, OwnersStop, TokensSent, OwnedGatewayGone, ClientAuthorised
<1>. QED  BY <1>1, <1>2, <1>3, <1>5 DEF IInv

\* The inductive invariant holds for any number of gateways, clients, files and tokens,
\* whatever is interrupted, killed or crashes (main.go:70-157, gateway.py:38-175).
THEOREM Invariance == Spec => []IInv
BY InitIInv, NextIInv, PTL DEF Spec

\* Every variable keeps its type.
THEOREM TypeCorrect == Spec => []TypeOK
BY Invariance, PTL DEF IInv

\* A client that ended by itself or by Ctrl+C leaves no gateway of its own behind.
THEOREM OwnersCleanUp == Spec => []OwnedGatewayGone
BY Invariance, PTL DEF IInv

\* No discovery file names a gateway that shut down in order, though two sequences may
\* have removed its files at once.
THEOREM FilesGoWithGateways == Spec => []NoStaleFile
<1>1. IInv => NoStaleFile
  BY DEF IInv, FilesAccounted, NoStaleFile
<1>. QED  BY <1>1, Invariance, PTL

\* Whatever gateway a client ended up with accepts its requests.
THEOREM ClientsAuthorised == Spec => []ClientAuthorised
BY Invariance, PTL DEF IInv

\* Only a client that has not read the port of the gateway it spawned asks a resident
\* gateway to stop, the one it had found before, and no client kills one.
THEOREM ResidentsStay == Spec => DaemonOutlivesClients
<1> DEFINE A == \A c \in Client, p \in Resident \cup Daemon :
                  (Stop(c) \/ KillSpawned(c)) /\ Disturbed(p) =>
                      at[c] = "abort" /\ target[c] = p
<1>1. IInv /\ [Next]_vars => A
  <2> SUFFICES ASSUME IInv, NEW p \in Resident \cup Daemon, NEW c \in Client,
                      Stop(c) \/ KillSpawned(c), Disturbed(p)
               PROVE  at[c] = "abort" /\ target[c] = p
    OBVIOUS
  <2>1. c \notin Daemon /\ p # c /\ ProcTypeOK /\ ClientTypeOK
    BY LifeAssumption DEF Stop, KillSpawned, IInv, OwnersStop, TypeOK
  <2>2. p \in Proc /\ c \in Proc
    BY LifeAssumption DEF Proc
  <2>3. CASE Stop(c)
    <3>1. target[c] = p
      BY <2>1, <2>2, <2>3, ShutdownCases
         DEF Stop, BeginCleanup, Disturbed, Up, ProcTypeOK, ClientTypeOK, procVars
    <3>. QED  BY <2>1, <2>3, <3>1 DEF Stop, IInv, StartedOnce
  <2>4. CASE KillSpawned(c)
    BY <2>1, <2>2, <2>4 DEF KillSpawned, Ends, Disturbed, Up, ProcTypeOK
  <2>. QED  BY <2>3, <2>4
<1>. QED  BY <1>1, Invariance, PTL DEF Spec, DaemonOutlivesClients
================================================================================
