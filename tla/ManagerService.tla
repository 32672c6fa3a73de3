--------------------------- MODULE ManagerService ---------------------------
(***************************************************************************)
(* The manager at work: the daemon, whose web server has a thread per      *)
(* request (WebServer, ApiRouter), and a command line beside it (main.cpp), *)
(* both with a depot key store of their own.  They meet in the script      *)
(* directory (ScriptLists), the settings (ConfigFile) and the cache file   *)
(* of the depot keys (DepotKeys).                                          *)
(*                                                                         *)
(* A request that no handler changes state for, or that is refused, is     *)
(* left out.  A command has one thread.                                    *)
(***************************************************************************)
EXTENDS ScriptLists, DepotKeys, ConfigFile

CONSTANTS
  Daemon,      \* the process with the web server
  MaxClients,  \* kMaxConcurrentClients
  AppDepots,   \* the depots of the games that are not shared
  Known,       \* games with a script at the beginning
  MaxRequests  \* bound on requests and commands

ASSUME ServiceAssumption ==
  /\ Owners = Procs /\ Daemon \in Procs /\ MaxClients \in Nat /\ MaxRequests \in Nat
  /\ Savers = {t \in Threads : In[t] = Daemon}

VARIABLES
  at,       \* where a thread is
  game,     \* the game of a thread's unlock
  keys,     \* the keys it found
  served    \* how many requests there were

vars == <<listVars, depotVars, configVars, at, game, keys, served>>

Init ==
  /\ ListInit(Known) /\ DepotInit /\ ConfigInit
  /\ at = [t \in Threads |-> "idle"] /\ game = [t \in Threads |-> NoName]
  /\ keys = [t \in Threads |-> {}] /\ served = 0

Goes(t, from, to) == at[t] = from /\ at' = [at EXCEPT ![t] = to]

\* g_activeClients: a thread counts until it has answered.
ActiveClients == Cardinality({t \in Threads : In[t] = Daemon /\ at[t] # "idle"})

Kinds == {"list", "unlock", "toggle", "delete", "config"}

\* The accept thread; a connection beyond the limit is closed.  The daemon
\* listens once its depot keys are there; it has no other commands.
AcceptRequest(t) ==
  /\ In[t] = Daemon /\ phase[Daemon] = "up" /\ ActiveClients < MaxClients
  /\ served < MaxRequests /\ served' = served + 1
  /\ \E k \in Kinds : Goes(t, "idle", k)
  /\ UNCHANGED <<listVars, depotVars, configVars, game, keys>>

\* A command: unlock reads the depot keys first, toggle and remove do not.
RunCommand(t) ==
  /\ In[t] # Daemon /\ served < MaxRequests /\ served' = served + 1
  /\ \/ phase[In[t]] = "up" /\ Goes(t, "idle", "unlock")
     \/ phase[In[t]] = "start" /\ \E k \in {"toggle", "delete"} : Goes(t, "idle", k)
  /\ UNCHANGED <<listVars, depotVars, configVars, game, keys>>

\* GET /api/scripts and /api/status.
ListScripts(t) ==
  /\ \/ Goes(t, "list", "look") /\ ReadTime(t)
     \/ Hit(t) /\ Goes(t, "look", "idle") /\ Answer(t)
     \/ ~Hit(t) /\ Goes(t, "look", "store") /\ Scan(t)
     \/ Goes(t, "store", "idle") /\ Store(t)
  /\ UNCHANGED <<depotVars, configVars, game, keys, served>>

\* POST /api/unlock, the unlock command: the store is asked for the keys, under
\* its mutex; a failure to open the script ends it.
Unlock(t) ==
  /\ \/ /\ Goes(t, "unlock", "open") /\ MayLookUp(In[t])
        /\ \E g \in Games \ Nested :
             /\ game' = [game EXCEPT ![t] = g]
             /\ keys' = [keys EXCEPT ![t] = FindKeysForDepotIds(In[t], AppDepots[g])]
        /\ UNCHANGED listVars
     \/ /\ \/ Goes(t, "open", "drop") /\ OpenScript(t, game[t])
           \/ Goes(t, "drop", "close") /\ DropListing(t, game[t])
        /\ UNCHANGED <<game, keys>>
     \/ /\ \/ Goes(t, "open", "idle") /\ UNCHANGED listVars
           \/ Goes(t, "close", "idle") /\ CloseScript(t, keys[t])
        /\ game' = [game EXCEPT ![t] = NoName] /\ keys' = [keys EXCEPT ![t] = {}]
  /\ UNCHANGED <<depotVars, configVars, served>>

\* POST /api/toggle and /api/delete: a name that has no file, or is already as
\* wanted, is left alone.
Change(t) ==
  /\ \/ /\ at[t] \in {"toggle", "delete"} /\ at' = [at EXCEPT ![t] = "idle"] /\ UNCHANGED listVars
     \/ Goes(t, "toggle", "forget") /\ \E n \in Names : Rename(t, n)
     \/ Goes(t, "delete", "forget") /\ \E n \in Names : Remove(t, n)
     \/ Goes(t, "forget", "idle") /\ Forget(t)
  /\ UNCHANGED <<depotVars, configVars, game, keys, served>>

Configuring == {"temp", "write", "rename", "copy"}

\* POST /api/cloud/config; a stream that does not open ends it.
Configure(t) ==
  /\ \/ /\ Goes(t, "config", "temp")
        /\ \E c \in Changes : BeginChange(t, c, \A u \in Savers : at[u] \notin Configuring)
     \/ Goes(t, "temp", "write") /\ OpenTemp(t)
     \/ Goes(t, "temp", "idle") /\ CannotOpen(t)
     \/ Goes(t, "write", "rename") /\ Write(t)
     \/ Goes(t, "rename", "idle") /\ (RenameTemp(t) \/ CannotSave(t))
     \/ Goes(t, "rename", "copy") /\ BeginCopy(t)
     \/ Goes(t, "copy", "idle") /\ (EndCopy(t) \/ FailCopy(t))
  /\ UNCHANGED <<listVars, depotVars, game, keys, served>>

\* The process is killed, or ends by itself: its threads are not waited for.
Exit(p) ==
  /\ EndProcess(p) /\ ListEnds(p)
  /\ IF p = Daemon THEN ConfigEnds ELSE UNCHANGED configVars
  /\ at' = [t \in Threads |-> IF In[t] = p THEN "idle" ELSE at[t]]
  /\ game' = [t \in Threads |-> IF In[t] = p THEN NoName ELSE game[t]]
  /\ keys' = [t \in Threads |-> IF In[t] = p THEN {} ELSE keys[t]]
  /\ UNCHANGED served

StoreStep == DepotStep /\ UNCHANGED <<listVars, configVars, at, game, keys, served>>

Next ==
  \/ \E t \in Threads :
       \/ AcceptRequest(t) \/ RunCommand(t) \/ ListScripts(t) \/ Unlock(t)
       \/ Change(t) \/ Configure(t)
  \/ \E p \in Procs : Exit(p)
  \/ StoreStep

Spec == Init /\ [][Next]_vars

-----------------------------------------------------------------------------
(* Properties *)

TypeOK ==
  /\ DepotTypeOK
  /\ at \in [Threads -> Kinds \cup {"idle", "look", "store", "open", "drop", "close", "forget"}
                              \cup Configuring]
  /\ time \in 0 .. MaxChanges /\ served \in 0 .. MaxRequests /\ manifests \subseteq Games
  /\ outs \in [Threads -> Names \cup {NoName}]
  /\ opened \in [Savers -> {"none", "conf", "tmp", "copy"}]

\* A listing that a process keeps and would answer with is the directory as it
\* is, however listings, toggles and removals of all threads and processes
\* interleave, once the own process's invalidations are through.  Excepted is a
\* listing that was cut by an exception, that was made during a save or a change
\* in a subdirectory, or that another process has outdated by one of these: the
\* cached time says nothing of a file's text nor of what is below the directory.
ListIsCurrent ==
  \A p \in Procs :
    LET c == caches[p]
    IN (/\ c.kept /\ c.sure /\ c.time = time
        /\ \A t \in Threads : In[t] = p => at[t] \notin {"drop", "forget"}) => c.list = files

\* As long as requests to change settings come one after the other and no write
\* fails, the file has every setting that was acknowledged, in full, wherever
\* the daemon was killed and whatever the temporary file was left with.  That
\* does not hold while the temporary file is copied for want of a rename, nor
\* after a kill or a failure in the middle of that.
SettingsStay ==
  (~crossed /\ ~hurt /\ \A t \in Savers : opened[t] # "copy") =>
    ReadConfig = promised /\ conf.is \in {"missing", "whole"}

\* Every script has the keys of one whole database and of config.vdf for its
\* game, or config.vdf's alone, though the store is replaced while requests run
\* and processes die over its cache file.
ScriptKeysAreWhole ==
  KeysAreWhole /\
  \A n \in Names : files[n].is = "script" =>
    \/ files[n].keys \in {{}, Local \cap AppDepots[n[1]]}
    \/ \E d \in Dbs : files[n].keys = (Content[d] \cup Local) \cap AppDepots[n[1]]
=============================================================================
