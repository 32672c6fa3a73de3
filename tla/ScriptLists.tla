----------------------------- MODULE ScriptLists -----------------------------
(***************************************************************************)
(* ScriptManager: the script files of a Lua directory, and the listing of  *)
(* them that each manager process caches by the directory's modification   *)
(* time.  The operators are the steps of SaveGameUnlock, ListScripts,      *)
(* ToggleScript and DeleteScript; ManagerService puts them in order.       *)
(*                                                                         *)
(* A script is the depot keys it names.  Creating, renaming and removing a *)
(* file changes the directory's time, writing to one does not, and no two  *)
(* changes have the same time.  A listing takes in the subdirectories too, *)
(* where a change leaves that time as it is; nobody saves there.           *)
(*                                                                         *)
(* A listing reads the directory in one step, and may miss some of it.     *)
(* What changes meanwhile gives the directory another time, or makes the   *)
(* listing one that is not sure.                                           *)
(***************************************************************************)
EXTENDS Naturals

CONSTANTS
  Owners,     \* manager processes
  Threads,    \* threads of theirs that serve a request or a command
  In,         \* the process of a thread
  Games,
  Nested,     \* those whose scripts are in a subdirectory
  MaxChanges  \* bound on the changes of the directory

ASSUME ListAssumption ==
  In \in [Threads -> Owners] /\ Nested \subseteq Games /\ MaxChanges \in Nat

Names  == Games \X {"lua", "disabled"}
NoName == <<>>

File(is, keys) == [is |-> is, keys |-> keys]
NoFile == File("none", {})
Empty  == File("empty", {})
Torn   == File("torn", {})
Script(keys) == File("script", keys)

VARIABLES
  files,     \* what each name has
  time,      \* last_write_time of the directory
  caches,    \* g_scriptDirCaches of a process
  seen,      \* what a listing thread has read
  outs,      \* the name under which a thread's open stream is found
  manifests  \* games with an appmanifest in steamapps

listVars == <<files, time, caches, seen, outs, manifests>>

\* `sure`, a ghost: the listing went to its end, no save and no change of a
\* nested script went on while it was made, and no other process has made one
\* since.  What a listing that is not sure has is left open.
Listing(at, list) == [kept |-> TRUE, time |-> at, list |-> list, sure |-> TRUE]
NoList    == [n \in Names |-> NoFile]
NoListing == [kept |-> FALSE, time |-> 0, list |-> NoList, sure |-> TRUE]
Unsure(l) == [l EXCEPT !.list = NoList, !.sure = FALSE]

ListInit(known) ==
  /\ files = [n \in Names |-> IF n[1] \in known /\ n[2] = "lua" THEN Script({}) ELSE NoFile]
  /\ time = 0 /\ caches = [p \in Owners |-> NoListing]
  /\ seen = [t \in Threads |-> NoListing] /\ outs = [t \in Threads |-> NoName]
  /\ manifests = {}

DirectoryChanges == time < MaxChanges /\ time' = time + 1

\* A change by process p that the directory's time does not tell.
TimeHides(p) ==
  /\ seen' = [u \in Threads |-> Unsure(seen[u])]
  /\ caches' = [q \in Owners |-> IF q = p THEN caches[q] ELSE Unsure(caches[q])]

\* InvalidateScriptCache
Invalidate(t) == caches' = [caches EXCEPT ![In[t]] = NoListing]

-----------------------------------------------------------------------------
(* SaveGameUnlock *)

\* The stream truncates the script, or creates it.
OpenScript(t, g) ==
  LET n == <<g, "lua">>
  IN /\ files' = [files EXCEPT ![n] = Empty] /\ outs' = [outs EXCEPT ![t] = n]
     /\ IF files[n] = NoFile THEN DirectoryChanges ELSE UNCHANGED time
     /\ TimeHides(In[t]) /\ UNCHANGED manifests

\* EnsureAppManifest leaves a manifest that is there alone, and may fail.
EnsureAppManifest(g) == manifests' \in {manifests, manifests \cup {g}}

\* The cache goes before the stream is closed, which is at the function's end.
DropListing(t, g) ==
  /\ EnsureAppManifest(g) /\ Invalidate(t) /\ UNCHANGED <<files, time, seen, outs>>

\* The text reaches the file, which may have another name by now, be gone, or
\* hold the longer text of another save.
CloseScript(t, keys) ==
  LET n == outs[t]
  IN /\ IF n = NoName THEN UNCHANGED files
        ELSE \E f \in {Script(keys)} \cup (IF files[n] = Empty THEN {} ELSE {Torn}) :
               files' = [files EXCEPT ![n] = f]
     /\ outs' = [outs EXCEPT ![t] = NoName]
     /\ UNCHANGED <<time, caches, seen, manifests>>

-----------------------------------------------------------------------------
(* ListScripts *)

\* last_write_time, before anything else.
ReadTime(t) ==
  /\ seen' = [seen EXCEPT ![t] = Listing(time, NoList)]
  /\ UNCHANGED <<files, time, caches, outs, manifests>>

\* Under g_cacheMutex.
Hit(t) == caches[In[t]].kept /\ caches[In[t]].time = seen[t].time

Answer(t) ==
  /\ seen' = [seen EXCEPT ![t] = NoListing] /\ UNCHANGED <<files, time, caches, outs, manifests>>

\* A listing of all, or of what came before the iteration threw.
Scan(t) ==
  /\ \E thrown \in BOOLEAN :
       seen' = [seen EXCEPT ![t] =
                  IF @.sure /\ ~thrown /\ \A u \in Threads : outs[u] = NoName
                  THEN [@ EXCEPT !.list = files] ELSE Unsure(@)]
  /\ UNCHANGED <<files, time, caches, outs, manifests>>

\* Mutant of Store: the listing is dated when it is stored.
StoreDatedNow(t) ==
  /\ caches' = [caches EXCEPT ![In[t]] = [seen[t] EXCEPT !.time = time]]
  /\ seen' = [seen EXCEPT ![t] = NoListing] /\ UNCHANGED <<files, time, outs, manifests>>

\* The listing is kept with the time read before the scan, complete or not.
Store(t) ==
  /\ caches' = [caches EXCEPT ![In[t]] = seen[t]]
  /\ seen' = [seen EXCEPT ![t] = NoListing] /\ UNCHANGED <<files, time, outs, manifests>>

-----------------------------------------------------------------------------
(* ToggleScript and DeleteScript; their cache invalidation is a step of its own. *)

Twin(n) == <<n[1], IF n[2] = "lua" THEN "disabled" ELSE "lua">>

\* A change of the directory, or of one below it.
EntryChanges(t, n) ==
  IF n[1] \in Nested THEN TimeHides(In[t]) /\ UNCHANGED time
  ELSE DirectoryChanges /\ UNCHANGED <<caches, seen>>

\* rename, over a twin that is there; open streams follow their file.
Rename(t, n) ==
  LET m == Twin(n)
  IN /\ files[n] # NoFile /\ EntryChanges(t, n)
     /\ files' = [files EXCEPT ![n] = NoFile, ![m] = files[n]]
     /\ outs' = [u \in Threads |-> IF outs[u] = n THEN m
                                   ELSE IF outs[u] = m THEN NoName ELSE outs[u]]
     /\ UNCHANGED manifests

Remove(t, n) ==
  /\ files[n] # NoFile /\ EntryChanges(t, n)
  /\ files' = [files EXCEPT ![n] = NoFile]
  /\ outs' = [u \in Threads |-> IF outs[u] = n THEN NoName ELSE outs[u]]
  /\ UNCHANGED manifests

Forget(t) == Invalidate(t) /\ UNCHANGED <<files, time, seen, outs, manifests>>

\* The end of a process: a script it was writing stays as it is.
ListEnds(p) ==
  /\ caches' = [caches EXCEPT ![p] = NoListing]
  /\ seen' = [t \in Threads |-> IF In[t] = p THEN NoListing ELSE seen[t]]
  /\ outs' = [t \in Threads |-> IF In[t] = p THEN NoName ELSE outs[t]]
  /\ UNCHANGED <<files, time, manifests>>
=============================================================================
