----------------------------- MODULE LuaScripts -----------------------------
(***************************************************************************)
(* The data of the unlock configuration: what a Lua unlock script does to  *)
(* one LuaData slot (src/Utils/Config/LuaConfig.cpp).  A script is the     *)
(* sequence of API calls it makes; the byte contents of keys and tokens    *)
(* are abstract values.  An absent file is the empty script: neither calls *)
(* anything.                                                               *)
(***************************************************************************)
EXTENDS Naturals, Sequences

CONSTANTS
  Ids,        \* app and depot ids
  Values,     \* access tokens, manifest gids, ...: any value set per id
  NoValue,    \* the id has no entry in the map
  Scripts     \* the contents a script file can have

Call == [op : {"unlock", "key", "token", "raise"}, id : Ids, val : Values]

LuaData == [unlocked : SUBSET Ids,
            keys     : SUBSET Ids,
            tokens   : [Ids -> Values \cup {NoValue}]]

EmptyData == [unlocked |-> {}, keys |-> {}, tokens |-> [i \in Ids |-> NoValue]]

ASSUME ScriptsAssumption ==
  /\ Scripts \subseteq Seq(Call)
  /\ << >> \in Scripts
  /\ NoValue \notin Values

-----------------------------------------------------------------------------
\* addappid registers an unlock; with a key it is a decryption key AND an
\* unlock.  The per-id setters overwrite.
Unlocks(c) == c.op \in {"unlock", "key"}

Apply(data, c) ==
  [unlocked |-> IF Unlocks(c)     THEN data.unlocked \cup {c.id} ELSE data.unlocked,
   keys     |-> IF c.op = "key"   THEN data.keys \cup {c.id}     ELSE data.keys,
   tokens   |-> IF c.op = "token" THEN [data.tokens EXCEPT ![c.id] = c.val]
                                  ELSE data.tokens]

\* A Lua error ends the script; the calls before it keep their effect.
Ran(s) == {i \in 1 .. Len(s) : \A j \in 1 .. i : s[j].op # "raise"}

UnlockedIn(s, I) == {s[i].id : i \in {j \in I : Unlocks(s[j])}}
KeysIn(s, I)     == {s[i].id : i \in {j \in I : s[j].op = "key"}}

\* The last value the script gives to id, as a set with at most one element.
LastToken(s, id) ==
  LET at == {i \in Ran(s) : s[i].op = "token" /\ s[i].id = id}
  IN  {s[i].val : i \in {j \in at : \A k \in at : k <= j}}

=============================================================================
