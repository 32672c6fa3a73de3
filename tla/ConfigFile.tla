----------------------------- MODULE ConfigFile -----------------------------
(***************************************************************************)
(* ConfigManager: omnisteam.toml, which the web interface changes by       *)
(* reading it, changing what the request names, and writing all of it to a *)
(* temporary file whose name is the same for every writer.                 *)
(*                                                                         *)
(* Settings are the values of a few fields.  rename replaces a file that   *)
(* is open elsewhere; when it fails, the temporary file is copied over the *)
(* settings.  No write is checked.                                         *)
(***************************************************************************)
CONSTANTS
  Savers,   \* threads that may serve such a request
  Fields, Values,
  Default   \* what ConfigDto has for each field

ASSUME ConfigAssumption == Default \in [Fields -> Values]

\* A file, and the settings it is read as.
Text(is, settings) == [is |-> is, settings |-> settings]
Missing == Text("missing", Default)
Blank   == Text("blank", Default)    \* truncated
Garbled == Text("garbled", Default)  \* one text over a longer one
Whole(settings) == Text("whole", settings)

\* One that was cut: some fields may still be read.
Cuts(settings) ==
  {Text("cut", [f \in Fields |-> IF f \in kept THEN settings[f] ELSE Default[f]]) :
     kept \in SUBSET Fields}

VARIABLES
  conf, tmp,  \* omnisteam.toml and omnisteam.toml.tmp
  opened,     \* which of the two a thread's open stream writes, or that it copies
  dto,        \* the settings it has
  asked,      \* the field its request changes, with the value; or nothing
  promised,   \* ghost: the settings that requests were told are saved
  crossed,    \* ghost: two requests to change settings have overlapped
  hurt        \* ghost: a write has failed, or a copy was cut

configVars == <<conf, tmp, opened, dto, asked, promised, crossed, hurt>>

Changes == {<<>>} \cup (Fields \X Values)

ConfigInit ==
  /\ conf = Missing /\ tmp = Missing
  /\ opened = [t \in Savers |-> "none"] /\ dto = [t \in Savers |-> Default]
  /\ asked = [t \in Savers |-> <<>>] /\ promised = Default
  /\ crossed = FALSE /\ hurt = FALSE

Changed(settings, change) ==
  IF change = <<>> THEN settings ELSE [settings EXCEPT ![change[1]] = change[2]]

\* What does not parse counts as nothing.
ReadConfig == conf.settings

\* The request may arrive without its body, if that takes too long.
BeginChange(t, change, alone) ==
  /\ asked' = [asked EXCEPT ![t] = change]
  /\ dto' = [dto EXCEPT ![t] = Changed(ReadConfig, change)]
  /\ crossed' = (crossed \/ ~alone)
  /\ UNCHANGED <<conf, tmp, opened, promised, hurt>>

(* SaveConfig *)

\* Mutant of OpenTemp: the file itself is opened.
OpenInPlace(t) ==
  /\ conf' = Blank /\ opened' = [opened EXCEPT ![t] = "conf"]
  /\ UNCHANGED <<tmp, dto, asked, promised, crossed, hurt>>

OpenTemp(t) ==
  /\ tmp' = Blank /\ opened' = [opened EXCEPT ![t] = "tmp"]
  /\ UNCHANGED <<conf, dto, asked, promised, crossed, hurt>>

\* What a file holds after a write from its beginning.
Over(text, settings) == {Whole(settings)} \cup (IF text.is = "blank" THEN {} ELSE {Garbled})

\* The text reaches the file, or is cut, which goes unnoticed.
Write(t) ==
  /\ \/ /\ conf' \in (IF opened[t] = "conf" THEN Over(conf, dto[t]) ELSE {conf})
        /\ tmp' \in (IF opened[t] = "tmp" THEN Over(tmp, dto[t]) ELSE {tmp})
        /\ UNCHANGED hurt
     \/ /\ conf' \in (IF opened[t] = "conf" THEN Cuts(dto[t]) ELSE {conf})
        /\ tmp' \in (IF opened[t] = "tmp" THEN Cuts(dto[t]) ELSE {tmp})
        /\ hurt' = TRUE
  /\ opened' = [opened EXCEPT ![t] = "none"]
  /\ UNCHANGED <<dto, asked, promised, crossed>>

\* The request's end.
EndsChange(t) ==
  dto' = [dto EXCEPT ![t] = Default] /\ asked' = [asked EXCEPT ![t] = <<>>]

CannotOpen(t) == EndsChange(t) /\ UNCHANGED <<conf, tmp, opened, promised, crossed, hurt>>

\* The rename.  A stream that is open stays with its file.
RenameTemp(t) ==
  /\ tmp # Missing /\ conf' = tmp /\ tmp' = Missing
  /\ opened' = [u \in Savers |-> IF opened[u] = "tmp" THEN "conf"
                                 ELSE IF opened[u] \in {"conf", "copy"} THEN "none"
                                 ELSE opened[u]]
  /\ promised' = Changed(promised, asked[t])
  /\ EndsChange(t) /\ UNCHANGED <<crossed, hurt>>

\* It fails, and copying begins: the settings are truncated.  Without the
\* temporary file, as when another thread has renamed it, that fails too.
BeginCopy(t) ==
  /\ tmp # Missing /\ conf' = Blank /\ opened' = [opened EXCEPT ![t] = "copy"]
  /\ UNCHANGED <<tmp, dto, asked, promised, crossed, hurt>>

CannotSave(t) ==
  /\ tmp = Missing /\ EndsChange(t) /\ UNCHANGED <<conf, tmp, opened, promised, crossed, hurt>>

\* The copy is there, garbled if another thread writes to either file, and the
\* temporary file goes, ...
Copied(t) ==
  IF opened[t] # "copy" THEN {conf}
  ELSE (IF tmp = Missing THEN {} ELSE {tmp}) \cup
       (IF conf = Blank /\ tmp # Missing /\ \A u \in Savers \ {t} : opened[u] = "none" THEN {}
        ELSE {Garbled})

EndCopy(t) ==
  /\ conf' \in Copied(t) /\ tmp' \in {tmp, Missing}
  /\ opened' = [opened EXCEPT ![t] = "none"] /\ promised' = Changed(promised, asked[t])
  /\ EndsChange(t) /\ UNCHANGED <<crossed, hurt>>

\* ... or it fails half-way, and the request with it.
FailCopy(t) ==
  /\ conf' \in (IF opened[t] = "copy" THEN {Blank} \cup Cuts(tmp.settings) ELSE {conf})
  /\ opened' = [opened EXCEPT ![t] = "none"] /\ hurt' = TRUE
  /\ EndsChange(t) /\ UNCHANGED <<tmp, promised, crossed>>

\* The end of the process, in the middle of a copy maybe.
ConfigEnds ==
  /\ opened' = [t \in Savers |-> "none"]
  /\ IF \E t \in Savers : opened[t] = "copy"
     THEN hurt' = TRUE /\ conf' \in {conf, Blank} \cup Cuts(tmp.settings)
     ELSE UNCHANGED <<conf, hurt>>
  /\ dto' = [t \in Savers |-> Default] /\ asked' = [t \in Savers |-> <<>>]
  /\ UNCHANGED <<tmp, promised, crossed>>
=============================================================================
