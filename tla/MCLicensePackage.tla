-------------------------- MODULE MCLicensePackage --------------------------
(* Instances of LicensePackage for TLC: ids are small numbers. *)
EXTENDS LicensePackage

\* 1 a base game, 2 its DLC, 3 native in Package 0, 4 a redistributable.
MCDlcOf == [b \in {1} |-> {2, 4}]
NoDlc   == [b \in {} |-> {}]

\* Nothing, or the game with a key and an app that Steam has anyway.
MCConfigs == { [apps |-> {}, depots |-> {}],
               [apps |-> {1, 3}, depots |-> {1}] }
=============================================================================
