------------------------------- MODULE Tickets -------------------------------
(***************************************************************************)
(* Ownership tickets and the account a game is told it runs for            *)
(* (AppTicket.cpp, and the hook of Hooks_Decryption.cpp that finds the     *)
(* client's store of the user's own tickets).                              *)
(*                                                                         *)
(* Of a ticket only the account in it matters.  Imported tickets carry     *)
(* their owner's; a forged one carries that of the ticket it is made of;   *)
(* some carry the SteamID 0, which is no account.  loginusers.vdf should   *)
(* tell which account is signed in: the client writes it after the         *)
(* sign-in, and it may be unreadable or name another.                      *)
(***************************************************************************)
EXTENDS Naturals, Sequences

CONSTANTS
  Apps, NoApp,
  Accounts, NoAccount,  \* NoAccount: the SteamID 0
  NoTicket,
  FirstUser,  \* the account that is signed in first
  Owner,      \* Owner[a]: the account in tickets imported for app a, if any are
  Legacy,     \* Legacy[c]: that in the ticket of app 7 in c's store, if any
  OwnTickets  \* OwnTickets[c]: those in the tickets of c's localconfig.vdf

ASSUME TicketAssumption ==
  /\ NoApp \notin Apps /\ NoAccount \notin Accounts /\ FirstUser \in Accounts
  /\ NoTicket \notin Accounts \cup {NoAccount}
  /\ DOMAIN Owner \subseteq Apps /\ Owner \in [DOMAIN Owner -> Accounts \cup {NoAccount}]
  /\ Legacy \in [Accounts -> Accounts \cup {NoAccount, NoTicket}]
  /\ OwnTickets \in [Accounts -> Seq(Accounts \cup {NoAccount})]

VARIABLES
  user,       \* the account that is signed in
  recent,     \* the one that loginusers.vdf gives, NoAccount if it gives none
  appTicket,  \* apps with an imported ownership ticket
  eTicket,    \* apps with an imported encrypted ticket
  store       \* g_pConfigStoreLocal: whose store it is

ticketVars == <<user, recent, appTicket, eTicket, store>>

TicketInit ==
  /\ user = FirstUser /\ recent \in {FirstUser, NoAccount}
  /\ appTicket \in SUBSET DOMAIN Owner /\ eTicket \in SUBSET DOMAIN Owner
  /\ store = NoAccount

TicketTypeOK ==
  /\ user \in Accounts /\ recent \in Accounts \cup {NoAccount}
  /\ appTicket \subseteq DOMAIN Owner /\ eTicket \subseteq DOMAIN Owner
  /\ store \in Accounts \cup {NoAccount}

\* GetActiveSteamId64, by ParseMostRecentSteamId64.
ActiveAccount == recent

\* ParseAppTicketHexEntries, of the account's localconfig.vdf.
LocalTickets(c) == IF c = NoAccount THEN <<>> ELSE OwnTickets[c]

\* GetCacheAppOwnershipTicket, for app 7.
CacheTicket == IF store = NoAccount THEN NoTicket ELSE Legacy[store]

\* Mutant of Acceptable: whoever the ticket was issued to.
AcceptableAny(c) == TRUE

\* A ticket of another account is no base, as far as both accounts are known.
Acceptable(c) == NoAccount \in {c, ActiveAccount} \/ c = ActiveAccount

\* PickForgeBase: app 7's ticket first, then the first that will do.
PickForgeBase ==
  LET local == LocalTickets(ActiveAccount)
      good  == {i \in DOMAIN local : Acceptable(local[i])}
  IN IF CacheTicket # NoTicket /\ Acceptable(CacheTicket) THEN CacheTicket
     ELSE IF good # {} THEN local[CHOOSE i \in good : \A j \in good : i <= j]
     ELSE NoTicket

\* GetAppOwnershipTicket: the imported ticket, or one forged from the base.
GetAppOwnershipTicket(a) == IF a \in appTicket THEN Owner[a] ELSE PickForgeBase

\* GetSpoofSteamID, for an app of the configuration or another.
GetSpoofSteamID(a, configured) ==
  IF a \in configured \cap (appTicket \cup eTicket) THEN Owner[a] ELSE NoAccount

\* ConfigStoreGetBinary: the first local store that is used is kept.
ConfigStoreGetBinary ==
  /\ store = NoAccount /\ store' = user
  /\ UNCHANGED <<user, recent, appTicket, eTicket>>

\* Another account signs in; loginusers.vdf still names the one before.
SignIn(c) ==
  /\ c # user /\ user' = c
  /\ UNCHANGED <<recent, appTicket, eTicket, store>>

\* loginusers.vdf is written by the client, cannot be read, or names another
\* account for want of a most recent one.
RecordLogin(c) ==
  /\ c # recent /\ recent' = c
  /\ UNCHANGED <<user, appTicket, eTicket, store>>
=============================================================================
