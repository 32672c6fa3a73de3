----------------------------- MODULE RichPresence -----------------------------
(***************************************************************************)
(* Rich presence (Hooks_NetPacket.cpp): the send hook follows the game the *)
(* client reports as topmost and its presence texts; the receive hook      *)
(* keeps the last state of our own account as a template, puts the game    *)
(* into such states as they pass, and injects one made by the send hook.   *)
(*                                                                         *)
(* Both hooks use g_RPMutex, a std::mutex.  TrackRPStateSend holds it      *)
(* while it calls BuildRPInject, whose PatchPersonaStateBody locks it      *)
(* again.  That is undefined: the thread waits for itself, or the library  *)
(* throws and the hook is left without having done its work.               *)
(***************************************************************************)
EXTENDS Naturals

CONSTANTS
  Apps,     \* games the client may report
  Tracked,  \* those the configuration holds, 480 never being one
  NoApp,    \* no game, and not one of Apps
  MaxTexts  \* bound on the versions of a game's texts

Games  == Apps \cup {NoApp}
Texts  == 0 .. MaxTexts
States == [game : Games, text : Texts]  \* of our own account, as friends see it

VARIABLES
  lock,       \* the thread that holds g_RPMutex
  send, recv, \* where the threads are in their hooks
  wanted,     \* the game a state is to be built for
  localId,    \* g_RPLocalSteamId is known
  playing,    \* g_RPPlayingAppId
  template,   \* g_RPHaveSelfTemplate
  pending,    \* g_RPInjectPending
  inject,     \* the state in g_RPInjectPkt
  texts,      \* g_RPKvsByAppId
  shown       \* the state the client shows

vars == <<lock, send, recv, wanted, localId, playing, template, pending, inject, texts, shown>>

Init ==
  /\ lock = "free" /\ send = "idle" /\ recv = "idle" /\ wanted = NoApp
  /\ localId = FALSE /\ playing = NoApp /\ template = FALSE
  /\ pending = FALSE /\ inject = [game |-> NoApp, text |-> 0]
  /\ texts = [a \in Games |-> 0]
  /\ shown = [game |-> NoApp, text |-> 0]

\* PatchPersonaStateBody: the state of the template, for a game.
StateFor(a) == [game |-> a, text |-> IF a = NoApp THEN 0 ELSE texts'[a]]

\* TrackRPStateSend, under the mutex: nothing to build, or on to BuildRPInject,
\* which wants a template.
TrackEnds(build, a) ==
  IF build /\ template
  THEN send' = "relock" /\ lock' = "send" /\ wanted' = a
  ELSE send' = "idle" /\ UNCHANGED <<lock, wanted>>

\* The client reports its topmost game; own = the header names our account.
GamesPlayed(top, own) ==
  /\ send = "idle" /\ lock = "free"
  /\ localId' = (localId \/ own)
  /\ IF ~localId'
     THEN UNCHANGED <<playing, send, lock, wanted>>
     ELSE LET tracked == IF top \in Tracked THEN top ELSE NoApp
          IN /\ playing' = tracked
             /\ TrackEnds(tracked # NoApp \/ top = NoApp, tracked)
  /\ UNCHANGED <<recv, template, pending, inject, texts, shown>>

\* The game uploads its presence texts.
Upload(own) ==
  /\ send = "idle" /\ lock = "free"
  /\ localId' = (localId \/ own)
  /\ IF ~localId' \/ playing = NoApp
     THEN UNCHANGED <<texts, send, lock, wanted>>
     ELSE /\ texts[playing] < MaxTexts
          /\ texts' = [texts EXCEPT ![playing] = @ + 1]
          /\ TrackEnds(TRUE, playing)
  /\ UNCHANGED <<recv, playing, template, pending, inject, shown>>

\* The second lock of a mutex the thread holds: no step at all, or an exception
\* that unwinds the hook.
RelockThrows ==
  /\ send = "relock" /\ send' = "idle" /\ lock' = "free"
  /\ UNCHANGED <<recv, wanted, localId, playing, template, pending, inject, texts, shown>>

\* PatchPersonaStateBody and the end of BuildRPInject, could the lock be taken.
BuildInject ==
  /\ send = "relock" /\ lock = "free"
  /\ UNCHANGED texts
  /\ inject' = StateFor(wanted) /\ pending' = TRUE /\ send' = "idle"
  /\ UNCHANGED <<lock, recv, wanted, localId, playing, template, shown>>

(* The receive hook. *)

\* A packet arrives; the state that waits is taken, TryDeliverRPInject.
Receive ==
  /\ recv = "idle" /\ lock = "free"
  /\ pending' = FALSE
  /\ shown' = IF pending THEN inject ELSE shown
  /\ recv' = "packet"
  /\ UNCHANGED <<lock, send, wanted, localId, playing, template, inject, texts>>

\* The packet is no state of our account, or our account is not known yet.
OtherPacket ==
  /\ recv = "packet" /\ recv' = "idle"
  /\ UNCHANGED <<lock, send, wanted, localId, playing, template, pending, inject, texts, shown>>

\* HandlePersonaStateRecv: the state becomes the template, under the mutex.
SelfPacket ==
  /\ recv = "packet" /\ lock = "free" /\ localId
  /\ template' = TRUE /\ recv' = "self"
  /\ UNCHANGED <<lock, send, wanted, localId, playing, pending, inject, texts, shown>>

\* g_RPPlayingAppId, read without the mutex, decides whether it is patched.
ShowSelf ==
  /\ recv = "self" /\ recv' = "idle"
  /\ UNCHANGED texts
  /\ \/ playing = NoApp /\ shown' = StateFor(NoApp)
     \/ playing # NoApp /\ lock = "free" /\ shown' = StateFor(playing)
  /\ UNCHANGED <<lock, send, wanted, localId, playing, template, pending, inject>>

Next ==
  \/ \E top \in Games, own \in BOOLEAN : GamesPlayed(top, own)
  \/ \E own \in BOOLEAN : Upload(own)
  \/ RelockThrows \/ BuildInject \/ Receive \/ OtherPacket \/ SelfPacket \/ ShowSelf

\* Packets keep arriving, and neither hook stops while it can go on; whether
\* the library throws is not up to fairness.
Fairness == WF_vars(BuildInject) /\ WF_vars(Receive) /\ WF_vars(OtherPacket) /\ WF_vars(ShowSelf)

FairSpec == Init /\ [][Next]_vars /\ Fairness

TypeOK ==
  /\ lock \in {"free", "send"} /\ send \in {"idle", "relock"}
  /\ recv \in {"idle", "packet", "self"} /\ wanted \in Games /\ playing \in Games
  /\ {localId, template, pending} \subseteq BOOLEAN
  /\ inject \in States /\ shown \in States /\ texts \in [Games -> Texts]

\* Once a state of our account was seen, a tracked topmost game comes to be
\* shown (the comment on the send hook: topmost game and texts "feed the
\* manufactured self-PersonaState injected on the receive path").
TopmostIsShown ==
  \A a \in Tracked : (template /\ playing = a) ~> (shown.game = a \/ playing # a)
=============================================================================
