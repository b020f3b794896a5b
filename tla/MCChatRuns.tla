---------------------------- MODULE MCChatRuns ----------------------------
(* Bounds for TLC.  A behaviour stays in one of three corners: two browsers *)
(* that view one run, one browser whose question is offered again, and one  *)
(* browser that goes through two runs.  A socket is lost or the server      *)
(* restarts in each, in the first not beside a second offer.  The corners   *)
(* block requests, the world's steps and the connection of the browser that *)
(* stays away, so that they take nothing from the fairness of the rest.     *)
EXTENDS ChatRunsProperties

CONSTANTS
  Main,     \* the browser that is alone in two of the corners
  MaxAsked  \* bound: requests of both browsers in the first corner

VARIABLE corner

Other == CHOOSE b \in Browsers : b # Main
Asked == browser'[Main].asked + browser'[Other].asked
Sendings == Len(run') + Sent(Main)' + Sent(Other)'

Refused(b) == Send(b) /\ run' = run

Viewing ==
  /\ Sendings <= 1 /\ Asked <= MaxAsked
  /\ \A b \in Browsers :
       /\ ~AskSubscribe(b) /\ ~AskAbort(b) /\ ~Refused(b)
       /\ browser[b].owes => browser'[b].asked = browser[b].asked
  /\ (\E g \in DOMAIN run' : Offers(g)' > 1) => drops' = 0
  /\ ~Close(Other) /\ ~Restart

Offering ==
  /\ browser'[Other] = NewBrowser
  /\ Sendings <= 1
  /\ ~AskSubscribe(Main) /\ ~AskAbort(Main)

Returning ==
  /\ browser'[Other] = NewBrowser
  /\ AskSubscribe(Main) => Len(run) = 1 /\ drops = 0
  /\ \A g \in DOMAIN run : ~ModelUnknown(g) /\ ~Withdraw(g) /\ ~Reoffer(g)
  /\ \A g \in DOMAIN run' : ~(Len(run'[g].events) = 2 /\ run'[g].events[2] \in {"text", "ask"})

CornerInit ==
  /\ Init
  /\ corner \in {"viewing", "offering", "returning"}

CornerSpec ==
  /\ CornerInit
  /\ [][/\ Next
        /\ corner = "viewing" => Viewing
        /\ corner = "offering" => Offering
        /\ corner = "returning" => Returning
        /\ UNCHANGED corner]_<<vars, corner>>
  /\ Delivery /\ Settlement /\ Reconnection(Main)
  /\ WF_vars(corner = "viewing" /\ Reconnect(Other))
=============================================================================
