------------------------------- MODULE Hiring -------------------------------
(***************************************************************************)
(* One candidate from the offer to the employee account.                   *)
(*                                                                         *)
(* HR works from a dialog drawn from what it last read (HireActions.tsx,   *)
(* CandidateDetailDialog.tsx), the candidate from a page behind a secret   *)
(* link (offer/[token]/page.tsx).  Every press is a request that reads the *)
(* offer and the candidate, decides on what it read and then writes in one *)
(* transaction, without a lock (recruitment/hiring.py): another request    *)
(* may commit in between.  The stages a person is moved through by hand    *)
(* are two here, before and after the offer buttons appear.                *)
(* The parts of the specification are named after the module, for          *)
(* EmploymentProofs extends it beside Standing.                            *)
(***************************************************************************)
EXTENDS Integers, FiniteSets

CONSTANTS
    Requests,    \* requests the server handles at once
    Nothing,     \* a slot with no request
    MaxMoves     \* stage moves and other edits of the candidate

ASSUME HiringAssumption == MaxMoves \in Nat

Open == {"draft", "sent"}                           \* Offer.is_open
Answered == {"accepted", "declined", "expired"}
OfferStatus == Open \cup Answered \cup {"none"}     \* none: no offer row
StagesByHand == {"early", "talks", "hired", "rejected"}   \* STAGE_ORDER
Stages == StagesByHand \cup {"declined"}
\* The dialog draws the offer buttons from the interview stage on.
HireStages == {"talks", "hired"}

VARIABLES
    offer,      \* Offer.status
    lapsed,     \* Offer.expires_on has passed
    stage,      \* Candidate.stage
    accounts,   \* employees with their logins, hired from this candidate
    page,       \* the candidate's page: the status it shows, its buttons
    screen,     \* the offer and the stage HR's dialog is drawn from
    req,        \* the requests in progress, with what each has read
    moves,
    moved,      \* ghost: somebody set the stage to hired, or set it once the
                \* offer had been answered
    crossed     \* ghost: a request wrote over what it had not read

hiringVars ==
    <<offer, lapsed, stage, accounts, page, screen, req, moves, moved, crossed>>

Kinds == {"draft", "send", "accept", "decline", "convert", "edit", "move",
          "reply accept", "reply decline"}

\* What a request is for, the stage it is to set, and what it has read.
Readings == [kind : Kinds, to : Stages, offer : OfferStatus,
             lapsed : BOOLEAN, stage : Stages, made : BOOLEAN]

HiringTypeOK ==
    /\ offer \in OfferStatus
    /\ lapsed \in BOOLEAN
    /\ stage \in Stages
    /\ accounts \in Nat
    /\ page \in [shown : OfferStatus, can : BOOLEAN, busy : BOOLEAN]
    /\ screen \in [offer : OfferStatus, stage : Stages]
    /\ req \in [Requests -> {Nothing} \cup Readings]
    /\ moves \in 0 .. MaxMoves
    /\ moved \in BOOLEAN /\ crossed \in BOOLEAN

HiringInit ==
    /\ offer = "none"
    /\ lapsed = FALSE
    /\ stage = "early"
    /\ accounts = 0
    /\ page = [shown |-> "none", can |-> FALSE, busy |-> FALSE]
    /\ screen = [offer |-> "none", stage |-> "early"]
    /\ req = [q \in Requests |-> Nothing]
    /\ moves = 0
    /\ moved = FALSE /\ crossed = FALSE

-----------------------------------------------------------------------------
(* What is pressed, and what the request reads.                            *)

\* The request arrives and reads the offer, the candidate and the employee.
Begin(q, kind, to) ==
    /\ req[q] = Nothing
    /\ req' = [req EXCEPT ![q] =
                  [kind |-> kind, to |-> to, offer |-> offer,
                   lapsed |-> lapsed, stage |-> stage, made |-> accounts > 0]]

\* The buttons of HireActions.
Offered(kind) ==
    /\ screen.stage \in HireStages
    /\ \/ kind = "draft" /\ screen.offer = "none"
       \/ kind = "send" /\ screen.offer = "draft"
       \/ kind \in {"accept", "decline"} /\ screen.offer = "sent"
       \/ kind = "convert" /\ screen.stage = "hired"

Press(q, kind) ==
    /\ Offered(kind)
    /\ Begin(q, kind, stage)
    /\ UNCHANGED <<offer, lapsed, stage, accounts, page, screen, moves, moved,
                   crossed>>

\* A card dragged to a column, a stage chosen, or the candidate disqualified.
Move(q, to) ==
    /\ moves < MaxMoves
    /\ moves' = moves + 1
    /\ Begin(q, "move", to)
    /\ UNCHANGED <<offer, lapsed, stage, accounts, page, screen, moved,
                   crossed>>

\* A rating, an interview date or a resume: the whole row is saved.
Edit(q) ==
    /\ moves < MaxMoves
    /\ moves' = moves + 1
    /\ Begin(q, "edit", stage)
    /\ UNCHANGED <<offer, lapsed, stage, accounts, page, screen, moved,
                   crossed>>

Refresh ==
    /\ screen' = [offer |-> offer, stage |-> stage]
    /\ UNCHANGED <<offer, lapsed, stage, accounts, page, req, moves, moved,
                   crossed>>

\* The link exists once the offer has been sent.
Loaded == [shown |-> offer, can |-> offer \in Open /\ ~lapsed, busy |-> FALSE]

OpenPage ==
    /\ offer \notin {"none", "draft"}
    /\ ~page.busy
    /\ page' = Loaded
    /\ UNCHANGED <<offer, lapsed, stage, accounts, screen, req, moves, moved,
                   crossed>>

Reply(q, kind) ==
    /\ kind \in {"reply accept", "reply decline"}
    /\ page.can
    /\ ~page.busy
    /\ page' = [page EXCEPT !.busy = TRUE]
    /\ Begin(q, kind, stage)
    /\ UNCHANGED <<offer, lapsed, stage, accounts, screen, moves, moved,
                   crossed>>

-----------------------------------------------------------------------------
(* What the request decides from its reading, and writes.                  *)

\* The offer row after an accept; only HR's request records the lapse.
AcceptedOffer(r) ==
    IF r.offer \notin Open THEN offer
    ELSE IF ~r.lapsed THEN "accepted"
    ELSE IF r.kind = "accept" THEN "expired"
    ELSE offer

\* mutant: an answered offer can still be declined
CanDeclineAnswered(r) == r.kind = "decline" \/ ~r.lapsed

\* HR may still record a refusal of an offer that has lapsed.
CanDecline(r) == r.offer \in Open /\ (r.kind = "decline" \/ ~r.lapsed)

\* mutant: whatever has become of the offer
CanSendAgain(r) == TRUE

\* A draft is sent, and an open offer sent again.
CanSend(r) == r.offer \in Open

OfferAfter(r) ==
    CASE r.kind = "draft" -> IF offer = "none" THEN "draft" ELSE offer
      [] r.kind = "send" -> IF CanSend(r) THEN "sent" ELSE offer
      [] r.kind \in {"accept", "reply accept"} -> AcceptedOffer(r)
      [] r.kind \in {"decline", "reply decline"} ->
            IF CanDecline(r) THEN "declined" ELSE offer
      [] OTHER -> offer

\* mutant: the answer is recorded and the candidate stays where they were
StageAfterByHandOnly(r) ==
    CASE r.kind = "move" -> r.to
      [] r.kind = "edit" -> r.stage
      [] OTHER -> stage

\* The candidate moves with the offer; a saved form writes the stage it read.
StageAfter(r) ==
    CASE r.kind \in {"accept", "reply accept"} ->
            IF r.offer \in Open /\ ~r.lapsed THEN "hired" ELSE stage
      [] r.kind \in {"decline", "reply decline"} ->
            IF CanDecline(r) THEN "declined" ELSE stage
      [] r.kind = "move" -> r.to
      [] r.kind = "edit" -> r.stage
      [] OTHER -> stage

\* Refused again by the unique hired_from and username when it is written.
Converts(r) ==
    /\ r.kind = "convert"
    /\ r.stage = "hired"
    /\ ~r.made
    /\ accounts = 0

\* The rows a request of this kind writes have changed since it read them.
Overtaken(r) ==
    \/ r.kind \notin {"draft", "move"} /\ stage # r.stage
    \/ r.kind \notin {"draft", "move", "edit"} /\ offer # r.offer

Write(r) ==
    /\ offer' = OfferAfter(r)
    /\ stage' = StageAfter(r)
    /\ accounts' = accounts + (IF Converts(r) THEN 1 ELSE 0)
    /\ moved' = (moved \/ (r.kind = "move"
                            /\ (r.to = "hired" \/ offer \in Answered)))
    /\ crossed' = (crossed \/ Overtaken(r))

IsReply(r) == r.kind \in {"reply accept", "reply decline"}

\* HR's request, or the candidate's: their page then shows the offer as it is
\* after the write, or keeps what it showed when it was refused.
Finish(q) ==
    /\ req[q] # Nothing
    /\ Write(req[q])
    /\ req' = [req EXCEPT ![q] = Nothing]
    /\ page' = IF ~IsReply(req[q]) THEN page
               ELSE IF req[q].offer \in Open /\ ~req[q].lapsed
               THEN [shown |-> offer', can |-> FALSE, busy |-> FALSE]
               ELSE [page EXCEPT !.busy = FALSE]
    /\ UNCHANGED <<lapsed, screen, moves>>

\* The answer is recorded and the reply is lost: the page asks to try again.
Lose(q) ==
    /\ req[q] # Nothing
    /\ IsReply(req[q])
    /\ Write(req[q])
    /\ req' = [req EXCEPT ![q] = Nothing]
    /\ page' = [page EXCEPT !.busy = FALSE]
    /\ UNCHANGED <<lapsed, screen, moves>>

Lapse ==
    /\ offer # "none"
    /\ ~lapsed
    /\ lapsed' = TRUE
    /\ UNCHANGED <<offer, stage, accounts, page, screen, req, moves, moved,
                   crossed>>

HiringNext ==
    \/ \E q \in Requests :
        \/ \E kind \in {"draft", "send", "accept", "decline", "convert"} :
               Press(q, kind)
        \/ \E to \in StagesByHand : Move(q, to)
        \/ Edit(q)
        \/ \E kind \in {"reply accept", "reply decline"} : Reply(q, kind)
        \/ Finish(q)
        \/ Lose(q)
    \/ Refresh
    \/ OpenPage
    \/ Lapse

HiringSpec == HiringInit /\ [][HiringNext]_hiringVars

-----------------------------------------------------------------------------
(* Properties.                                                             *)

\* What the candidate's page once told them of their answer stays the answer:
\* HR can neither send nor record over it, and a reply that was lost and given
\* again changes nothing.  (Claimed where no two requests crossed.)
AnswerStands == page.shown \in Answered /\ ~crossed => page.shown = offer

\* An accepted offer is a hired candidate and a declined one a candidate who
\* declined, until somebody moves the card by hand.
StageFollowsAnswer ==
    ~moved /\ ~crossed =>
        /\ offer = "accepted" => stage = "hired"
        /\ offer = "declined" => stage = "declined"

\* Nobody gets a login for a job they have not said yes to, if the stage is
\* left to the offer.
LoginMeansYes == accounts > 0 /\ ~moved /\ ~crossed => offer = "accepted"
=============================================================================
