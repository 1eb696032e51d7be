----------------------------- MODULE MCTradeDesk -----------------------------
(* Small instances of five parts: clarification requests, the review of an   *)
(* e-mail, quote approval, an agent's turn, and product queries. Each keeps  *)
(* tables of its own; a behaviour moves the part in focus and leaves the     *)
(* others as they began, so the run is the five instances one after another. *)
EXTENDS Clarification, EmailReview, QuoteApproval, AgentTurn, CustomerProduct, TLC

CONSTANTS m1, a, b, c1, c2
VARIABLE focus

Node(s, parts, quoted) == [status |-> s, parts |-> parts, quoted |-> quoted]
Text(s, v, quoted) == Node(s, [value |-> v], quoted)
Full == [country |-> Text("extracted", "mail", TRUE), email |-> Text("pending", "none", FALSE),
         term |-> Node("extracted", [incoterm |-> "mail", place |-> "mail"], TRUE),
         quantity |-> Node("extracted", [value |-> "mail", unit |-> "mail"], TRUE)]
MCModelReadings ==
  { Full,
    [Full EXCEPT !.country = Text("extracted", "mail", FALSE)],
    [Full EXCEPT !.term.parts.place = "none"],
    [Full EXCEPT !.term.status = "found", !.quantity.parts.unit = "none"],
    [Full EXCEPT !.term.quoted = FALSE, !.quantity.parts.value = "none"] }

Change(f, part, v, source, stands) ==
  [field |-> f, part |-> part, value |-> v, source |-> source, stands |-> stands]
MCEdits ==
  { <<>>,
    <<Change("country", "value", "edited", "operator_input", TRUE)>>,
    <<Change("term", "place", "edited", "email_evidence", TRUE),
      Change("email", "value", "header", "header_evidence", TRUE)>>,
    <<Change("country", "value", "edited", "email_evidence", FALSE)>> }

MCAsksFor == c1 :> Queries @@ c2 :> {"compare"}

-----------------------------------------------------------------------------

TradeDeskInit ==
  /\ focus \in {"clarification", "review", "quotes", "turn", "products"}
  /\ ClarInit /\ ReviewInit /\ QuoteInit /\ TurnInit /\ ProductInit
  /\ focus # "review" => inbound.extraction = ValidateRfq(Full)
  /\ focus # "turn" => setting = [kind |-> "plain", store |-> "file"]
  /\ focus # "products" => shared

TradeDeskNext ==
  \/ /\ focus = "clarification" /\ ClarNext
     /\ UNCHANGED <<reviewVars, quoteVars, turnVars, productVars, focus>>
  \/ /\ focus = "review" /\ ReviewNext
     /\ UNCHANGED <<clarVars, quoteVars, turnVars, productVars, focus>>
  \/ /\ focus = "quotes" /\ QuoteNext
     /\ UNCHANGED <<clarVars, reviewVars, turnVars, productVars, focus>>
  \/ /\ focus = "turn" /\ TurnNext
     /\ UNCHANGED <<clarVars, reviewVars, quoteVars, productVars, focus>>
  \/ /\ focus = "products" /\ ProductNext
     /\ UNCHANGED <<clarVars, reviewVars, quoteVars, turnVars, focus>>

tradeDeskVars == <<clarVars, reviewVars, quoteVars, turnVars, productVars, focus>>

TradeDeskSpec == TradeDeskInit /\ [][TradeDeskNext]_tradeDeskVars
=============================================================================
