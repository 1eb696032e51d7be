---------------------------- MODULE MCEmailReview ----------------------------
(* A small instance of EmailReview: five readings of one mail, four edits.     *)
EXTENDS EmailReview

Node(s, parts, quoted) == [status |-> s, parts |-> parts, quoted |-> quoted]
Text(s, v, quoted) == Node(s, [value |-> v], quoted)
Full == [country |-> Text("extracted", "mail", TRUE), email |-> Text("pending", "none", FALSE),
         term |-> Node("extracted", [incoterm |-> "mail", place |-> "mail"], TRUE),
         quantity |-> Node("extracted", [value |-> "mail", unit |-> "mail"], TRUE)]
MCModelReadings ==
  { Full,
    [Full EXCEPT !.country = Text("extracted", "mail", FALSE)],
    [Full EXCEPT !.term.parts.place = "none"],
    [Full EXCEPT !.term.status = "found", !.quantity.parts.unit = "none"],
    [Full EXCEPT !.term.quoted = FALSE, !.quantity.parts.value = "none"] }

Change(f, p, v, source, stands) ==
  [field |-> f, part |-> p, value |-> v, source |-> source, stands |-> stands]
MCEdits ==
  { <<>>,
    <<Change("country", "value", "edited", "operator_input", TRUE)>>,
    <<Change("term", "place", "edited", "email_evidence", TRUE),
      Change("email", "value", "header", "header_evidence", TRUE)>>,
    <<Change("country", "value", "edited", "email_evidence", FALSE)>> }
=============================================================================
