----------------------------- MODULE MCAnswering -----------------------------
(***************************************************************************)
(* An instance of Answering: one file of the knowledge base and two        *)
(* messages of a customer, with four events: arrivals, edits, executions   *)
(* of the script, steps of operators, deletions, crashes and failures.     *)
(***************************************************************************)
EXTENDS Answering

CONSTANTS m1, m2, guide

MCSources == {guide}
MCMessages == {m1, m2}

Page(text, paragraphs) == [text |-> text, paragraphs |-> paragraphs]

\* A finished file of two pages: amounts and a marker of the fence on one, and on
\* the other what one pass leaves of a range, of a marker inside a marker and of a
\* broken placeholder; one unfinished on its second page, and one without text.
\* The paragraph of six tokens is split, and the overlap takes a chunk past its
\* limit.
MCContents ==
  LET priced == {"amount", "discount", "percent", "fence", "phone"}
      odd == {"range", "nested", "broken"}
  IN  { <<Page(priced, <<3, 3>>), Page(odd, <<6>>)>>,
        <<Page({"other"}, <<1>>), Page({"todo", "amount"}, <<1>>)>>,
        <<Page({}, <<>>)>> }

Text(t) == [kind |-> "text", text |-> t, selection |-> "none"]
Media(t) == [kind |-> "media", text |-> t, selection |-> "none"]
Tap(selection, label) == [kind |-> "interactive", text |-> label, selection |-> selection]

\* The first message takes every route; the second bargains or asks for a
\* person beside it.
MCInputsOf ==
  m1 :> { Text({"company", "long"}), Text({"domain"}), Text({"out"}),
          Text({"greeting", "filler"}), Text({"courtesy"}),
          Text({"phone"}), Media({}), Tap("request_quote", {"company"}),
          Tap("talk_to_employee", {"other"}), Tap("service_finishing", {"domain"}),
          Tap("view_portfolio", {"company"}),
          [kind |-> "unsupported", text |-> {}, selection |-> "none"] }
    @@
  m2 :> { Media({"haggle"}), Text({"human", "callback"}) }

MCReplies == {{}, {"range", "percent"}, {"phone", "long"}}
MCOperatorTexts == {{"amount", "long"}}
=============================================================================
