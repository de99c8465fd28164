---------------------------- MODULE MCAskIntake ----------------------------
(***************************************************************************)
(* AskIntake for TLC: two asks with one idempotency key, two lines of      *)
(* rules chosen from one of each kind, and a router that may say anything. *)
(***************************************************************************)
EXTENDS AskIntake

CONSTANT k1   (* the idempotency key *)

MCGroups == (<<"family">> :> <<<<"mom">>>>)
MCDurations == (<<"1h">> :> 1)

Line(words, priority) ==
    [text |-> words, expires |-> None, priority |-> priority, mute |-> None]

MCRuleLines ==
    { Line(<<"mute", "all", "imessage", "except", "family", "for", "1h">>, None),
      Line(<<"only", "allow", "imessage", "from", "mom", ",", "and", "jeff">>, None),
      Line(<<"dismiss", "imessage">>, None),
      Line(<<"urgent", "only">>, -128),
      Line(<<"set", "urgency", "imessage", "to", "5">>, None),
      [Line(<<"no", "chatter", "please">>, 30) EXCEPT !.mute = TRUE, !.expires = <<"1h">>] }

MCRouterFilters == { Filter("snooze", 1, [NoMatch EXCEPT !.question = <<"lunch">>]),
                     Filter("mute", None, [NoMatch EXCEPT !.urgencyMax = 3]) }

Ask(key, kind, src, ttl, once) ==
    [key |-> key, asked |-> kind, kind |-> kind, agent |-> <<"imessage">>,
     src |-> <<"imessage">> \o src, question |-> <<"lunch", "today">>, urgency |-> 2,
     deadline |-> None, ttl |-> ttl, once |-> once, status |-> "open", auto |-> None,
     at |-> 0]

MCAsks == { Ask(k1, None, <<"mom">>, None, None),
            Ask(k1, "approval", <<"mom">>, None, TRUE),
            Ask(None, "yesno", <<"stranger">>, 0, FALSE) }

MCSuggestions == { <<"approval", 5>> }

Symmetry == Permutations(Requests) \cup Permutations(Creations)
=============================================================================
