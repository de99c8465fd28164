----------------------------- MODULE RuleCompiler -----------------------------
(***************************************************************************)
(* rules.rs, compile, and the first three phases of POST /rules: from a    *)
(* line of English to the rule rows create_rule inserts.  A line is a      *)
(* sequence of lower-case words, with "," a word of its own.  The order of *)
(* the patterns is the code's: the first one that parses wins.             *)
(***************************************************************************)
EXTENDS RuleEngine

CONSTANTS Groups,     (* entities.toml: from a name to its contacts        *)
          Durations   (* the durations parse_deadline accepts              *)

EverybodyWords == {<<"all">>, <<"everyone">>, <<"everything">>}
Fillers == {"all", "everything", "everyone", "from", "by", "the",
            "notifications", "messages", "alerts"}

Has(t, words) == \E w \in words : Occurs(w, t)

(* The words after the first of these prefixes that t starts with.         *)
After(t, prefix) == SubSeq(t, Len(prefix) + 1, Len(t))
Strips(t, prefix) == IsStrictPrefix(prefix, t)

(* The first result that is not None, trying the values of a sequence.     *)
FirstOf(Try(_), s) ==
    LET hits == {i \in DOMAIN s : Try(s[i]) # None}
    IN  IF hits = {} THEN None ELSE Try(s[Min(hits)])

(* Where a separator stands between two words of t.                        *)
Cuts(t, sep) ==
    {i \in 2 .. Len(t) - Len(sep) : SubSeq(t, i, i + Len(sep) - 1) = sep}

CutAt(t, sep, i) == [before |-> SubSeq(t, 1, i - 1),
                     after |-> SubSeq(t, i + Len(sep), Len(t))]
FirstCut(t, sep) == IF Cuts(t, sep) = {} THEN None ELSE CutAt(t, sep, Min(Cuts(t, sep)))
LastCut(t, sep)  == IF Cuts(t, sep) = {} THEN None ELSE CutAt(t, sep, Max(Cuts(t, sep)))

DurationWords == <<<<"for">>, <<"until">>, <<"lasting">>>>

(* extract_duration: the text before the duration, and the duration.       *)
ExtractDuration(t) ==
    LET cut == FirstOf(LAMBDA w : LastCut(t, w), DurationWords)
    IN  IF cut = None THEN [before |-> t, after |-> None] ELSE cut

StripDurationSuffix(t) == ExtractDuration(t).before

(* parse_deadline(..).ok(): what does not parse is no expiry at all.       *)
ParseDeadline(d) == IF d \in DOMAIN Durations THEN Durations[d] ELSE None

(* Drop leading filler words; a text of fillers only is kept whole.        *)
ExtractAgent(t) ==
    LET kept == {i \in DOMAIN t : t[i] \notin Fillers}
    IN  IF kept = {} THEN t ELSE SubSeq(t, Min(kept), Len(t))

(* parse_contacts: split at commas, drop a leading "and", drop blanks.     *)
ParseContacts(t) ==
    LET split == FoldLeft(LAMBDA acc, w : IF w = "," THEN Append(acc, <<>>)
                            ELSE [acc EXCEPT ![Len(acc)] = Append(@, w)],
                          << <<>> >>, t)
        bare(p) == IF Strips(p, <<"and">>) THEN Tail(p) ELSE p
    IN  SelectSeq([i \in DOMAIN split |-> bare(split[i])], LAMBDA p : p # <<>>)

Expand(name) == IF name \in DOMAIN Groups THEN Groups[name] ELSE <<name>>

ExpandAll(contacts) ==
    FlattenSeq([i \in DOMAIN contacts |-> Expand(contacts[i])])

ForAgent(a) == [NoMatch EXCEPT !.agent = {a}]
FromContacts(a, cs) == [ForAgent(a) EXCEPT !.sourceContains = ToSet(cs)]

-----------------------------------------------------------------------------
(* The patterns of compile, each a filter or None.                         *)
MuteAllPhrases ==
    {<<v>> \o w : v \in {"mute", "silence", "quiet", "suppress"}, w \in EverybodyWords}
        \cup {<<"do", "not", "disturb">>, <<"dnd">>}

(* The one phrase the list leaves out.                                     *)
IsMuteAll(t) ==
    \E p \in MuteAllPhrases \ {<<"suppress", "everyone">>} : IsPrefix(p, t)

MutePrefixes == <<<<"mute">>, <<"silence">>, <<"quiet">>, <<"suppress">>,
                  <<"hide">>, <<"disable">>>>

ParseMuteAgent(t) ==
    FirstOf(LAMBDA p :
              IF Strips(t, p) /\ ExtractAgent(After(t, p)) \notin EverybodyWords
                THEN Filter("mute", None, ForAgent(ExtractAgent(After(t, p)))) ELSE None,
            MutePrefixes)

(* "<agent> from <contacts>" after a prefix.                               *)
FromClause(t, p) ==
    IF ~Strips(t, p) THEN None
    ELSE LET cut == FirstCut(After(t, p), <<"from">>)
         IN  IF cut = None \/ ParseContacts(cut.after) = <<>> THEN None
             ELSE Filter("surface", None,
                    FromContacts(cut.before, ExpandAll(ParseContacts(cut.after))))

ParseOnlyAllow(t) ==
    FirstOf(LAMBDA p : FromClause(t, p),
        <<<<"only", "allow">>, <<"only">>, <<"just", "allow">>, <<"just">>,
          <<"only", "surface">>, <<"just", "surface">>>>)

SurfacePrefixes == <<<<"surface">>, <<"allow">>, <<"unmute">>, <<"enable">>, <<"show">>>>

ParseSurfaceFrom(t) == FirstOf(LAMBDA p : FromClause(t, p), SurfacePrefixes)

ParseSurfaceAgent(t) ==
    FirstOf(LAMBDA p :
              IF Strips(t, p) /\ Cuts(After(t, p), <<"from">>) = {}
                THEN Filter("surface", None, ForAgent(ExtractAgent(After(t, p)))) ELSE None,
            SurfacePrefixes)

UrgentPhrases ==
    {<<"urgent", "only">>, <<"only", "urgent">>, <<"just", "urgent">>,
     <<"high", "priority", "only">>, <<"only", "high", "priority">>,
     <<"critical", "only">>, <<"only", "critical">>}

IsUrgentOnly(t) == \E p \in UrgentPhrases : IsPrefix(p, t)

ParseAutoAck(t) ==
    FirstOf(LAMBDA p :
              IF Strips(t, p)
                THEN Filter("auto_answer", "(acknowledged)",
                            ForAgent(ExtractAgent(After(t, p)))) ELSE None,
            <<<<"auto-ack">>, <<"auto", "ack">>, <<"autoack">>, <<"dismiss">>,
              <<"auto-dismiss">>, <<"auto", "dismiss">>, <<"auto-answer">>,
              <<"auto", "answer">>>>)

(* parse_urgency; -1 is "unrecognized".                                    *)
UrgencyWords == [w \in {"critical", "siren"} |-> 5] @@ [w \in {"urgent", "high"} |-> 4]
    @@ [w \in {"timely", "medium"} |-> 3] @@ [w \in {"calm", "normal", "low"} |-> 2]
    @@ [w \in {"fyi", "info", "background"} |-> 1] @@ [w \in {"silent", "none"} |-> 0]
    @@ ("0" :> 0) @@ ("1" :> 1) @@ ("2" :> 2) @@ ("3" :> 3) @@ ("4" :> 4)
    @@ [n \in {"5", "9"} |-> 5]

ParseUrgency(t) ==
    IF t = <<"drop", "everything">> THEN 5
    ELSE IF Len(t) = 1 /\ t[1] \in DOMAIN UrgencyWords THEN UrgencyWords[t[1]] ELSE -1

ParseReprioritize(t) ==
    LET try(rest, sep) ==
            LET cut == LastCut(rest, sep)
            IN  IF cut = None \/ ParseUrgency(cut.after) < 0 THEN None
                ELSE Filter("reprioritize", ParseUrgency(cut.after),
                            ForAgent(ExtractAgent(cut.before)))
    IN  FirstOf(LAMBDA p :
                  IF Strips(t, p)
                    THEN FirstOf(LAMBDA sep : try(After(t, p), sep),
                                 <<<<"to">>, <<"as">>, <<"at">>, <<"=">>, <<":">>>>)
                    ELSE None,
                <<<<"reprioritize">>, <<"set", "priority">>, <<"set", "urgency">>,
                  <<"change", "priority">>, <<"change", "urgency">>>>)

(* compile: the filter (None: unrecognized) and the duration's words.  The *)
(* pattern "mute .. except .." comes after "mute [agent]", which takes     *)
(* every such line: it never decides anything.                             *)
Compile(text) ==
    LET cut == ExtractDuration(text)
        t == cut.before
        filter == FirstOf(LAMBDA k :
            CASE k = 1 -> IF IsMuteAll(t) THEN Filter("mute", None, ForAgent(Wildcard))
                                          ELSE None
              [] k = 2 -> ParseMuteAgent(t)
              [] k = 3 -> ParseOnlyAllow(t)
              [] k = 4 -> ParseSurfaceFrom(t)
              [] k = 5 -> ParseSurfaceAgent(t)
              [] k = 6 -> IF IsUrgentOnly(t)
                            THEN Filter("surface", None, [NoMatch EXCEPT !.urgencyMin = 4])
                            ELSE None
              [] k = 7 -> ParseAutoAck(t)
              [] k = 8 -> ParseReprioritize(t), <<1, 2, 3, 4, 5, 6, 7, 8>>)
    IN  [filter |-> filter, duration |-> IF filter = None THEN None ELSE cut.after]

-----------------------------------------------------------------------------
(* The rows create_rule inserts, in order.  A request has a text, an       *)
(* expiry (words, or None), a priority and a mute flag (or None).          *)
Or(x, default) == IF x # None THEN x ELSE default

Row(filter, mute, priority, expires) ==
    [filter |-> filter, mute |-> mute, priority |-> priority, expires |-> expires]

(* One mute for the agent, then one surface rule per contact.              *)
MuteThenSurface(agent, contacts, body, expires) ==
    [i \in 1 .. Len(contacts) + 1 |->
        IF i = 1
          THEN Row(Filter("mute", None, ForAgent(agent)), TRUE, Or(body.priority, 10), expires)
          ELSE Row(Filter("surface", None, FromContacts(agent, <<contacts[i - 1]>>)),
                   FALSE, Or(body.priority, 20), expires)]

(* parse_mute_except_text: the agent and the expanded exceptions.          *)
MuteExcept(text) ==
    LET seps == <<<<"except">>, <<"but">>, <<"other", "than">>, <<"apart", "from">>,
                  <<"aside", "from">>>>
        split(rest, sep) ==
            LET cut == FirstCut(rest, sep)
                cs == ExpandAll(ParseContacts(StripDurationSuffix(cut.after)))
            IN  IF cut = None THEN None
                ELSE IF cs = <<>> THEN None
                ELSE [agent |-> ExtractAgent(cut.before), contacts |-> cs]
    IN  FirstOf(LAMBDA p :
                  IF Strips(text, p)
                    THEN FirstOf(LAMBDA sep : split(After(text, p), sep), seps) ELSE None,
                SubSeq(MutePrefixes, 1, 4))

(* Phase 1 is only tried when these words are in the line.                 *)
SaysMuteExcept(text) ==
    /\ Has(text, {<<"mute">>, <<"unmute">>})
    /\ \E sep \in {<<"except">>, <<"but">>, <<"other", "than">>} : Cuts(text, sep) # {}

PlanExcept(body) ==
    LET hit == MuteExcept(body.text)
    IN  IF ~SaysMuteExcept(body.text) \/ hit = None THEN None
        ELSE MuteThenSurface(hit.agent, hit.contacts, body,
               Or(ParseDeadline(Compile(body.text).duration), ParseDeadline(body.expires)))

(* Phase 2, "only allow", "allow" and "only".                              *)
PlanAllowAfter(p, body) ==
    LET cut == FirstCut(After(body.text, p), <<"from">>)
        timed == LastCut(cut.after, <<"for">>)
        names == IF timed = None THEN cut.after ELSE timed.before
        cs == ExpandAll(ParseContacts(names))
        expires == Or(IF timed = None THEN None ELSE ParseDeadline(timed.after),
                      Or(ParseDeadline(Compile(body.text).duration),
                         ParseDeadline(body.expires)))
    IN  IF ~Strips(body.text, p) THEN None
        ELSE IF cut = None THEN None
        ELSE IF cs = <<>> THEN None
        ELSE MuteThenSurface(cut.before, cs, body, expires)

PlanAllow(body) ==
    FirstOf(LAMBDA p : PlanAllowAfter(p, body),
        IF Strips(body.text, <<"only", "allow">>) THEN <<<<"only", "allow">>>>
                                                  ELSE <<<<"allow">>, <<"only">>>>)

(* Phase 3, one rule from the offline compiler.                            *)
PlanSingle(body) ==
    LET c == Compile(body.text)
    IN  IF c.filter = None THEN None
        ELSE <<Row(c.filter, Or(body.mute, FALSE), Or(body.priority, 0),
                   Or(ParseDeadline(c.duration), ParseDeadline(body.expires)))>>

(* Phases 1 to 3; None leaves the line to the AI router.                   *)
OfflinePlan(body) == Or(PlanExcept(body), Or(PlanAllow(body), PlanSingle(body)))

(* Phase 4: one rule with the router's filter, None when it gave none.     *)
RouterPlan(body, filter) ==
    <<Row(filter, Or(body.mute, FALSE), Or(body.priority, 0), ParseDeadline(body.expires))>>
=============================================================================
