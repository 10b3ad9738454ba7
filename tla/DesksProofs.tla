---------------------------- MODULE DesksProofs ----------------------------
(***************************************************************************)
(* Lemmas about the desks of the browser, the pages of Pages on which a    *)
(* copy of what the service holds is worked on: the rules screen, the team *)
(* screens, the approval policies, the review of a read document and the   *)
(* blog, for every number of rules, roles, policies, entries, posts and    *)
(* requests. PagesProofs puts them together.                               *)
(***************************************************************************)
EXTENDS Pages, Integers, TLAPS

------------------------------------------------------------------------------
(* The rules screen. *)

\* What is not there is nothing but that.
RulesShape(list) == \A i \in Rules!Ids : list[i].there \/ list[i] = Rules!Gone

\* A rule as it will be reported once a write is answered.
Applied(w, rule) ==
  CASE w.k = "switch" -> [rule EXCEPT !.on = w.rule.on]
    [] w.k = "save"   -> [rule EXCEPT !.text = w.rule.text]
    [] OTHER          -> w.rule

\* The editor waits for the one save there is; a drawer is of a listed rule.
RulesSent ==
  /\ \A w \in rulesOut :
       /\ w.k \in {"save", "create"} => rulesEditor.saving /\ rulesEditor.id = w.id
       /\ w.rule.there <=> w.k # "remove"
       /\ ~w.rule.there => w.rule = Rules!Gone
  /\ \A v, w \in rulesOut :
       (v.k \in {"save", "create"} /\ w.k \in {"save", "create"}) => v = w
  /\ rulesEditor # Rules!Closed => rulesDrawer = 0
  /\ custom = Rules!Unknown => rulesOut = {}
  /\ rulesDrawer # 0 => custom[rulesDrawer].there /\ custom # Rules!Unknown
  /\ custom = Rules!Unknown \/ RulesShape(custom)
  /\ RulesShape(rulesRows) /\ RulesShape(fetch.got)
  /\ rulesEditor.rule.there \/ rulesEditor.rule = Rules!Gone
  /\ rulesEditor = Rules!Closed \/ rulesEditor.id \in Rules!Ids
  /\ rulesEditor.saving => \E w \in rulesOut : w.k \in {"save", "create"}

Landing(i) == \E w \in rulesOut : w.id = i /\ w.st = "served"

\* A write of a rule that nothing crossed is alone with it, and carries what
\* was reported but for its own change; so does an editor open on it.
RulesAlone(i) ==
  /\ \A v, w \in rulesOut : (v.id = i /\ w.id = i) => v = w
  /\ \A w \in rulesOut : w.id = i =>
       /\ Applied(w, rulesTold[i]) = w.rule
       /\ w.st = "served" => rulesRows[i] = w.rule
  /\ rulesEditor.id = i =>
       /\ ~rulesEditor.saving => \A w \in rulesOut : w.id # i
       /\ ~Landing(i) => rulesEditor.rule = rulesRows[i]

\* What is listed, or read and not landed, of such a rule is what is stored,
\* unless an answer to what was done to it is still on its way.
RulesAbreast(i) ==
  /\ ~Landing(i) =>
       /\ rulesRows[i] = rulesTold[i]
       /\ custom # Rules!Unknown => custom[i] = rulesRows[i]
       /\ (fetch.st = "served" /\ current) => fetch.got[i] = rulesRows[i]
  /\ \A w \in rulesOut : (w.id = i /\ w.k \in {"switch", "save"}) =>
       custom[i].there /\ ((fetch.st = "served" /\ current) => fetch.got[i].there)

RulesInv ==
  /\ Rules!TypeOK /\ RulesSent
  /\ \A i \in Rules!Ids \ rulesCrossed : RulesAlone(i) /\ RulesAbreast(i)

LEMMA RulesTypes ==
  /\ MaxRuleWrites \in Nat /\ Rules!Ids = {1, 2}
  /\ Rules!Gone \in Rules!Rule /\ Rules!Gone = [there |-> FALSE, on |-> FALSE, text |-> 0]
  /\ Rules!Empty \in [Rules!Ids -> Rules!Rule] /\ Rules!Unknown \in [Rules!Ids -> Rules!Rule]
  /\ \A i \in Rules!Ids : /\ Rules!Empty[i] = Rules!Gone
                          /\ ~Rules!Unknown[i].there /\ Rules!Unknown[i] # Rules!Gone
  /\ Rules!Closed = [id |-> 0, rule |-> Rules!Gone, saving |-> FALSE]
  /\ Rules!Closed \in [id : 0..2, rule : Rules!Rule, saving : BOOLEAN]
  /\ Rules!Closed.id = 0 /\ Rules!Closed.rule = Rules!Gone /\ ~Rules!Closed.saving
  /\ Rules!Asked = [st |-> "asked", got |-> Rules!Empty]
  /\ Rules!Asked \in [st: {"idle", "asked", "served", "failed"}, got: [Rules!Ids -> Rules!Rule]]
<1>1. MaxRuleWrites \in Nat
  BY PageAssumption DEF Rules!RulesAssumption
<1>2. Rules!Ids = {1, 2}
  BY DEF Rules!Ids
<1>3. Rules!Gone \in Rules!Rule /\ Rules!Gone = [there |-> FALSE, on |-> FALSE, text |-> 0]
  BY <1>1 DEF Rules!Gone, Rules!Rule
<1>4. [Rules!Gone EXCEPT !.on = TRUE] \in Rules!Rule
  BY <1>3 DEF Rules!Rule
<1>5. ~[Rules!Gone EXCEPT !.on = TRUE].there /\ [Rules!Gone EXCEPT !.on = TRUE].on /\ ~Rules!Gone.on
  BY <1>3 DEF Rules!Rule
<1>6. /\ Rules!Empty \in [Rules!Ids -> Rules!Rule] /\ Rules!Unknown \in [Rules!Ids -> Rules!Rule]
      /\ \A i \in Rules!Ids : /\ Rules!Empty[i] = Rules!Gone
                              /\ ~Rules!Unknown[i].there /\ Rules!Unknown[i] # Rules!Gone
  BY <1>3, <1>4, <1>5 DEF Rules!Empty, Rules!Unknown
<1>7. /\ Rules!Closed = [id |-> 0, rule |-> Rules!Gone, saving |-> FALSE]
      /\ Rules!Closed \in [id : 0..2, rule : Rules!Rule, saving : BOOLEAN]
      /\ Rules!Closed.id = 0 /\ Rules!Closed.rule = Rules!Gone /\ ~Rules!Closed.saving
  BY <1>3 DEF Rules!Closed
<1>8. /\ Rules!Asked = [st |-> "asked", got |-> Rules!Empty]
      /\ Rules!Asked \in [st: {"idle", "asked", "served", "failed"}, got: [Rules!Ids -> Rules!Rule]]
  BY <1>6 DEF Rules!Asked
<1> QED BY <1>1, <1>2, <1>3, <1>6, <1>7, <1>8

LEMMA RulesInit == Rules!Init => RulesInv
<1> SUFFICES ASSUME Rules!Init PROVE RulesInv
  OBVIOUS
<1> USE RulesTypes
<1>1. /\ rulesRows = [i \in Rules!Ids |-> IF i = 1 THEN [there |-> TRUE, on |-> TRUE, text |-> 0] ELSE Rules!Gone]
      /\ rulesRows \in [Rules!Ids -> Rules!Rule]
  BY DEF Rules!Init, Rules!Rule
<1>2. Rules!TypeOK
  <2>1. /\ fetch \in [st: {"idle", "asked", "served", "failed"}, got: [Rules!Ids -> Rules!Rule]]
        /\ rulesEditor \in [id: 0..2, rule: Rules!Rule, saving: BOOLEAN]
        /\ custom \in [Rules!Ids -> Rules!Rule] /\ rulesTold \in [Rules!Ids -> Rules!Rule]
    BY <1>1 DEF Rules!Init
  <2>2. /\ golden \in {"asked", "ready", "failed"} /\ rulesDrawer \in 0..2
        /\ rulesWrites \in 0..MaxRuleWrites /\ busy = {} /\ rulesCrossed = {} /\ rulesOut = {}
    BY DEF Rules!Init
  <2>3. current \in BOOLEAN /\ removing \in BOOLEAN
    BY Zenon DEF Rules!Init
  <2> QED BY <1>1, <2>1, <2>2, <2>3 DEF Rules!TypeOK
<1>3. RulesSent
  BY <1>1 DEF Rules!Init, RulesSent, RulesShape
<1>4. \A i \in Rules!Ids : RulesAlone(i) /\ RulesAbreast(i)
  BY <1>1 DEF Rules!Init, RulesAlone, RulesAbreast
<1> QED BY <1>2, <1>3, <1>4 DEF RulesInv

------------------------------------------------------------------------------
LEMMA RulesReads ==
  ASSUME RulesInv,
         \/ \E st \in {"ready", "failed"} : Rules!GoldenEnds(st)
         \/ Rules!Served \/ Rules!Lands \/ Rules!FetchFails \/ Rules!Retry \/ Rules!RetryGolden
  PROVE  RulesInv'
<1> USE RulesTypes
<1>1. /\ UNCHANGED <<rulesRows, rulesEditor, busy, removing, rulesOut, rulesTold, rulesCrossed, rulesWrites>>
      /\ \/ fetch' = fetch /\ current' = current
         \/ fetch'.st # "served" /\ fetch'.got = Rules!Empty /\ current' \in BOOLEAN
         \/ Rules!Served
      /\ \/ custom' = custom /\ rulesDrawer' = rulesDrawer
         \/ /\ fetch.st = "served" /\ current /\ custom' = fetch.got
            /\ rulesDrawer' = Rules!Still(custom')
      /\ fetch' \in [st: {"idle", "asked", "served", "failed"}, got: [Rules!Ids -> Rules!Rule]]
      /\ golden' \in {"asked", "ready", "failed"}
  <2>1. CASE \E st \in {"ready", "failed"} : Rules!GoldenEnds(st)
    BY <2>1 DEF RulesInv, Rules!TypeOK, Rules!GoldenEnds
  <2>2. CASE Rules!Served
    BY <2>2 DEF RulesInv, Rules!TypeOK, Rules!Served
  <2>3. CASE Rules!Lands
    <3>1. custom' = custom => Rules!Still(custom') = rulesDrawer
      BY DEF RulesInv, RulesSent, Rules!Still
    <3> QED BY <2>3, <3>1 DEF RulesInv, Rules!TypeOK, Rules!Lands, Rules!Counts
  <2>4. CASE Rules!FetchFails
    BY <2>4 DEF RulesInv, Rules!TypeOK, Rules!FetchFails
  <2>5. CASE Rules!Retry
    <3>1. (fetch' = fetch /\ current' = current) \/ (fetch' = Rules!Asked /\ current' = TRUE)
      BY <2>5 DEF Rules!Retry, Rules!Refetches
    <3>2. /\ UNCHANGED <<rulesRows, custom, rulesDrawer, rulesEditor, busy, removing, rulesOut, rulesTold,
                        rulesCrossed, rulesWrites>>
          /\ golden' \in {golden, "asked"}
      BY <2>5 DEF Rules!Retry
    <3>3. fetch' = Rules!Asked => fetch'.st = "asked" /\ fetch'.got = Rules!Empty
      OBVIOUS
    <3> QED BY <3>1, <3>2, <3>3 DEF RulesInv, Rules!TypeOK
  <2>6. CASE Rules!RetryGolden
    BY <2>6 DEF RulesInv, Rules!TypeOK, Rules!RetryGolden
  <2> QED BY <2>1, <2>2, <2>3, <2>4, <2>5, <2>6
<1>2. fetch'.st = "served" =>
        \/ fetch' = fetch /\ current' = current
        \/ fetch'.got = rulesRows
  BY <1>1 DEF Rules!Served
<1>3. custom \in [Rules!Ids -> Rules!Rule] /\ fetch.got \in [Rules!Ids -> Rules!Rule] /\ rulesDrawer \in 0..2
  BY DEF RulesInv, Rules!TypeOK
<1>4. /\ custom' \in [Rules!Ids -> Rules!Rule] /\ rulesDrawer' \in 0..2
      /\ rulesDrawer' # 0 => custom'[rulesDrawer'].there /\ custom' # Rules!Unknown
      /\ rulesEditor # Rules!Closed => rulesDrawer' = 0
  <2>1. RulesSent
    BY DEF RulesInv
  <2>2. \A i \in Rules!Ids : custom'[i].there => custom' # Rules!Unknown
    BY <1>1, <1>3
  <2> QED BY <1>1, <1>3, <2>1, <2>2 DEF Rules!Still, RulesSent
<1>5. Rules!TypeOK'
  BY <1>1, <1>4 DEF RulesInv, Rules!TypeOK, Rules!Served
<1>6. RulesShape(fetch'.got) /\ (custom' = Rules!Unknown \/ RulesShape(custom'))
  <2>1. RulesShape(Rules!Empty) /\ RulesShape(rulesRows) /\ RulesShape(fetch.got)
    BY DEF RulesShape, RulesInv, RulesSent
  <2> QED BY <1>1, <2>1 DEF Rules!Served, RulesInv, RulesSent
<1>7. custom' = Rules!Unknown => custom' = custom
  <2>1. \A i \in Rules!Ids : fetch.got[i].there \/ fetch.got[i] = Rules!Gone
    BY DEF RulesInv, RulesSent, RulesShape
  <2> QED BY <1>1, <2>1
<1>8. RulesSent'
  <2>1. RulesSent
    BY DEF RulesInv
  <2> QED BY <1>1, <1>4, <1>6, <1>7, <2>1 DEF RulesSent, RulesShape
<1>9. ASSUME NEW i \in Rules!Ids \ rulesCrossed PROVE RulesAlone(i)' /\ RulesAbreast(i)'
  <2>1. RulesAlone(i) /\ RulesAbreast(i) /\ RulesSent
    BY DEF RulesInv
  <2>2. RulesAlone(i)'
    BY <1>1, <2>1 DEF RulesAlone, Landing, Applied
  <2>3. ~Landing(i) =>
       /\ rulesRows[i] = rulesTold[i]
       /\ custom' # Rules!Unknown => custom'[i] = rulesRows[i]
       /\ (fetch'.st = "served" /\ current') => fetch'.got[i] = rulesRows[i]
    BY <1>1, <1>2, <2>1 DEF RulesAbreast
  <2>4. ASSUME NEW w \in rulesOut, w.id = i, w.k \in {"switch", "save"}
        PROVE  custom'[i].there /\ ((fetch'.st = "served" /\ current') => fetch'.got[i].there)
    <3>1. custom # Rules!Unknown
      BY <2>1 DEF RulesSent
    <3>2. rulesRows[i].there
      BY <2>1, <2>4, <3>1 DEF RulesAbreast, RulesAlone, Landing, RulesSent
    <3> QED BY <1>1, <1>2, <2>1, <2>4, <3>2 DEF RulesAbreast
  <2> QED BY <1>1, <2>2, <2>3, <2>4 DEF RulesAbreast, Landing
<1> QED BY <1>1, <1>5, <1>8, <1>9 DEF RulesInv

LEMMA RulesClicks ==
  ASSUME RulesInv,
         \/ \E i \in Rules!Ids : Rules!OpenRule(i)
         \/ Rules!CloseRule \/ Rules!Edit \/ Rules!NewRule \/ Rules!CloseEditor
  PROVE  RulesInv'
<1> USE RulesTypes
<1>1. /\ UNCHANGED <<rulesRows, custom, golden, fetch, current, busy, removing, rulesOut, rulesTold, rulesWrites>>
      /\ rulesDrawer' \in 0..2 /\ (rulesDrawer' # 0 => custom[rulesDrawer'].there /\ custom # Rules!Unknown)
      /\ rulesEditor' # Rules!Closed => rulesDrawer' = 0
      /\ rulesEditor' \in [id : 0..2, rule : Rules!Rule, saving : BOOLEAN]
      /\ rulesEditor'.rule.there \/ rulesEditor'.rule = Rules!Gone
      /\ rulesEditor' = Rules!Closed \/ rulesEditor'.id \in Rules!Ids
      /\ rulesCrossed \subseteq rulesCrossed' /\ rulesCrossed' \subseteq Rules!Ids
      /\ \/ rulesEditor' = rulesEditor
         \/ ~rulesEditor'.saving /\ \A w \in rulesOut : w.k \notin {"save", "create"}
      /\ \A i \in Rules!Ids \ rulesCrossed' :
           \/ rulesEditor' = rulesEditor \/ rulesEditor'.id # i
           \/ (\A w \in rulesOut : w.id # i) /\ rulesEditor'.rule = rulesRows[i]
  <2>1. /\ rulesEditor \in [id : 0..2, rule : Rules!Rule, saving : BOOLEAN]
        /\ rulesDrawer \in 0..2 /\ custom \in [Rules!Ids -> Rules!Rule] /\ rulesCrossed \subseteq Rules!Ids
        /\ RulesSent
    BY DEF RulesInv, Rules!TypeOK
  <2>2. ~rulesEditor.saving => \A w \in rulesOut : w.k \notin {"save", "create"}
    BY <2>1 DEF RulesSent
  <2>3. CASE \E i \in Rules!Ids : Rules!OpenRule(i)
    BY <2>1, <2>3 DEF Rules!OpenRule, Rules!Table, Rules!Ready, RulesSent
  <2>4. CASE Rules!CloseRule
    BY <2>1, <2>4 DEF Rules!CloseRule, RulesSent
  <2>5. CASE Rules!CloseEditor
    BY <2>1, <2>2, <2>5 DEF Rules!CloseEditor, RulesSent
  <2>6. CASE Rules!NewRule
    <3>1. rulesEditor' \in [id : 0..2, rule : Rules!Rule, saving : BOOLEAN]
          /\ rulesEditor'.id = 2 /\ rulesEditor'.rule = Rules!Gone
      <4>1. rulesEditor' = [Rules!Closed EXCEPT !.id = 2]
        BY <2>6 DEF Rules!NewRule
      <4>2. rulesEditor'.id = 2 /\ rulesEditor'.rule = Rules!Gone
        BY <4>1 DEF Rules!Closed
      <4>3. rulesEditor' \in [id : 0..2, rule : Rules!Rule, saving : BOOLEAN]
        <5>1. \A c \in [id : 0..2, rule : Rules!Rule, saving : BOOLEAN] :
                [c EXCEPT !.id = 2] \in [id : 0..2, rule : Rules!Rule, saving : BOOLEAN]
          OBVIOUS
        <5> QED BY <4>1, <5>1
      <4> QED BY <4>2, <4>3
    <3>2. rulesRows[2] = Rules!Gone
      BY <2>1, <2>6 DEF Rules!NewRule, RulesSent, RulesShape
    <3> QED BY <2>1, <2>2, <2>6, <3>1, <3>2 DEF Rules!NewRule, Rules!Table, RulesSent
  <2>7. CASE Rules!Edit
    <3>1. /\ rulesDrawer \in Rules!Ids /\ custom[rulesDrawer].there /\ custom # Rules!Unknown
          /\ rulesEditor = Rules!Closed /\ rulesDrawer' = 0
          /\ rulesEditor' = [id |-> rulesDrawer, rule |-> custom[rulesDrawer], saving |-> FALSE]
          /\ rulesCrossed' = IF \E w \in rulesOut : w.id = rulesDrawer THEN rulesCrossed \cup {rulesDrawer}
                             ELSE rulesCrossed
      BY <2>1, <2>7 DEF Rules!Edit, RulesSent
    <3>2. ASSUME NEW i \in Rules!Ids \ rulesCrossed', i = rulesDrawer
          PROVE  (\A w \in rulesOut : w.id # i) /\ rulesEditor'.rule = rulesRows[i]
      BY <3>1, <3>2 DEF RulesInv, RulesAbreast, Landing
    <3>3. /\ rulesEditor'.id = rulesDrawer /\ rulesEditor'.rule = custom[rulesDrawer]
          /\ rulesEditor' \in [id : 0..2, rule : Rules!Rule, saving : BOOLEAN]
      BY <2>1, <3>1
    <3>4. rulesCrossed \subseteq rulesCrossed' /\ rulesCrossed' \subseteq Rules!Ids
      BY <2>1, <3>1
    <3>5. UNCHANGED <<rulesRows, custom, golden, fetch, current, busy, removing, rulesOut, rulesTold, rulesWrites>>
      BY <2>7 DEF Rules!Edit
    <3> QED BY <2>1, <2>2, <3>1, <3>2, <3>3, <3>4, <3>5
  <2> QED BY <2>3, <2>4, <2>5, <2>6, <2>7
<1>2. Rules!TypeOK'
  BY <1>1 DEF RulesInv, Rules!TypeOK
<1>3. RulesSent'
  BY <1>1 DEF RulesInv, RulesSent, RulesShape
<1>4. ASSUME NEW i \in Rules!Ids \ rulesCrossed' PROVE RulesAlone(i)' /\ RulesAbreast(i)'
  <2>1. RulesAlone(i) /\ RulesAbreast(i)
    BY <1>1 DEF RulesInv
  <2>2. RulesAlone(i)'
    BY <1>1, <2>1 DEF RulesAlone, Landing, Applied
  <2> QED BY <1>1, <2>1, <2>2 DEF RulesAbreast, Landing
<1> QED BY <1>2, <1>3, <1>4 DEF RulesInv

LEMMA RulesAsks ==
  ASSUME RulesInv, NEW k \in Rules!Kinds, NEW i \in Rules!Ids, NEW rule \in Rules!Rule, Rules!Sends(k, i, rule),
         custom # Rules!Unknown, busy' \subseteq Rules!Ids, removing' \in BOOLEAN,
         UNCHANGED <<rulesRows, custom, golden, fetch, current, rulesDrawer, rulesTold>>,
         rule.there <=> k # "remove", ~rule.there => rule = Rules!Gone,
         \/ k \notin {"save", "create"} /\ rulesEditor' = rulesEditor /\ rulesEditor = Rules!Closed
         \/ /\ k \in {"save", "create"} /\ rulesEditor # Rules!Closed /\ ~rulesEditor.saving /\ rulesEditor.id = i
            /\ rulesEditor' = [rulesEditor EXCEPT !.saving = TRUE],
         i \notin rulesCrossed' =>
           /\ Applied([k |-> k, id |-> i, rule |-> rule, st |-> "asked"], rulesRows[i]) = rule
           /\ k \in {"switch", "save"} => rulesRows[i].there
  PROVE  RulesInv'
<1> USE RulesTypes
<1> DEFINE new == [k |-> k, id |-> i, rule |-> rule, st |-> "asked"]
<1>1. /\ rulesOut' = rulesOut \cup {new} /\ rulesWrites' \in 0..MaxRuleWrites
      /\ rulesCrossed \subseteq rulesCrossed' /\ rulesCrossed' \subseteq Rules!Ids
      /\ i \notin rulesCrossed' => \A w \in rulesOut : w.id # i
  BY DEF Rules!Sends, RulesInv, Rules!TypeOK
<1>2. /\ rulesEditor' \in [id : 0..2, rule : Rules!Rule, saving : BOOLEAN]
      /\ rulesEditor'.id = rulesEditor.id /\ rulesEditor'.rule = rulesEditor.rule
      /\ rulesEditor'.saving \/ rulesEditor' = Rules!Closed
      /\ rulesEditor' # Rules!Closed => rulesDrawer = 0
      /\ k \in {"save", "create"} => rulesEditor'.saving /\ rulesEditor'.id = i
      /\ ~rulesEditor.saving
  BY DEF RulesInv, Rules!TypeOK, RulesSent
<1>3. \A w \in rulesOut : w.k \notin {"save", "create"}
  BY <1>2 DEF RulesInv, RulesSent
<1>4. Rules!TypeOK'
  <2>1. new \in [k: Rules!Kinds, id: Rules!Ids, rule: Rules!Rule, st: {"asked", "served"}]
    OBVIOUS
  <2> QED BY <1>1, <1>2, <2>1 DEF RulesInv, Rules!TypeOK
<1>5. RulesSent'
  <2>1. RulesSent
    BY DEF RulesInv
  <2>2. \A w \in rulesOut' :
           /\ w.k \in {"save", "create"} => rulesEditor'.saving /\ rulesEditor'.id = w.id /\ w = new
           /\ w.rule.there <=> w.k # "remove"
           /\ ~w.rule.there => w.rule = Rules!Gone
    <3>1. new.k = k /\ new.id = i /\ new.rule = rule
      OBVIOUS
    <3>2. \A w \in rulesOut : w.k \notin {"save", "create"}
      BY <1>3
    <3> HIDE DEF new
    <3> QED BY <1>1, <1>2, <2>1, <3>1, <3>2 DEF RulesSent
  <2>3. rulesEditor'.saving => \E w \in rulesOut' : w.k \in {"save", "create"}
    <3>1. new \in rulesOut' /\ new.k = k
      BY <1>1
    <3> QED BY <3>1, <1>2
  <2> QED BY <1>1, <1>2, <2>1, <2>2, <2>3 DEF RulesSent, RulesShape
<1>6. ASSUME NEW j \in Rules!Ids \ rulesCrossed' PROVE RulesAlone(j)' /\ RulesAbreast(j)'
  <2>1. RulesAlone(j) /\ RulesAbreast(j)
    BY <1>1 DEF RulesInv
  <2>2. Landing(j)' <=> Landing(j)
    BY <1>1 DEF Landing
  <2>3. CASE j # i
    <3>1. RulesAlone(j)'
      BY <1>1, <1>2, <2>1, <2>3 DEF RulesAlone, Applied
    <3> QED BY <1>1, <2>1, <2>2, <2>3, <3>1 DEF RulesAbreast
  <2>4. CASE j = i
    <3>1. \A w \in rulesOut : w.id # i
      BY <1>1, <2>4
    <3>2. rulesRows[i] = rulesTold[i] /\ custom[i] = rulesRows[i]
          /\ ((fetch.st = "served" /\ current) => fetch.got[i] = rulesRows[i])
      BY <2>1, <2>4, <3>1 DEF RulesAbreast, Landing
    <3>3. RulesAlone(j)'
      <4>1. rulesEditor.id = i => rulesEditor.rule = rulesRows[i]
        BY <2>1, <2>4, <3>1 DEF RulesAlone, Landing
      <4>2. /\ \A w \in rulesOut' : w.id = i => w = new
            /\ new.id = i /\ new.st = "asked" /\ Applied(new, rulesTold[i]) = new.rule
        BY <1>1, <2>4, <3>1, <3>2
      <4> HIDE DEF new
      <4> QED BY <1>2, <2>4, <4>1, <4>2 DEF RulesAlone
    <3> QED BY <1>1, <2>1, <2>2, <2>4, <3>1, <3>2, <3>3 DEF RulesAbreast
  <2> QED BY <2>3, <2>4
<1> QED BY <1>4, <1>5, <1>6 DEF RulesInv

\* A rule is what it says.
LEMMA RuleSays ==
  ASSUME NEW r \in Rules!Rule, NEW s \in Rules!Rule, r.there = s.there, r.on = s.on, r.text = s.text
  PROVE  r = s
BY DEF Rules!Rule

LEMMA RulesSends ==
  ASSUME RulesInv, (\E i \in Rules!Ids : Rules!Switch(i)) \/ Rules!Save \/ Rules!Remove
  PROVE  RulesInv'
<1> USE RulesTypes
<1>1. /\ rulesEditor \in [id : 0..2, rule : Rules!Rule, saving : BOOLEAN]
      /\ rulesDrawer \in 0..2 /\ custom \in [Rules!Ids -> Rules!Rule] /\ rulesRows \in [Rules!Ids -> Rules!Rule]
      /\ busy \subseteq Rules!Ids /\ removing \in BOOLEAN
      /\ RulesSent
  BY DEF RulesInv, Rules!TypeOK
<1>2. ASSUME NEW i \in Rules!Ids, i \notin rulesCrossed, \A w \in rulesOut : w.id # i, custom # Rules!Unknown
      PROVE  custom[i] = rulesRows[i]
  BY <1>2 DEF RulesInv, RulesAbreast, Landing
<1>3. ASSUME NEW i \in Rules!Ids, Rules!Switch(i) PROVE RulesInv'
  <2> DEFINE rule == [custom[i] EXCEPT !.on = ~@]
  <2>1. rule \in Rules!Rule /\ rule.there /\ "switch" \in Rules!Kinds
    BY <1>1, <1>3 DEF Rules!Switch, Rules!Rule, Rules!Kinds
  <2>2. Rules!Sends("switch", i, rule) /\ custom # Rules!Unknown /\ rulesEditor = Rules!Closed /\ custom[i].there
    BY <1>3 DEF Rules!Switch, Rules!Table, Rules!Ready
  <2>3. /\ UNCHANGED <<rulesRows, custom, golden, fetch, current, rulesDrawer, rulesTold, rulesEditor, removing>>
        /\ busy' = busy \cup {i}
    BY <1>3 DEF Rules!Switch
  <2>4. ASSUME i \notin rulesCrossed'
        PROVE  /\ Applied([k |-> "switch", id |-> i, rule |-> rule, st |-> "asked"], rulesRows[i]) = rule
               /\ rulesRows[i].there
    <3>1. custom[i] = rulesRows[i]
      BY <1>2, <2>2, <2>4 DEF Rules!Sends
    <3>2. rule = [custom[i] EXCEPT !.on = rule.on]
      BY <1>1 DEF Rules!Rule
    <3> QED BY <2>2, <3>1, <3>2 DEF Applied
  <2>5. busy' \subseteq Rules!Ids /\ removing' \in BOOLEAN
    BY <1>1, <2>3
  <2> HIDE DEF rule
  <2> QED BY <2>1, <2>2, <2>3, <2>4, <2>5, RulesAsks
<1>4. CASE Rules!Remove
  <2>1. /\ rulesDrawer \in Rules!Ids /\ custom # Rules!Unknown /\ rulesEditor = Rules!Closed
        /\ Rules!Sends("remove", rulesDrawer, Rules!Gone) /\ "remove" \in Rules!Kinds
    BY <1>1, <1>4 DEF Rules!Remove, Rules!Kinds, RulesSent
  <2>2. /\ UNCHANGED <<rulesRows, custom, golden, fetch, current, rulesDrawer, rulesTold, rulesEditor, busy>>
        /\ removing' = TRUE
    BY <1>4 DEF Rules!Remove
  <2>3. Applied([k |-> "remove", id |-> rulesDrawer, rule |-> Rules!Gone, st |-> "asked"], rulesRows[rulesDrawer])
          = Rules!Gone
    BY DEF Applied
  <2>4. busy' \subseteq Rules!Ids /\ removing' \in BOOLEAN
    BY <1>1, <2>2
  <2>5. ~Rules!Gone.there
    OBVIOUS
  <2> QED BY <2>1, <2>2, <2>3, <2>4, <2>5, RulesAsks
<1>5. CASE Rules!Save
  <2> DEFINE i == rulesEditor.id
             k == IF rulesEditor.rule = Rules!Gone THEN "create" ELSE "save"
  <2>1. /\ custom # Rules!Unknown /\ rulesEditor # Rules!Closed /\ ~rulesEditor.saving
        /\ Rules!Sends(k, i, Rules!Body)
        /\ rulesEditor' = [rulesEditor EXCEPT !.saving = TRUE]
        /\ UNCHANGED <<rulesRows, custom, golden, fetch, current, rulesDrawer, busy, removing, rulesTold>>
    BY <1>5 DEF Rules!Save, Rules!Ready
  <2>2. i \in Rules!Ids
    BY <1>1, <2>1 DEF RulesSent
  <2>3. Rules!Body.there /\ Rules!Body.text = rulesWrites + 1 /\ Rules!Body \in Rules!Rule
        /\ (rulesEditor.rule # Rules!Gone => Rules!Body.on = rulesEditor.rule.on)
    <3>1. rulesWrites + 1 \in 0..MaxRuleWrites
      BY <2>1 DEF Rules!Sends, RulesInv, Rules!TypeOK
    <3>2. rulesEditor.rule.on \in BOOLEAN
      BY <1>1 DEF Rules!Rule
    <3> QED BY <3>1, <3>2 DEF Rules!Body, Rules!Rule
  <2>4. k \in Rules!Kinds /\ k # "remove" /\ k \in {"save", "create"}
    BY DEF Rules!Kinds
  <2>5. ASSUME i \notin rulesCrossed'
        PROVE  /\ Applied([k |-> k, id |-> i, rule |-> Rules!Body, st |-> "asked"], rulesRows[i]) = Rules!Body
               /\ k \in {"switch", "save"} => rulesRows[i].there
    <3>1. CASE rulesEditor.rule = Rules!Gone
      BY <3>1 DEF Applied
    <3>2. CASE rulesEditor.rule # Rules!Gone
      <4>1. rulesRows[i] = rulesEditor.rule /\ rulesRows[i].there /\ rulesRows[i] \in Rules!Rule
        BY <1>1, <2>1, <2>2, <2>5, <3>2 DEF RulesInv, RulesAlone, Landing, RulesSent, Rules!Sends
      <4>2. [rulesRows[i] EXCEPT !.text = Rules!Body.text] \in Rules!Rule
        BY <2>3, <4>1 DEF Rules!Rule
      <4>3. /\ [rulesRows[i] EXCEPT !.text = Rules!Body.text].there = Rules!Body.there
            /\ [rulesRows[i] EXCEPT !.text = Rules!Body.text].text = Rules!Body.text
            /\ [rulesRows[i] EXCEPT !.text = Rules!Body.text].on = Rules!Body.on
        BY <2>3, <3>2, <4>1 DEF Rules!Rule
      <4>4. [rulesRows[i] EXCEPT !.text = Rules!Body.text] = Rules!Body
        BY <2>3, <4>2, <4>3, RuleSays
      <4> QED BY <3>2, <4>1, <4>4 DEF Applied
    <3> QED BY <3>1, <3>2
  <2>6. busy' \subseteq Rules!Ids /\ removing' \in BOOLEAN
    BY <1>1, <2>1
  <2> HIDE DEF i, k
  <2> QED BY <2>1, <2>2, <2>3, <2>4, <2>5, <2>6, RulesAsks DEF i
<1> QED BY <1>3, <1>4, <1>5

LEMMA RulesServes ==
  ASSUME RulesInv, NEW w \in rulesOut, Rules!Serve(w)
  PROVE  RulesInv'
<1> USE RulesTypes
<1> DEFINE new == [w EXCEPT !.st = "served"]
<1>1. /\ w \in [k: Rules!Kinds, id: Rules!Ids, rule: Rules!Rule, st: {"asked", "served"}] /\ w.st = "asked"
      /\ RulesSent /\ rulesRows \in [Rules!Ids -> Rules!Rule]
  BY DEF RulesInv, Rules!TypeOK, Rules!Serve
<1>2. /\ new \in [k: Rules!Kinds, id: Rules!Ids, rule: Rules!Rule, st: {"asked", "served"}]
      /\ new.st = "served" /\ new.k = w.k /\ new.id = w.id /\ new.rule = w.rule
  BY <1>1
<1>3. /\ rulesRows' = [rulesRows EXCEPT ![w.id] = w.rule]
      /\ rulesOut' = (rulesOut \ {w}) \cup {new}
      /\ UNCHANGED <<custom, golden, fetch, current, rulesDrawer, rulesEditor, busy, removing, rulesTold,
                     rulesCrossed, rulesWrites>>
      /\ w.k = "create" \/ rulesRows[w.id].there
  BY DEF Rules!Serve
<1> HIDE DEF new
<1>4. Rules!TypeOK'
  BY <1>1, <1>2, <1>3 DEF RulesInv, Rules!TypeOK
<1>5. RulesSent'
  <2>1. \A v \in rulesOut' : \E u \in rulesOut :
          /\ u.k = v.k /\ u.id = v.id /\ u.rule = v.rule
          /\ (u = w /\ v = new) \/ (u # w /\ u = v)
    BY <1>2, <1>3
  <2>2. \A u, v \in rulesOut' : (u.k \in {"save", "create"} /\ v.k \in {"save", "create"}) => u = v
    BY <1>1, <2>1 DEF RulesSent
  <2>3. RulesShape(rulesRows')
    BY <1>1, <1>3 DEF RulesSent, RulesShape
  <2>4. \A v \in rulesOut' :
           /\ v.k \in {"save", "create"} => rulesEditor'.saving /\ rulesEditor'.id = v.id
           /\ v.rule.there <=> v.k # "remove"
           /\ ~v.rule.there => v.rule = Rules!Gone
    BY <1>1, <1>3, <2>1 DEF RulesSent
  <2>5. rulesEditor'.saving => \E v \in rulesOut' : v.k \in {"save", "create"}
    <3>1. \A u \in rulesOut : \E v \in rulesOut' : v.k = u.k
      BY <1>2, <1>3
    <3> QED BY <1>1, <1>3, <3>1 DEF RulesSent
  <2> QED BY <1>1, <1>3, <2>2, <2>3, <2>4, <2>5 DEF RulesSent, RulesShape
<1>6. ASSUME NEW j \in Rules!Ids \ rulesCrossed' PROVE RulesAlone(j)' /\ RulesAbreast(j)'
  <2>1. RulesAlone(j) /\ RulesAbreast(j)
    BY <1>3 DEF RulesInv
  <2>2. CASE j # w.id
    <3>1. rulesRows'[j] = rulesRows[j] /\ \A v : v.id = j => (v \in rulesOut' <=> v \in rulesOut)
      BY <1>2, <1>3, <1>1, <2>2
    <3>2. RulesAlone(j)'
      BY <1>3, <2>1, <3>1 DEF RulesAlone, Landing, Applied
    <3> QED BY <1>3, <2>1, <3>1, <3>2 DEF RulesAbreast, Landing
  <2>3. CASE j = w.id
    <3>1. \A v \in rulesOut : v.id = j => v = w
      BY <2>1, <2>3 DEF RulesAlone
    <3>2. \A v \in rulesOut' : v.id = j => v = new
      BY <1>3, <3>1
    <3>3. rulesRows'[j] = w.rule
      BY <1>1, <1>3, <2>3
    <3>4. Applied(new, rulesTold[j]) = Applied(w, rulesTold[j])
      BY <1>2 DEF Applied
    <3>5. RulesAlone(j)'
      BY <1>2, <1>3, <2>1, <2>3, <3>2, <3>3, <3>4 DEF RulesAlone, Landing
    <3>6. Landing(j)'
      BY <1>2, <1>3, <2>3 DEF Landing
    <3> QED BY <1>2, <1>3, <2>1, <2>3, <3>2, <3>5, <3>6 DEF RulesAbreast
  <2> QED BY <2>2, <2>3
<1> QED BY <1>4, <1>5, <1>6 DEF RulesInv

LEMMA RulesAnswers ==
  ASSUME RulesInv, NEW w \in rulesOut, Rules!Answer(w)
  PROVE  RulesInv'
<1> USE RulesTypes
<1>1. /\ w \in [k: Rules!Kinds, id: Rules!Ids, rule: Rules!Rule, st: {"asked", "served"}] /\ w.st = "served"
      /\ RulesSent /\ custom \in [Rules!Ids -> Rules!Rule] /\ rulesTold \in [Rules!Ids -> Rules!Rule]
      /\ rulesDrawer \in 0..2 /\ busy \subseteq Rules!Ids /\ removing \in BOOLEAN
      /\ rulesEditor \in [id: 0..2, rule: Rules!Rule, saving: BOOLEAN]
      /\ fetch \in [st: {"idle", "asked", "served", "failed"}, got: [Rules!Ids -> Rules!Rule]]
  BY DEF RulesInv, Rules!TypeOK, Rules!Answer
<1>2. /\ rulesOut' = rulesOut \ {w}
      /\ UNCHANGED <<rulesRows, golden, rulesCrossed, rulesWrites>>
      /\ busy' \subseteq Rules!Ids
      /\ rulesEditor' = IF w.k \in {"save", "create"} THEN Rules!Closed ELSE rulesEditor
      /\ custom' = Rules!Patched(w)
      /\ rulesDrawer' = IF w.k = "remove" THEN 0 ELSE Rules!Still(custom')
  BY <1>1 DEF Rules!Answer, Rules!Ends
<1>3. removing' \in BOOLEAN
  BY <1>1, Zenon DEF Rules!Answer, Rules!Ends
<1>4. \/ fetch' = fetch /\ current' = FALSE
      \/ fetch' = Rules!Asked /\ current' = TRUE
  BY DEF Rules!Answer, Rules!Refetches
<1>5. /\ fetch' \in [st: {"idle", "asked", "served", "failed"}, got: [Rules!Ids -> Rules!Rule]]
      /\ ~(fetch'.st = "served" /\ current') /\ RulesShape(fetch'.got)
  <2>1. Rules!Asked.st = "asked" /\ RulesShape(Rules!Asked.got)
    BY DEF RulesShape
  <2> QED BY <1>1, <1>4, <2>1 DEF RulesSent
<1>6. current' \in BOOLEAN
  BY <1>4, Zenon
<1>7. rulesTold' = [rulesTold EXCEPT ![w.id] = Applied(w, @)] /\ Applied(w, rulesTold[w.id]) \in Rules!Rule
  <2>1. /\ [rulesTold[w.id] EXCEPT !.on = w.rule.on] \in Rules!Rule
        /\ [rulesTold[w.id] EXCEPT !.text = w.rule.text] \in Rules!Rule
    BY <1>1 DEF Rules!Rule
  <2> QED BY <1>1, <2>1 DEF Rules!Answer, Applied
<1>8. /\ custom # Rules!Unknown /\ RulesShape(custom)
      /\ custom' = custom \/ custom' = [custom EXCEPT ![w.id] = w.rule]
      /\ custom'[w.id] = w.rule \/ (~custom[w.id].there /\ w.k # "create" /\ custom'[w.id] = custom[w.id])
  BY <1>1, <1>2 DEF RulesSent, Rules!Patched
<1>9. custom' \in [Rules!Ids -> Rules!Rule] /\ RulesShape(custom') /\ custom' # Rules!Unknown
  <2>1. w.rule.there \/ w.rule = Rules!Gone
    BY <1>1 DEF RulesSent
  <2>2. custom' \in [Rules!Ids -> Rules!Rule] /\ RulesShape(custom')
    BY <1>1, <1>8, <2>1 DEF RulesShape
  <2> QED BY <2>2 DEF RulesShape
<1>10. /\ rulesDrawer' \in 0..2 /\ (rulesDrawer' # 0 => custom'[rulesDrawer'].there)
       /\ rulesEditor # Rules!Closed => rulesDrawer' = 0
  BY <1>1, <1>2 DEF Rules!Still, RulesSent
<1>11. Rules!TypeOK'
  BY <1>1, <1>2, <1>3, <1>5, <1>6, <1>7, <1>9, <1>10 DEF RulesInv, Rules!TypeOK
<1>12. RulesSent'
  BY <1>1, <1>2, <1>5, <1>9, <1>10 DEF RulesSent, RulesShape
<1>13. ASSUME NEW j \in Rules!Ids \ rulesCrossed' PROVE RulesAlone(j)' /\ RulesAbreast(j)'
  <2>1. RulesAlone(j) /\ RulesAbreast(j)
    BY <1>2, <1>13 DEF RulesInv
  <2>2. rulesEditor' = rulesEditor \/ rulesEditor'.id # j
    BY <1>2
  <2>3. CASE j # w.id
    <3>1. /\ rulesTold'[j] = rulesTold[j] /\ custom'[j] = custom[j]
          /\ \A v : v.id = j => (v \in rulesOut' <=> v \in rulesOut)
      BY <1>1, <1>2, <1>7, <1>8, <2>3
    <3>2. RulesAlone(j)'
      BY <1>2, <2>1, <2>2, <3>1 DEF RulesAlone, Landing, Applied
    <3> QED BY <1>2, <1>5, <1>8, <2>1, <3>1, <3>2 DEF RulesAbreast, Landing
  <2>4. CASE j = w.id
    <3>1. \A v \in rulesOut' : v.id # j
      BY <1>2, <2>1, <2>4 DEF RulesAlone
    <3>2. rulesRows'[j] = w.rule /\ rulesTold'[j] = w.rule
      BY <1>1, <1>2, <1>7, <2>1, <2>4 DEF RulesAlone
    <3>3. custom'[j] = w.rule
      <4>1. w.k \in {"switch", "save"} => custom[j].there
        BY <2>1, <2>4 DEF RulesAbreast
      <4>2. w.k \in {"switch", "save", "create", "remove"}
        BY <1>1 DEF Rules!Kinds
      <4>3. w.k = "remove" => w.rule = Rules!Gone
        BY <1>1 DEF RulesSent
      <4> QED BY <1>8, <2>4, <4>1, <4>2, <4>3 DEF RulesShape
    <3>4. rulesEditor'.id # j
      <4>1. CASE w.k \in {"save", "create"}
        BY <1>2, <4>1
      <4>2. CASE w.k \notin {"save", "create"} /\ rulesEditor.id = j
        BY <1>1, <2>1, <2>4, <4>2 DEF RulesAlone, RulesSent
      <4> QED BY <1>2, <4>1, <4>2
    <3>5. RulesAlone(j)'
      BY <3>1, <3>4 DEF RulesAlone
    <3> QED BY <1>5, <3>1, <3>2, <3>3, <3>5 DEF RulesAbreast
  <2> QED BY <2>3, <2>4
<1> QED BY <1>11, <1>12, <1>13 DEF RulesInv

LEMMA RulesFails ==
  ASSUME RulesInv, NEW w \in rulesOut, Rules!Fails(w)
  PROVE  RulesInv'
<1> USE RulesTypes
<1>1. /\ w \in [k: Rules!Kinds, id: Rules!Ids, rule: Rules!Rule, st: {"asked", "served"}]
      /\ RulesSent /\ rulesCrossed \subseteq Rules!Ids /\ busy \subseteq Rules!Ids /\ removing \in BOOLEAN
      /\ rulesEditor \in [id: 0..2, rule: Rules!Rule, saving: BOOLEAN]
  BY DEF RulesInv, Rules!TypeOK
<1>2. /\ rulesOut' = rulesOut \ {w} /\ busy' \subseteq Rules!Ids
      /\ UNCHANGED <<rulesRows, custom, golden, fetch, current, rulesDrawer, rulesTold, rulesWrites>>
      /\ rulesCrossed' = IF w.st = "served" THEN rulesCrossed \cup {w.id} ELSE rulesCrossed
      /\ rulesEditor' = IF w.k \in {"save", "create"} THEN [rulesEditor EXCEPT !.saving = FALSE] ELSE rulesEditor
  BY <1>1 DEF Rules!Fails, Rules!Ends
<1>3. removing' \in BOOLEAN
  BY <1>1, Zenon DEF Rules!Fails, Rules!Ends
<1>4. /\ rulesEditor' \in [id: 0..2, rule: Rules!Rule, saving: BOOLEAN]
      /\ rulesEditor'.id = rulesEditor.id /\ rulesEditor'.rule = rulesEditor.rule
      /\ rulesEditor = Rules!Closed => rulesEditor' = Rules!Closed
  <2>1. w.k \in {"save", "create"} => rulesEditor.saving
    BY <1>1 DEF RulesSent
  <2> QED BY <1>1, <1>2, <2>1
<1>5. Rules!TypeOK'
  BY <1>1, <1>2, <1>3, <1>4 DEF RulesInv, Rules!TypeOK
<1>6. RulesSent'
  <2>1. \A v \in rulesOut' : v.k \in {"save", "create"} => w.k \notin {"save", "create"}
    BY <1>1, <1>2 DEF RulesSent
  <2> QED BY <1>1, <1>2, <1>4, <2>1 DEF RulesSent, RulesShape
<1>7. ASSUME NEW j \in Rules!Ids \ rulesCrossed' PROVE RulesAlone(j)' /\ RulesAbreast(j)'
  <2>1. RulesAlone(j) /\ RulesAbreast(j) /\ (j = w.id => w.st = "asked")
    BY <1>1, <1>2, <1>7 DEF RulesInv
  <2>2. Landing(j)' <=> Landing(j)
    BY <1>2, <2>1 DEF Landing
  <2>3. rulesOut' \subseteq rulesOut
    BY <1>2
  <2>4. (rulesEditor'.id = j /\ ~rulesEditor'.saving) => \A v \in rulesOut' : v.id # j
    <3>1. CASE rulesEditor' = rulesEditor
      BY <2>1, <2>3, <3>1 DEF RulesAlone
    <3>2. CASE w.k \in {"save", "create"} /\ rulesEditor.id = j
      BY <1>1, <1>2, <2>1, <3>2 DEF RulesSent, RulesAlone
    <3> QED BY <1>2, <1>4, <3>1, <3>2
  <2>5. RulesAlone(j)'
    BY <1>2, <1>4, <2>1, <2>2, <2>3, <2>4 DEF RulesAlone, Applied
  <2> QED BY <1>2, <2>1, <2>2, <2>3, <2>5 DEF RulesAbreast
<1> QED BY <1>5, <1>6, <1>7 DEF RulesInv

LEMMA RulesNext == RulesInv /\ Rules!Next => RulesInv'
BY RulesReads, RulesClicks, RulesSends, RulesServes, RulesAnswers, RulesFails DEF Rules!Next

LEMMA RulesStays == RulesInv /\ UNCHANGED rulesVars => RulesInv'
<1> SUFFICES ASSUME RulesInv, UNCHANGED rulesVars PROVE RulesInv'
  OBVIOUS
<1>1. Rules!TypeOK'
  BY DEF rulesVars, RulesInv, Rules!TypeOK
<1>2. RulesSent'
  BY DEF rulesVars, RulesInv, RulesSent, RulesShape
<1>3. ASSUME NEW i \in Rules!Ids \ rulesCrossed' PROVE RulesAlone(i)' /\ RulesAbreast(i)'
  <2>1. RulesAlone(i) /\ RulesAbreast(i) /\ i \notin rulesCrossed
    BY DEF rulesVars, RulesInv
  <2> QED BY <2>1 DEF rulesVars, RulesAlone, RulesAbreast, Landing, Applied
<1> QED BY <1>1, <1>2, <1>3 DEF RulesInv

LEMMA RulesSettles == RulesInv => Rules!SettledIsServed /\ Rules!NothingUndone
BY DEF RulesInv, RulesAbreast, Landing, Rules!SettledIsServed, Rules!NothingUndone, Rules!Quiet
------------------------------------------------------------------------------
(* The team screens. *)

\* A dialog is known by its seat, and a mount of the screen by its own.
TeamDialog ==
  [name : {"none", "drawer", "role", "newRole", "invite"}, seat : 0..MaxSeats, seed : Team!Copies]
TeamTab == [name : {"members", "roles"}, seat : 1..MaxSeats]
TeamRead == [st : {"idle", "asked", "served", "failed"}, got : Team!Copies]

TeamTyped ==
  /\ teamStored \in [Team!Lists -> SUBSET Team!Writes] /\ teamShown \in [Team!Lists -> Team!Copies]
  /\ teamRead \in [Team!Lists -> TeamRead] /\ teamOut \subseteq Team!Requests
  /\ teamTold \subseteq Team!Writes /\ teamCrossed \subseteq Team!Lists
  /\ dialog \in TeamDialog /\ teamTab \in TeamTab
  /\ teamWrites \in 0..MaxTeamWrites /\ seats \in 1..MaxSeats
  /\ dialog = Team!NoDialog \/ (dialog.name # "none" /\ dialog.seat > 0)

OfRole == dialog.name \in {"role", "newRole"}

\* Who asked: a mount that was there; and from the dialog of a role, only for
\* roles.
TeamSeats ==
  /\ dialog.seat <= seats /\ teamTab.seat <= seats
  /\ \A r \in teamOut :
       /\ r.seat <= seats
       /\ (OfRole /\ r.seat = dialog.seat) => "roles" \in Team!On(r.w.v)
       /\ r.then \in Team!Then(r.w.v)

\* A request about a list that nothing crossed is alone with it.
TeamAlone(l) ==
  \A r \in teamOut : l \in Team!On(r.w.v) =>
    /\ ~Team!Reading(l)
    /\ \A q \in teamOut : l \in Team!On(q.w.v) => q = r

\* What was reported of such a list is stored, and is in every copy of it: in
\* what is shown, in what was read, in what a request carries or was answered.
TeamKeeps(l) ==
  /\ Team!Told(l) \subseteq teamStored[l]
  /\ teamRead[l].st = "served" => Team!Told(l) \subseteq teamRead[l].got
  /\ teamShown[l] # Team!Blank => Team!Told(l) \subseteq teamShown[l]
  /\ \A r \in teamOut : l \in Team!On(r.w.v) =>
       /\ (r.st = "asked" /\ Team!Whole(r.w.v)) => Team!Told(l) \subseteq r.body
       /\ r.st = "served" =>
            /\ r.w \in teamStored[l]
            /\ l \notin Team!Rereads(r.w.v) => Team!Told(l) \cup {r.w} \subseteq r.got

\* While a dialog of a role is open no other mount asks for roles, so what it
\* began with still has all that was reported; and the second half of a click
\* finds it open.
TeamDialogs ==
  /\ OfRole => \A r \in teamOut : "roles" \in Team!On(r.w.v) => r.seat = dialog.seat
  /\ dialog.name = "role" => Team!Told("roles") \subseteq dialog.seed
  /\ \A r \in teamOut : r.then = "staff" => dialog.name = "role" /\ dialog.seat = r.seat

\* An invitation is worked on from the mount that shows it.
TeamInvites == \A r \in teamOut : r.w.v \in {"resend", "revoke"} => r.seat = teamTab.seat

TeamInv ==
  /\ TeamTyped /\ TeamSeats
  /\ \A l \in Team!Lists \ teamCrossed : TeamAlone(l) /\ TeamKeeps(l)
  /\ "roles" \notin teamCrossed => TeamDialogs
  /\ "invites" \notin teamCrossed => TeamInvites

LEMMA TeamTypes ==
  /\ MaxTeamWrites \in Nat /\ MaxSeats \in Nat /\ 1 <= MaxSeats
  /\ Team!Blank \in Team!Copies /\ {} \in Team!Copies
  /\ \A S \in SUBSET Team!Writes : S \in Team!Copies
  /\ \A C \in Team!Copies : C # Team!Blank => C \in SUBSET Team!Writes
  /\ Team!Idle \in TeamRead /\ Team!Idle.st = "idle"
  /\ Team!Asked \in TeamRead /\ Team!Asked.st = "asked"
  /\ [st |-> "failed", got |-> Team!Blank] \in TeamRead
  /\ Team!NoDialog \in TeamDialog /\ Team!NoDialog.name = "none" /\ Team!NoDialog.seat = 0
  /\ Team!Lists = {"members", "roles", "invites"}
<1>1. MaxTeamWrites \in Nat /\ MaxSeats \in Nat /\ 1 <= MaxSeats
  BY PageAssumption DEF Team!TeamAssumption
<1>2. /\ Team!Blank \in Team!Copies /\ {} \in Team!Copies
      /\ \A S \in SUBSET Team!Writes : S \in Team!Copies
      /\ \A C \in Team!Copies : C # Team!Blank => C \in SUBSET Team!Writes
  BY DEF Team!Copies
<1>3. Team!Idle \in TeamRead /\ Team!Idle.st = "idle"
  BY <1>2 DEF Team!Idle, TeamRead
<1>4. Team!Asked \in TeamRead /\ Team!Asked.st = "asked"
  BY <1>2 DEF Team!Asked, TeamRead
<1>5. [st |-> "failed", got |-> Team!Blank] \in TeamRead
  BY <1>2 DEF TeamRead
<1>6. Team!NoDialog \in TeamDialog /\ Team!NoDialog.name = "none" /\ Team!NoDialog.seat = 0
  BY <1>1, <1>2 DEF Team!NoDialog, TeamDialog
<1> QED BY <1>1, <1>2, <1>3, <1>4, <1>5, <1>6 DEF Team!Lists

\* Which list a verb is about: one, but for a removal.
LEMMA TeamVerbs ==
  /\ \A v \in Team!Verbs, l \in Team!Lists : l \in Team!On(v) <=> v \in Team!Changes[l]
  /\ \A v \in Team!Verbs : "members" \in Team!On(v) <=> v \in {"status", "access", "demote", "clients", "remove"}
  /\ \A v \in Team!Verbs : "roles" \in Team!On(v) <=>
        v \in {"toggle", "rename", "staff", "create", "fill", "delete", "remove"}
  /\ \A v \in Team!Verbs : "invites" \in Team!On(v) <=> v \in {"send", "resend", "revoke"}
  /\ \A v \in Team!Verbs : v \in {"status", "access", "demote", "clients", "remove", "toggle", "rename",
        "staff", "create", "fill", "delete", "send", "resend", "revoke"}
  /\ {"toggle", "rename", "staff", "create", "fill"} \subseteq Team!Verbs
<1>1. /\ Team!Changes["members"] = {"status", "access", "demote", "clients", "remove"}
      /\ Team!Changes["roles"] = {"toggle", "rename", "staff", "create", "fill", "delete", "remove"}
      /\ Team!Changes["invites"] = {"send", "resend", "revoke"}
  BY DEF Team!Changes
<1>2. \A v, l : l \in Team!On(v) <=> l \in Team!Lists /\ v \in Team!Changes[l]
  BY DEF Team!On
<1>3. \A v : v \in Team!Verbs <=> \E l \in Team!Lists : v \in Team!Changes[l]
  BY DEF Team!Verbs
<1> HIDE DEF Team!Changes
<1>4. Team!Lists = {"members", "roles", "invites"}
  BY DEF Team!Lists
<1>5. "members" \in Team!Lists /\ "roles" \in Team!Lists /\ "invites" \in Team!Lists
  BY <1>4
<1>6. \A v \in Team!Verbs : v \in Team!Changes["members"] \cup Team!Changes["roles"] \cup Team!Changes["invites"]
  BY <1>3, <1>4
<1>7. {"toggle", "rename", "staff", "create", "fill"} \subseteq Team!Verbs
  BY <1>1, <1>3, <1>5
<1> QED BY <1>1, <1>2, <1>5, <1>6, <1>7

\* What is answered is the one list it is not read again.
LEMMA TeamAnswered ==
  ASSUME NEW v \in Team!Verbs
  PROVE  /\ Team!Rereads(v) \subseteq Team!On(v) /\ Team!Rereads(v) \subseteq {"roles"}
         /\ \A l \in Team!On(v) \ Team!Rereads(v) :
              l = CHOOSE m \in Team!Lists : m \in Team!On(v) \ Team!Rereads(v)
         /\ Team!On(v) \subseteq Team!Lists
<1>1. Team!On(v) \subseteq Team!Lists
  BY DEF Team!On
<1>2. Team!Rereads(v) \subseteq Team!On(v) /\ Team!Rereads(v) \subseteq {"roles"}
  BY TeamVerbs DEF Team!Rereads
<1>3. \A l, m \in Team!On(v) \ Team!Rereads(v) : l = m
  BY <1>1, TeamVerbs, TeamTypes DEF Team!Rereads
<1> QED BY <1>1, <1>2, <1>3

LEMMA TeamInit == Team!Init => TeamInv
<1> SUFFICES ASSUME Team!Init PROVE TeamInv
  OBVIOUS
<1>1. teamOut = {} /\ teamTold = {} /\ teamCrossed = {} /\ dialog = Team!NoDialog
  BY DEF Team!Init
<1>2. TeamTyped
  BY TeamTypes DEF Team!Init, TeamTyped, TeamTab
<1>3. TeamSeats
  BY <1>1, <1>2, TeamTypes DEF Team!Init, TeamSeats
<1>4. ASSUME NEW l \in Team!Lists PROVE TeamAlone(l) /\ TeamKeeps(l)
  BY <1>1 DEF TeamAlone, TeamKeeps, Team!Told
<1>5. TeamDialogs /\ TeamInvites
  BY <1>1, TeamTypes DEF TeamDialogs, TeamInvites, OfRole, Team!Told
<1> QED BY <1>2, <1>3, <1>4, <1>5 DEF TeamInv

\* A read that starts meets what is out.
LEMMA TeamMoves ==
  ASSUME TeamTyped, NEW sh, NEW rd \in [Team!Lists -> TeamRead], Team!Moves(sh, rd), teamOut' \subseteq teamOut
  PROVE  /\ teamShown' = sh /\ teamRead' \in [Team!Lists -> TeamRead]
         /\ \A l \in Team!Lists : teamRead'[l] = rd[l] \/ teamRead'[l].st \in {"asked", "idle"}
         /\ teamCrossed \subseteq teamCrossed' /\ teamCrossed' \subseteq Team!Lists
         /\ \A l \in Team!Lists \ teamCrossed' : \A r \in teamOut' :
              (l \in Team!On(r.w.v) /\ teamRead'[l].st = "asked") => teamRead[l].st = "asked"
<1>1. teamRead' \in {rd, [rd EXCEPT !["invites"] = Team!Asked], [rd EXCEPT !["invites"] = Team!Idle]}
  BY DEF Team!Moves
<1>2. /\ teamRead' \in [Team!Lists -> TeamRead]
      /\ \A l \in Team!Lists : teamRead'[l] = rd[l] \/ teamRead'[l].st \in {"asked", "idle"}
  BY <1>1, TeamTypes
<1>3. teamCrossed' = teamCrossed \cup
        Team!Met({l \in Team!Lists : teamRead'[l].st = "asked" /\ teamRead[l].st # "asked"}, teamOut')
  BY DEF Team!Moves
<1> QED BY <1>2, <1>3 DEF Team!Moves, Team!Met, TeamTyped

\* What every move of a read leaves, and whatever ends a request unreported.
LEMMA TeamMoved ==
  ASSUME TeamInv, NEW sh \in [Team!Lists -> Team!Copies], NEW rd \in [Team!Lists -> TeamRead], Team!Moves(sh, rd),
         \A l \in Team!Lists : rd[l] = teamRead[l] \/ rd[l].st # "served",
         \A l \in Team!Lists \ teamCrossed : sh[l] # Team!Blank => Team!Told(l) \subseteq sh[l],
         teamOut' \subseteq teamOut, UNCHANGED <<teamStored, teamTold, teamTab, dialog, teamWrites, seats>>
  PROVE  TeamInv'
<1>1. TeamTyped'
  BY TeamMoves DEF TeamInv, TeamTyped
<1>2. TeamSeats'
  BY DEF TeamInv, TeamSeats, OfRole
<1>3. teamCrossed \subseteq teamCrossed'
  BY TeamMoves DEF TeamInv
<1>4. ASSUME NEW l \in Team!Lists \ teamCrossed' PROVE TeamAlone(l)' /\ TeamKeeps(l)'
  <2>1. TeamAlone(l) /\ TeamKeeps(l)
    BY <1>3, <1>4 DEF TeamInv
  <2>2. teamShown' = sh /\ Team!Told(l)' = Team!Told(l)
    BY TeamMoves DEF TeamInv, Team!Told
  <2>3. teamRead'[l] = teamRead[l] \/ teamRead'[l].st # "served"
    BY <1>4, TeamMoves DEF TeamInv
  <2>4. ASSUME NEW r \in teamOut', l \in Team!On(r.w.v) PROVE ~Team!Reading(l)'
    <3>1. ~Team!Reading(l)
      BY <2>1, <2>4 DEF TeamAlone
    <3>2. teamRead'[l].st = "asked" => teamRead[l].st = "asked"
      BY <1>4, <2>4, TeamMoves DEF TeamInv
    <3> QED BY <2>3, <3>1, <3>2 DEF Team!Reading
  <2>5. TeamAlone(l)'
    BY <2>1, <2>4 DEF TeamAlone
  <2>6. TeamKeeps(l)'
    BY <1>3, <1>4, <2>1, <2>2, <2>3 DEF TeamKeeps
  <2> QED BY <2>5, <2>6
<1>5. "roles" \notin teamCrossed' => TeamDialogs'
  BY <1>3 DEF TeamInv, TeamDialogs, OfRole, Team!Told
<1>6. "invites" \notin teamCrossed' => TeamInvites'
  BY <1>3 DEF TeamInv, TeamInvites
<1> QED BY <1>1, <1>2, <1>4, <1>5, <1>6 DEF TeamInv

LEMMA TeamReads ==
  ASSUME TeamInv, NEW l \in Team!Lists,
         Team!ReadServed(l) \/ Team!ReadLands(l) \/ Team!ReadFails(l) \/ Team!Retry(l)
  PROVE  TeamInv'
<1>1. /\ teamRead \in [Team!Lists -> TeamRead] /\ teamShown \in [Team!Lists -> Team!Copies]
      /\ \A m \in Team!Lists \ teamCrossed : TeamAlone(m) /\ TeamKeeps(m)
  BY DEF TeamInv, TeamTyped
<1>2. CASE Team!ReadServed(l)
  <2>1. teamStored[l] \in Team!Copies
    BY TeamTypes DEF TeamInv, TeamTyped
  <2>2. teamRead' = [teamRead EXCEPT ![l] = [st |-> "served", got |-> teamStored[l]]]
        /\ UNCHANGED <<teamStored, teamShown, teamOut, teamTab, dialog, teamTold, teamCrossed, teamWrites, seats>>
        /\ teamRead[l].st = "asked"
    BY <1>2 DEF Team!ReadServed
  <2>3. [st |-> "served", got |-> teamStored[l]] \in TeamRead
    BY <2>1 DEF TeamRead
  <2>4. teamRead' \in [Team!Lists -> TeamRead]
    BY <1>1, <2>2, <2>3
  <2>5. TeamTyped'
    BY <2>2, <2>4 DEF TeamInv, TeamTyped
  <2>6. ASSUME NEW m \in Team!Lists \ teamCrossed PROVE TeamAlone(m)' /\ TeamKeeps(m)'
    <3>1. /\ teamRead'[m] = teamRead[m] \/ (teamRead[m].st = "asked" /\ teamRead'[m].got = teamStored[m])
      BY <1>1, <2>2
    <3>2. Team!Reading(m)' => Team!Reading(m)
      BY <1>1, <2>2, <2>6 DEF Team!Reading
    <3> QED BY <1>1, <2>2, <2>6, <3>1, <3>2 DEF TeamAlone, TeamKeeps, Team!Told
  <2> QED BY <2>2, <2>5, <2>6 DEF TeamInv, TeamSeats, TeamDialogs, TeamInvites, OfRole, Team!Told
<1>3. CASE Team!ReadLands(l)
  <2> DEFINE sh == [teamShown EXCEPT ![l] = teamRead[l].got]
             rd == [teamRead EXCEPT ![l] = Team!Idle]
  <2>1. Team!Moves(sh, rd) /\ teamRead[l].st = "served" /\ teamOut' = teamOut
        /\ UNCHANGED <<teamStored, teamTold, teamTab, dialog, teamWrites, seats>>
    BY <1>3 DEF Team!ReadLands
  <2>2. sh \in [Team!Lists -> Team!Copies] /\ rd \in [Team!Lists -> TeamRead]
    BY <1>1, TeamTypes DEF TeamRead
  <2>3. \A m \in Team!Lists : rd[m] = teamRead[m] \/ rd[m].st # "served"
    BY <1>1, TeamTypes
  <2>4. \A m \in Team!Lists \ teamCrossed : sh[m] # Team!Blank => Team!Told(m) \subseteq sh[m]
    BY <1>1, <2>1 DEF TeamKeeps
  <2> HIDE DEF sh, rd
  <2> QED BY <2>1, <2>2, <2>3, <2>4, TeamMoved
<1>4. CASE Team!ReadFails(l)
  <2> DEFINE sh == IF l = "invites" THEN teamShown ELSE [teamShown EXCEPT ![l] = Team!Blank]
             rd == [teamRead EXCEPT ![l] = [st |-> "failed", got |-> Team!Blank]]
  <2>1. Team!Moves(sh, rd) /\ teamOut' = teamOut
        /\ UNCHANGED <<teamStored, teamTold, teamTab, dialog, teamWrites, seats>>
    BY <1>4 DEF Team!ReadFails
  <2>2. sh \in [Team!Lists -> Team!Copies] /\ rd \in [Team!Lists -> TeamRead]
    BY <1>1, TeamTypes
  <2>3. \A m \in Team!Lists : rd[m] = teamRead[m] \/ rd[m].st # "served"
    BY <1>1, TeamTypes
  <2>4. \A m \in Team!Lists \ teamCrossed : sh[m] # Team!Blank => Team!Told(m) \subseteq sh[m]
    BY <1>1 DEF TeamKeeps
  <2> HIDE DEF sh, rd
  <2> QED BY <2>1, <2>2, <2>3, <2>4, TeamMoved
<1>5. CASE Team!Retry(l)
  <2> DEFINE sh == Team!Emptied(teamShown, {l})
             rd == Team!Started(teamRead, {l})
  <2>1. Team!Moves(sh, rd) /\ teamOut' = teamOut
        /\ UNCHANGED <<teamStored, teamTold, teamTab, dialog, teamWrites, seats>>
    BY <1>5 DEF Team!Retry
  <2>2. sh \in [Team!Lists -> Team!Copies] /\ rd \in [Team!Lists -> TeamRead]
    BY <1>1, TeamTypes DEF Team!Emptied, Team!Started
  <2>3. \A m \in Team!Lists : rd[m] = teamRead[m] \/ rd[m].st # "served"
    BY <1>1, TeamTypes DEF Team!Started
  <2>4. \A m \in Team!Lists \ teamCrossed : sh[m] # Team!Blank => Team!Told(m) \subseteq sh[m]
    BY <1>1 DEF TeamKeeps, Team!Emptied
  <2> HIDE DEF sh, rd
  <2> QED BY <2>1, <2>2, <2>3, <2>4, TeamMoved
<1> QED BY <1>2, <1>3, <1>4, <1>5

\* Screens and dialogs: a dialog that opens has a seat of its own.
LEMMA TeamOpens ==
  ASSUME TeamInv, Team!OpenDrawer \/ Team!OpenRole \/ Team!OpenInvite
  PROVE  TeamInv'
<1>1. PICK name \in {"drawer", "role", "newRole", "invite"}, seed \in Team!Copies :
        /\ Team!Opens(name, seed) /\ teamCrossed \subseteq teamCrossed' /\ teamCrossed' \subseteq Team!Lists
        /\ name \in {"role", "newRole"} => teamCrossed' = teamCrossed \cup Team!Met({"roles"}, teamOut)
        /\ name = "role" => seed = teamShown["roles"] /\ seed # Team!Blank
  <2> DEFINE Opened(name, seed) ==
        /\ Team!Opens(name, seed) /\ teamCrossed \subseteq teamCrossed' /\ teamCrossed' \subseteq Team!Lists
        /\ name \in {"role", "newRole"} => teamCrossed' = teamCrossed \cup Team!Met({"roles"}, teamOut)
        /\ name = "role" => seed = teamShown["roles"] /\ seed # Team!Blank
  <2>1. Team!OpenDrawer => Opened("drawer", Team!Blank)
    BY DEF Team!OpenDrawer, TeamInv, TeamTyped
  <2>2. Team!OpenInvite => Opened("invite", Team!Blank)
    BY DEF Team!OpenInvite, TeamInv, TeamTyped
  <2>3. Team!Met({"roles"}, teamOut) \subseteq Team!Lists /\ teamCrossed \subseteq Team!Lists
    BY TeamTypes DEF Team!Met, TeamInv, TeamTyped
  <2>4. Team!OpenRole => Opened("role", teamShown["roles"]) \/ Opened("newRole", {})
    BY <2>3 DEF Team!OpenRole, Team!Landed
  <2>5. teamShown["roles"] \in Team!Copies /\ Team!Blank \in Team!Copies /\ {} \in Team!Copies
    BY TeamTypes DEF TeamInv, TeamTyped
  <2> HIDE DEF Opened
  <2>6. \E name \in {"drawer", "role", "newRole", "invite"}, seed \in Team!Copies : Opened(name, seed)
    BY <2>1, <2>2, <2>4, <2>5
  <2> QED BY <2>6 DEF Opened
<1>2. /\ seats' = seats + 1 /\ seats' \in 1..MaxSeats
      /\ dialog' = [name |-> name, seat |-> seats + 1, seed |-> seed]
      /\ UNCHANGED <<teamStored, teamShown, teamRead, teamOut, teamTab, teamTold, teamWrites>>
  BY <1>1, TeamTypes DEF Team!Opens, TeamInv, TeamTyped
<1>3. dialog' \in TeamDialog /\ dialog'.name = name /\ dialog'.seat = seats + 1 /\ dialog'.seed = seed
  BY <1>2, TeamTypes DEF TeamDialog
<1>4. TeamTyped'
  BY <1>1, <1>2, <1>3, TeamTypes DEF TeamInv, TeamTyped
<1>5. TeamSeats'
  BY <1>2, <1>3, TeamTypes DEF TeamInv, TeamSeats, TeamTyped, Team!Requests, TeamTab
<1>6. ASSUME NEW l \in Team!Lists \ teamCrossed' PROVE TeamAlone(l)' /\ TeamKeeps(l)'
  <2>1. TeamAlone(l) /\ TeamKeeps(l)
    BY <1>1, <1>6 DEF TeamInv
  <2> QED BY <1>2, <2>1 DEF TeamAlone, TeamKeeps, Team!Told, Team!Reading
<1>7. ASSUME "roles" \notin teamCrossed' PROVE TeamDialogs'
  <2>1. TeamDialogs /\ TeamKeeps("roles") /\ dialog = Team!NoDialog
    BY <1>1, <1>7, TeamTypes DEF TeamInv, Team!Opens
  <2>2. \A r \in teamOut : r.then # "staff"
    BY <2>1, TeamTypes DEF TeamDialogs
  <2>3. name \in {"role", "newRole"} => \A r \in teamOut : "roles" \notin Team!On(r.w.v)
    BY <1>1, <1>7 DEF Team!Met
  <2>4. name = "role" => Team!Told("roles") \subseteq seed
    BY <1>1, <2>1 DEF TeamKeeps
  <2> QED BY <1>2, <1>3, <2>2, <2>3, <2>4 DEF TeamDialogs, OfRole, Team!Told
<1>8. "invites" \notin teamCrossed' => TeamInvites'
  BY <1>1, <1>2 DEF TeamInv, TeamInvites
<1> QED BY <1>4, <1>5, <1>6, <1>7, <1>8 DEF TeamInv

LEMMA TeamCloses == ASSUME TeamInv, Team!Close PROVE TeamInv'
<1>1. /\ dialog' = Team!NoDialog
      /\ UNCHANGED <<teamStored, teamShown, teamRead, teamOut, teamTab, teamTold, teamCrossed, teamWrites, seats>>
      /\ dialog.name \in Team!Modal => \A r \in teamOut : r.seat # dialog.seat
  BY DEF Team!Close
<1>2. TeamTyped'
  BY <1>1, TeamTypes DEF TeamInv, TeamTyped
<1>3. TeamSeats'
  BY <1>1, TeamTypes DEF TeamInv, TeamTyped, TeamSeats, OfRole
<1>4. ASSUME NEW l \in Team!Lists \ teamCrossed PROVE TeamAlone(l)' /\ TeamKeeps(l)'
  BY <1>1, <1>4 DEF TeamInv, TeamAlone, TeamKeeps, Team!Told, Team!Reading
<1>5. ASSUME "roles" \notin teamCrossed PROVE TeamDialogs'
  <2>1. \A r \in teamOut : r.then # "staff"
    BY <1>1, <1>5 DEF TeamInv, TeamDialogs, Team!Modal
  <2> QED BY <1>1, <2>1, TeamTypes DEF TeamDialogs, OfRole
<1> QED BY <1>1, <1>2, <1>3, <1>4, <1>5 DEF TeamInv, TeamInvites

LEMMA TeamSwitches == ASSUME TeamInv, Team!SwitchTab PROVE TeamInv'
<1>1. /\ dialog' = Team!NoDialog /\ dialog.name \notin Team!Modal
      /\ teamTab' = [name |-> IF teamTab.name = "members" THEN "roles" ELSE "members", seat |-> seats + 1]
      /\ seats' = seats + 1 /\ seats < MaxSeats
      /\ teamShown' = [teamShown EXCEPT !["invites"] = Team!Blank]
      /\ teamRead' \in {[teamRead EXCEPT !["invites"] = Team!Asked], [teamRead EXCEPT !["invites"] = Team!Idle]}
      /\ teamCrossed' = teamCrossed \cup Team!Met({"invites"}, teamOut)
      /\ UNCHANGED <<teamStored, teamOut, teamTold, teamWrites>>
  BY DEF Team!SwitchTab
<1>2. /\ teamRead' \in [Team!Lists -> TeamRead] /\ teamShown' \in [Team!Lists -> Team!Copies]
      /\ teamTab' \in TeamTab /\ teamCrossed' \subseteq Team!Lists /\ seats' \in 1..MaxSeats
      /\ teamTab'.seat = seats'
  <2>1. teamRead' \in [Team!Lists -> TeamRead] /\ teamShown' \in [Team!Lists -> Team!Copies]
    BY <1>1, TeamTypes DEF TeamInv, TeamTyped
  <2>2. seats' \in 1..MaxSeats
    BY <1>1, TeamTypes DEF TeamInv, TeamTyped
  <2>3. teamTab' \in TeamTab /\ teamTab'.seat = seats'
    BY <1>1, <2>2 DEF TeamTab
  <2>4. teamCrossed' \subseteq Team!Lists
    BY <1>1, TeamTypes DEF TeamInv, TeamTyped, Team!Met
  <2> QED BY <2>1, <2>2, <2>3, <2>4
<1>3. TeamTyped'
  BY <1>1, <1>2, TeamTypes DEF TeamInv, TeamTyped
<1>4. TeamSeats'
  BY <1>1, <1>2, TeamTypes DEF TeamInv, TeamTyped, TeamSeats, OfRole, Team!Requests
<1>5. ASSUME NEW l \in Team!Lists \ teamCrossed' PROVE TeamAlone(l)' /\ TeamKeeps(l)'
  <2>1. TeamAlone(l) /\ TeamKeeps(l) /\ teamRead \in [Team!Lists -> TeamRead]
        /\ teamShown \in [Team!Lists -> Team!Copies]
    BY <1>1, <1>5 DEF TeamInv, TeamTyped
  <2>2. CASE l = "invites"
    <3>1. \A r \in teamOut : l \notin Team!On(r.w.v)
      BY <1>1, <1>5, <2>2 DEF Team!Met
    <3>2. teamRead'[l].st # "served" /\ teamShown'[l] = Team!Blank
      BY <1>1, <2>1, <2>2, TeamTypes
    <3> QED BY <1>1, <2>1, <3>1, <3>2 DEF TeamAlone, TeamKeeps, Team!Told
  <2>3. CASE l # "invites"
    <3>1. teamRead'[l] = teamRead[l] /\ teamShown'[l] = teamShown[l]
      BY <1>1, <1>5, <2>1, <2>3
    <3> QED BY <1>1, <2>1, <3>1 DEF TeamAlone, TeamKeeps, Team!Told, Team!Reading
  <2> QED BY <2>2, <2>3
<1>6. ASSUME "roles" \notin teamCrossed' PROVE TeamDialogs'
  <2>1. \A r \in teamOut : r.then # "staff"
    BY <1>1, <1>6 DEF TeamInv, TeamDialogs, Team!Modal
  <2> QED BY <1>1, <2>1, TeamTypes DEF TeamDialogs, OfRole
<1>7. ASSUME "invites" \notin teamCrossed' PROVE TeamInvites'
  <2>1. \A r \in teamOut : "invites" \notin Team!On(r.w.v)
    BY <1>1, <1>7 DEF Team!Met
  <2>2. \A r \in teamOut : r.w.v \in Team!Verbs
    BY DEF TeamInv, TeamTyped, Team!Requests, Team!Writes
  <2> QED BY <1>1, <2>1, <2>2, TeamVerbs DEF TeamInvites
<1> QED BY <1>3, <1>4, <1>5, <1>6, <1>7 DEF TeamInv

\* Where each verb is offered.
LEMMA TeamOffered ==
  ASSUME TeamInv, NEW v \in Team!Verbs, Team!Offered(v)
  PROVE  /\ OfRole => v \in {"rename", "staff", "delete", "create"}
         /\ v \in {"rename", "staff", "delete"} => dialog.name = "role"
         /\ v \notin {"status", "remove", "resend", "revoke"} => dialog # Team!NoDialog
         /\ v = "toggle" => teamShown["roles"] # Team!Blank
<1>1. CASE v \in {"status", "remove"}
  BY <1>1 DEF Team!Offered, Team!OnRow, Team!Modal, OfRole
<1>2. CASE v \in {"access", "demote", "clients"}
  BY <1>2, TeamTypes DEF Team!Offered, Team!InDrawer, OfRole
<1>3. CASE v = "toggle"
  BY <1>3, TeamTypes DEF Team!Offered, Team!OnPills, OfRole
<1>4. CASE v \in {"resend", "revoke"}
  BY <1>4, TeamTypes DEF Team!Offered, Team!OnInvite, OfRole
<1>5. CASE v \in {"rename", "staff", "delete"}
  BY <1>5, TeamTypes DEF Team!Offered, Team!InRole, OfRole
<1>6. CASE v = "send"
  BY <1>6, TeamTypes DEF Team!Offered, OfRole
<1>7. CASE v = "create"
  BY <1>7, TeamTypes DEF Team!Offered, OfRole
<1>8. CASE v = "fill"
  BY <1>8 DEF Team!Offered
<1> QED BY <1>1, <1>2, <1>3, <1>4, <1>5, <1>6, <1>7, <1>8, TeamVerbs

LEMMA TeamSends ==
  ASSUME TeamTyped, NEW v \in Team!Verbs, NEW mount \in 1..MaxSeats, NEW then \in {"none", "staff", "fill"},
         teamWrites < MaxTeamWrites
  PROVE  /\ Team!Sent(v, mount, then) \in Team!Requests
         /\ Team!Sent(v, mount, then).w.v = v /\ Team!Sent(v, mount, then).seat = mount
         /\ Team!Sent(v, mount, then).st = "asked" /\ Team!Sent(v, mount, then).then = then
         /\ Team!Sent(v, mount, then).body = Team!Body(v)
         /\ teamWrites + 1 \in 0..MaxTeamWrites
<1>1. teamWrites + 1 \in 1..MaxTeamWrites
  BY TeamTypes DEF TeamTyped
<1>2. [id |-> teamWrites + 1, v |-> v] \in Team!Writes
  BY <1>1 DEF Team!Writes
<1>3. Team!Body(v) \in Team!Copies
  <2>1. dialog.seed \in Team!Copies /\ teamShown["roles"] \in Team!Copies /\ teamShown["members"] \in Team!Copies
    BY TeamTypes DEF TeamTyped, TeamDialog
  <2> QED BY <2>1, TeamTypes DEF Team!Body
<1> QED BY <1>1, <1>2, <1>3, TeamTypes DEF Team!Sent, Team!Requests

LEMMA TeamBegins ==
  ASSUME TeamInv, NEW v \in Team!Verbs, Team!Begin(v)
  PROVE  TeamInv'
<1>1. PICK t \in Team!Then(v) : teamOut' = teamOut \cup {Team!Sent(v, Team!SeatOf(v), t)}
  BY DEF Team!Begin
<1> DEFINE n == Team!Sent(v, Team!SeatOf(v), t)
<1>2. /\ teamWrites < MaxTeamWrites /\ Team!Offered(v) /\ Team!Admin(teamShown) /\ teamWrites' = teamWrites + 1
      /\ teamCrossed' = teamCrossed \cup Team!Met(Team!On(v), teamOut) \cup {l \in Team!On(v) : Team!Reading(l)}
      /\ UNCHANGED <<teamStored, teamShown, teamRead, teamTab, dialog, teamTold, seats>>
  <2>1. {r \in teamOut : ~Team!SameLock(r, v, Team!SeatOf(v))} = teamOut
    BY DEF Team!Begin, Team!Held
  <2> QED BY <2>1 DEF Team!Begin
<1>3. TeamTyped
  BY DEF TeamInv
<1>4. Team!SeatOf(v) \in 1..MaxSeats /\ Team!SeatOf(v) <= seats
  BY <1>2, TeamOffered, TeamTypes DEF TeamInv, TeamTyped, TeamTab, TeamDialog, TeamSeats, Team!SeatOf
<1>5. t \in {"none", "staff", "fill"} /\ (t = "staff" => v = "rename")
  BY <1>1 DEF Team!Then
<1>6. /\ n \in Team!Requests /\ n.w.v = v /\ n.seat = Team!SeatOf(v) /\ n.st = "asked" /\ n.then = t
      /\ n.body = Team!Body(v) /\ teamWrites' \in 0..MaxTeamWrites
  BY <1>2, <1>3, <1>4, <1>5, TeamSends
<1> HIDE DEF n
<1>7. /\ OfRole => /\ v \in {"rename", "staff", "delete", "create"}
                   /\ "roles" \in Team!On(v) /\ Team!SeatOf(v) = dialog.seat
      /\ v \in {"rename", "staff", "delete"} => dialog.name = "role" /\ Team!SeatOf(v) = dialog.seat
      /\ v \in {"resend", "revoke"} => Team!SeatOf(v) = teamTab.seat
      /\ v = "toggle" => teamShown["roles"] # Team!Blank
  BY <1>2, TeamOffered, TeamVerbs DEF Team!SeatOf
<1>8. TeamTyped'
  <2>1. Team!On(v) \subseteq Team!Lists
    BY DEF Team!On
  <2> QED BY <1>1, <1>2, <1>3, <1>6, <2>1 DEF TeamTyped, Team!Met, n
<1>9. TeamSeats'
  BY <1>1, <1>2, <1>4, <1>6, <1>7 DEF TeamInv, TeamSeats, OfRole, n
<1>10. ASSUME NEW l \in Team!Lists \ teamCrossed' PROVE TeamAlone(l)' /\ TeamKeeps(l)'
  <2>1. TeamAlone(l) /\ TeamKeeps(l)
    BY <1>2, <1>10 DEF TeamInv
  <2>2. l \in Team!On(v) => ~Team!Reading(l) /\ \A r \in teamOut : l \notin Team!On(r.w.v)
    BY <1>2, <1>10 DEF Team!Met
  <2>3. TeamAlone(l)'
    BY <1>1, <1>2, <1>6, <2>1, <2>2 DEF TeamAlone, Team!Reading, n
  <2>4. ASSUME l \in Team!On(v), Team!Whole(v) PROVE Team!Told(l) \subseteq Team!Body(v)
    <3>1. CASE v = "toggle"
      BY <1>7, <2>1, <2>4, <3>1, TeamVerbs, TeamTypes DEF TeamKeeps, Team!Body
    <3>2. CASE v = "clients"
      BY <1>2, <2>1, <2>4, <3>2, TeamVerbs, TeamTypes DEF TeamKeeps, Team!Body, Team!Admin
    <3>3. CASE v = "staff"
      <4>1. l = "roles"
        BY <1>10, <2>4, <3>3, TeamVerbs, TeamTypes
      <4>2. TeamDialogs
        BY <1>2, <1>10, <4>1 DEF TeamInv
      <4> QED BY <1>7, <3>3, <4>1, <4>2 DEF TeamDialogs, Team!Body
    <3> QED BY <2>4, <3>1, <3>2, <3>3 DEF Team!Whole
  <2>5. TeamKeeps(l)'
    BY <1>1, <1>2, <1>6, <2>1, <2>4 DEF TeamKeeps, Team!Told, n
  <2> QED BY <2>3, <2>5
<1>11. ASSUME "roles" \notin teamCrossed' PROVE TeamDialogs'
  <2>1. TeamDialogs
    BY <1>2, <1>11 DEF TeamInv
  <2> QED BY <1>1, <1>2, <1>5, <1>6, <1>7, <2>1 DEF TeamDialogs, OfRole, Team!Told, n
<1>12. ASSUME "invites" \notin teamCrossed' PROVE TeamInvites'
  BY <1>1, <1>2, <1>6, <1>7, <1>12 DEF TeamInv, TeamInvites, n
<1> QED BY <1>8, <1>9, <1>10, <1>11, <1>12 DEF TeamInv

\* An answer on its way names what was asked.
LEMMA TeamCarries ==
  ASSUME TeamTyped, NEW r \in teamOut, NEW n \in Team!Requests,
         n.w = r.w, n.seat = r.seat, n.then = r.then, n.body = r.body, n.st # "asked",
         teamOut' = (teamOut \ {r}) \cup {n},
         \A l \in Team!Lists \ teamCrossed :
           /\ TeamKeeps(l) => Team!Told(l) \subseteq teamStored'[l]
           /\ (TeamAlone(l) /\ TeamKeeps(l) /\ l \in Team!On(r.w.v) /\ n.st = "served") =>
                /\ r.w \in teamStored'[l]
                /\ l \notin Team!Rereads(r.w.v) => Team!Told(l) \cup {r.w} \subseteq n.got
           /\ l \notin Team!On(r.w.v) => teamStored'[l] = teamStored[l],
         teamStored' \in [Team!Lists -> SUBSET Team!Writes],
         UNCHANGED <<teamShown, teamRead, teamTab, dialog, teamTold, teamCrossed, teamWrites, seats>>,
         TeamInv
  PROVE  TeamInv'
<1>1. TeamTyped'
  BY DEF TeamTyped
<1>2. TeamSeats'
  BY DEF TeamInv, TeamSeats, OfRole
<1>3. ASSUME NEW l \in Team!Lists \ teamCrossed' PROVE TeamAlone(l)' /\ TeamKeeps(l)'
  <2>1. TeamAlone(l) /\ TeamKeeps(l) /\ l \notin teamCrossed
    BY <1>3 DEF TeamInv
  <2>2. TeamAlone(l)'
    BY <2>1 DEF TeamAlone, Team!Reading
  <2>3. Team!Told(l)' = Team!Told(l)
    BY DEF Team!Told
  <2>4. Team!Told(l) \subseteq teamStored'[l]
    BY <1>3, <2>1
  <2>5. ASSUME NEW q \in teamOut', l \in Team!On(q.w.v)
        PROVE  /\ (q.st = "asked" /\ Team!Whole(q.w.v)) => Team!Told(l) \subseteq q.body
               /\ q.st = "served" =>
                    /\ q.w \in teamStored'[l]
                    /\ l \notin Team!Rereads(q.w.v) => Team!Told(l) \cup {q.w} \subseteq q.got
    <3>1. CASE q = n
      BY <1>3, <2>1, <2>5, <3>1
    <3>2. CASE q \in teamOut /\ q # r
      <4>1. l \notin Team!On(r.w.v)
        BY <2>1, <2>5, <3>2 DEF TeamAlone
      <4>2. teamStored'[l] = teamStored[l]
        BY <1>3, <2>1, <4>1
      <4> QED BY <2>1, <2>5, <3>2, <4>2 DEF TeamKeeps
    <3> QED BY <3>1, <3>2
  <2>6. TeamKeeps(l)'
    BY <2>1, <2>3, <2>4, <2>5 DEF TeamKeeps
  <2> QED BY <2>2, <2>6
<1>4. "roles" \notin teamCrossed' => TeamDialogs'
  BY DEF TeamInv, TeamDialogs, OfRole, Team!Told
<1>5. "invites" \notin teamCrossed' => TeamInvites'
  BY DEF TeamInv, TeamInvites
<1> QED BY <1>1, <1>2, <1>3, <1>4, <1>5 DEF TeamInv

LEMMA TeamServes ==
  ASSUME TeamInv, NEW r \in teamOut, Team!Serve(r)
  PROVE  TeamInv'
<1>1. /\ r.st = "asked" /\ r \in Team!Requests /\ r.w \in Team!Writes /\ r.w.v \in Team!Verbs
      /\ teamStored \in [Team!Lists -> SUBSET Team!Writes] /\ TeamTyped
  BY DEF Team!Serve, TeamInv, TeamTyped, Team!Requests, Team!Writes
<1> DEFINE m == CHOOSE l \in Team!Lists : l \in Team!On(r.w.v) \ Team!Rereads(r.w.v)
           n == [r EXCEPT !.st = "served", !.got = teamStored'[m]]
<1>2. /\ teamStored' = [l \in Team!Lists |-> IF l \in Team!On(r.w.v)
                                             THEN (teamStored[l] \ Team!Replaced(l, r)) \cup {r.w} ELSE teamStored[l]]
      /\ teamOut' = (teamOut \ {r}) \cup {n}
      /\ UNCHANGED <<teamShown, teamRead, teamTab, dialog, teamTold, teamCrossed, teamWrites, seats>>
  BY DEF Team!Serve
<1>3. teamStored' \in [Team!Lists -> SUBSET Team!Writes]
  BY <1>1, <1>2
<1>4. m \in Team!On(r.w.v) \ Team!Rereads(r.w.v) /\ m \in Team!Lists
  <2>1. \E l \in Team!Lists : l \in Team!On(r.w.v) \ Team!Rereads(r.w.v)
    BY <1>1, TeamVerbs, TeamTypes DEF Team!Rereads
  <2> QED BY <2>1
<1>5. \A l \in Team!On(r.w.v) \ Team!Rereads(r.w.v) : l = m
  BY <1>1, TeamAnswered
<1> HIDE DEF m
<1>6. /\ n \in Team!Requests /\ n.w = r.w /\ n.seat = r.seat /\ n.then = r.then /\ n.body = r.body
      /\ n.st = "served" /\ n.got = teamStored'[m]
  <2>1. teamStored'[m] \in Team!Copies
    BY <1>3, <1>4, TeamTypes
  <2> QED BY <1>1, <2>1 DEF Team!Requests
<1> HIDE DEF n
<1>7. ASSUME NEW l \in Team!Lists \ teamCrossed, TeamAlone(l), TeamKeeps(l)
      PROVE  Team!Told(l) \subseteq teamStored'[l]
  <2>1. l \in Team!On(r.w.v) => Team!Told(l) \cap Team!Replaced(l, r) = {}
    BY <1>1, <1>7 DEF TeamKeeps, Team!Replaced
  <2> QED BY <1>2, <1>7, <2>1 DEF TeamKeeps
<1>8. ASSUME NEW l \in Team!Lists \ teamCrossed
      PROVE  /\ TeamKeeps(l) => Team!Told(l) \subseteq teamStored'[l]
             /\ (TeamAlone(l) /\ TeamKeeps(l) /\ l \in Team!On(r.w.v) /\ n.st = "served") =>
                  /\ r.w \in teamStored'[l]
                  /\ l \notin Team!Rereads(r.w.v) => Team!Told(l) \cup {r.w} \subseteq n.got
             /\ l \notin Team!On(r.w.v) => teamStored'[l] = teamStored[l]
  <2>1. TeamAlone(l)
    BY <1>8 DEF TeamInv
  <2>2. TeamKeeps(l) => Team!Told(l) \subseteq teamStored'[l]
    BY <1>7, <1>8, <2>1
  <2>3. l \in Team!On(r.w.v) => r.w \in teamStored'[l]
    BY <1>2, <1>8
  <2>4. (l \in Team!On(r.w.v) /\ l \notin Team!Rereads(r.w.v)) => n.got = teamStored'[l]
    BY <1>5, <1>6
  <2>5. l \notin Team!On(r.w.v) => teamStored'[l] = teamStored[l]
    BY <1>2, <1>8
  <2> QED BY <2>2, <2>3, <2>4, <2>5
<1> QED BY <1>1, <1>2, <1>3, <1>6, <1>8, TeamCarries

LEMMA TeamRefuses ==
  ASSUME TeamInv, NEW r \in teamOut, Team!Refuse(r)
  PROVE  TeamInv'
<1> DEFINE n == [r EXCEPT !.st = "refused"]
<1>1. /\ r \in Team!Requests /\ TeamTyped /\ teamOut' = (teamOut \ {r}) \cup {n}
      /\ UNCHANGED <<teamStored, teamShown, teamRead, teamTab, dialog, teamTold, teamCrossed, teamWrites, seats>>
  BY DEF Team!Refuse, TeamInv, TeamTyped
<1>2. /\ n \in Team!Requests /\ n.w = r.w /\ n.seat = r.seat /\ n.then = r.then /\ n.body = r.body
      /\ n.st = "refused"
  BY <1>1 DEF Team!Requests
<1> HIDE DEF n
<1>3. teamStored' \in [Team!Lists -> SUBSET Team!Writes]
  BY <1>1 DEF TeamTyped
<1>4. \A l \in Team!Lists \ teamCrossed : TeamKeeps(l) => Team!Told(l) \subseteq teamStored'[l]
  BY <1>1 DEF TeamKeeps
<1> QED BY <1>1, <1>2, <1>3, <1>4, TeamCarries

LEMMA TeamFails ==
  ASSUME TeamInv, NEW r \in teamOut, Team!Fails(r)
  PROVE  TeamInv'
<1> DEFINE ls == Team!RereadsOnFailure(r.w.v, r.st = "refused")
           sh == Team!Emptied(teamShown, ls)
           rd == Team!Started(teamRead, ls)
<1>1. Team!Moves(sh, rd) /\ teamOut' \subseteq teamOut
      /\ UNCHANGED <<teamStored, teamTold, teamTab, dialog, teamWrites, seats>>
  BY DEF Team!Fails, Team!Over
<1> HIDE DEF ls
<1>2. /\ teamRead \in [Team!Lists -> TeamRead] /\ teamShown \in [Team!Lists -> Team!Copies]
      /\ \A m \in Team!Lists \ teamCrossed : TeamKeeps(m)
  BY DEF TeamInv, TeamTyped
<1>3. sh \in [Team!Lists -> Team!Copies] /\ rd \in [Team!Lists -> TeamRead]
  BY <1>2, TeamTypes DEF Team!Emptied, Team!Started
<1>4. \A m \in Team!Lists : rd[m] = teamRead[m] \/ rd[m].st # "served"
  BY <1>2, TeamTypes DEF Team!Started
<1>5. \A m \in Team!Lists \ teamCrossed : sh[m] # Team!Blank => Team!Told(m) \subseteq sh[m]
  BY <1>2 DEF TeamKeeps, Team!Emptied
<1> HIDE DEF sh, rd
<1> QED BY <1>1, <1>3, <1>4, <1>5, TeamMoved

\* What an answer puts into the copy of a list, if anything, has all that was
\* reported of it, and what the answer reports.
LEMMA TeamPatches ==
  ASSUME TeamInv, NEW r \in teamOut, r.st = "served", NEW l \in Team!Lists
  PROVE  /\ Team!Patched(r) \in [Team!Lists -> Team!Copies]
         /\ l \notin Team!On(r.w.v) => Team!Patched(r)[l] = teamShown[l]
         /\ (l \notin teamCrossed /\ l \in Team!On(r.w.v) /\ l \notin Team!Rereads(r.w.v)
               /\ Team!Patched(r)[l] # Team!Blank) => Team!Told(l) \cup {r.w} \subseteq Team!Patched(r)[l]
<1>1. /\ r \in Team!Requests /\ r.w.v \in Team!Verbs /\ r.got \in Team!Copies
      /\ teamShown \in [Team!Lists -> Team!Copies]
  BY DEF TeamInv, TeamTyped, Team!Requests, Team!Writes
<1>2. /\ Team!Patched(r) \in [Team!Lists -> Team!Copies]
      /\ l \notin Team!On(r.w.v) => Team!Patched(r)[l] = teamShown[l]
  BY <1>1 DEF Team!Patched, Team!Patch
<1>3. ASSUME l \notin teamCrossed, l \in Team!On(r.w.v), l \notin Team!Rereads(r.w.v), Team!Patched(r)[l] # Team!Blank
      PROVE  Team!Told(l) \cup {r.w} \subseteq Team!Patched(r)[l]
  <2>1. TeamKeeps(l)
    BY <1>3 DEF TeamInv
  <2>2. Team!Patched(r)[l] = Team!Patch(l, r)
    BY <1>3 DEF Team!Patched
  <2>3. (l = "invites" /\ r.w.v # "send") => r.seat = teamTab.seat
    BY <1>1, <1>3, TeamVerbs DEF TeamInv, TeamInvites
  <2>4. Team!Patch(l, r) = r.got
    BY <1>3, <2>2, <2>3 DEF Team!Patch
  <2> QED BY <1>3, <2>1, <2>2, <2>4 DEF TeamKeeps
<1> QED BY <1>2, <1>3

LEMMA TeamGoesOn ==
  ASSUME TeamInv, NEW r \in teamOut, Team!GoesOn(r)
  PROVE  TeamInv'
<1> DEFINE n == Team!Sent(r.then, r.seat, "none")
<1>1. /\ r.st = "served" /\ r.then # "none" /\ teamWrites < MaxTeamWrites /\ teamWrites' = teamWrites + 1
      /\ teamOut' = (teamOut \ {r}) \cup {n}
      /\ teamShown' = IF r.w.v = "rename" THEN Team!Patched(r) ELSE teamShown
      /\ UNCHANGED <<teamStored, teamRead, teamTab, dialog, teamTold, teamCrossed, seats>>
  BY DEF Team!GoesOn
<1>2. TeamTyped /\ r \in Team!Requests /\ r.w.v \in Team!Verbs /\ r.seat \in 1..MaxSeats /\ r.seat <= seats
  BY DEF TeamInv, TeamTyped, TeamSeats, Team!Requests, Team!Writes
<1>3. r.then \in {"staff", "fill"} /\ r.w.v \in {"rename", "create"} /\ (r.then = "staff" => r.w.v = "rename")
  BY <1>1, <1>2 DEF TeamInv, TeamSeats, Team!Then
<1>4. /\ r.then \in Team!Verbs /\ "roles" \in Team!On(r.w.v) /\ "roles" \in Team!On(r.then)
      /\ \A l \in Team!Lists : l \in Team!On(r.then) <=> l = "roles"
      /\ \A l \in Team!Lists : l \in Team!On(r.w.v) <=> l = "roles"
      /\ Team!Rereads(r.w.v) = {}
  BY <1>2, <1>3, TeamVerbs, TeamTypes DEF Team!Rereads
<1>5. /\ n \in Team!Requests /\ n.w.v = r.then /\ n.seat = r.seat /\ n.st = "asked" /\ n.then = "none"
      /\ n.body = Team!Body(r.then) /\ teamWrites' \in 0..MaxTeamWrites
  BY <1>1, <1>2, <1>4, TeamSends
<1> HIDE DEF n
<1>6. /\ teamShown' \in [Team!Lists -> Team!Copies]
      /\ \A l \in Team!Lists : l # "roles" => teamShown'[l] = teamShown[l]
      /\ ("roles" \notin teamCrossed /\ teamShown'["roles"] # Team!Blank) => Team!Told("roles") \subseteq teamShown'["roles"]
  <2>1. teamShown \in [Team!Lists -> Team!Copies]
    BY <1>2 DEF TeamTyped
  <2>2. "roles" \notin teamCrossed => TeamKeeps("roles")
    BY TeamTypes DEF TeamInv
  <2>3. "roles" \in Team!Lists
    BY TeamTypes
  <2>4. CASE r.w.v = "rename"
    <3>1. teamShown' = Team!Patched(r)
      BY <1>1, <2>4
    <3>2. \A l \in Team!Lists : l # "roles" => teamShown'[l] = teamShown[l]
      BY <1>1, <1>4, <3>1, TeamPatches
    <3>3. ("roles" \notin teamCrossed /\ teamShown'["roles"] # Team!Blank) => Team!Told("roles") \subseteq teamShown'["roles"]
      BY <1>1, <1>4, <2>3, <3>1, TeamPatches
    <3>4. teamShown' \in [Team!Lists -> Team!Copies]
      BY <1>1, <2>3, <3>1, TeamPatches
    <3> QED BY <3>2, <3>3, <3>4
  <2>5. CASE r.w.v # "rename"
    BY <1>1, <2>1, <2>2, <2>5 DEF TeamKeeps
  <2> QED BY <2>4, <2>5
<1>7. TeamTyped'
  BY <1>1, <1>2, <1>5, <1>6 DEF TeamTyped
<1>8. TeamSeats'
  BY <1>1, <1>2, <1>4, <1>5 DEF TeamInv, TeamSeats, OfRole, Team!Then
<1>9. ASSUME NEW l \in Team!Lists \ teamCrossed PROVE TeamAlone(l)' /\ TeamKeeps(l)'
  <2>1. TeamAlone(l) /\ TeamKeeps(l)
    BY <1>9 DEF TeamInv
  <2>2. CASE l = "roles"
    <3>1. \A q \in teamOut' : l \in Team!On(q.w.v) => q = n
      BY <1>1, <1>4, <2>1, <2>2 DEF TeamAlone
    <3>2. ~Team!Reading(l)
      BY <1>4, <2>1, <2>2 DEF TeamAlone
    <3>3. Team!Whole(r.then) => Team!Told(l) \subseteq n.body
      <4>1. TeamDialogs
        BY <1>9, <2>2 DEF TeamInv
      <4> QED BY <1>3, <1>5, <2>2, <4>1 DEF TeamDialogs, Team!Body, Team!Whole
    <3>4. TeamAlone(l)'
      BY <1>1, <3>1, <3>2 DEF TeamAlone, Team!Reading
    <3>5. TeamKeeps(l)'
      BY <1>1, <1>5, <1>6, <1>9, <2>1, <2>2, <3>1, <3>3 DEF TeamKeeps, Team!Told
    <3> QED BY <3>4, <3>5
  <2>3. CASE l # "roles"
    <3>1. \A q \in teamOut' : l \in Team!On(q.w.v) => q \in teamOut
      BY <1>1, <1>4, <1>5, <1>9, <2>3
    <3>2. TeamAlone(l)'
      BY <1>1, <2>1, <3>1 DEF TeamAlone, Team!Reading
    <3>3. TeamKeeps(l)'
      BY <1>1, <1>6, <1>9, <2>1, <2>3, <3>1 DEF TeamKeeps, Team!Told
    <3> QED BY <3>2, <3>3
  <2> QED BY <2>2, <2>3
<1>10. ASSUME "roles" \notin teamCrossed PROVE TeamDialogs'
  <2>1. TeamDialogs
    BY <1>10 DEF TeamInv
  <2> QED BY <1>1, <1>4, <1>5, <2>1 DEF TeamDialogs, OfRole, Team!Told
<1>11. ASSUME "invites" \notin teamCrossed PROVE TeamInvites'
  BY <1>1, <1>3, <1>5, <1>11 DEF TeamInv, TeamInvites
<1> QED BY <1>1, <1>7, <1>8, <1>9, <1>10, <1>11 DEF TeamInv

LEMMA TeamAnswers ==
  ASSUME TeamInv, NEW r \in teamOut, Team!Answer(r)
  PROVE  TeamInv'
<1> DEFINE ls == Team!Rereads(r.w.v)
           sh == Team!Emptied(Team!Patched(r), ls)
           rd == Team!Started(teamRead, ls)
<1>1. /\ r.st = "served" /\ r.then = "none" /\ teamOut' = teamOut \ {r} /\ Team!Moves(sh, rd)
      /\ teamTold' = teamTold \cup {r.w} /\ dialog' = Team!DoneIn(r)
      /\ UNCHANGED <<teamStored, teamTab, teamWrites, seats>>
  BY DEF Team!Answer, Team!Over
<1>2. /\ TeamTyped /\ TeamSeats /\ r \in Team!Requests /\ r.w \in Team!Writes /\ r.w.v \in Team!Verbs
      /\ teamRead \in [Team!Lists -> TeamRead] /\ teamShown \in [Team!Lists -> Team!Copies]
  BY DEF TeamInv, TeamTyped, Team!Requests, Team!Writes
<1>3. ls \subseteq Team!On(r.w.v) /\ ls \subseteq {"roles"}
  BY <1>2, TeamAnswered
<1> HIDE DEF ls
<1>4. Team!Patched(r) \in [Team!Lists -> Team!Copies]
  BY <1>1, TeamTypes, TeamPatches
<1>5. sh \in [Team!Lists -> Team!Copies] /\ rd \in [Team!Lists -> TeamRead]
  BY <1>2, <1>4, TeamTypes DEF Team!Emptied, Team!Started
<1>6. \A l \in Team!Lists : rd[l] = teamRead[l] \/ rd[l].st # "served"
  BY <1>2, TeamTypes DEF Team!Started
<1>7. \A l \in Team!Lists : sh[l] = Team!Patched(r)[l] \/ sh[l] = Team!Blank
  BY DEF Team!Emptied
<1>8. \A l \in ls : l \in Team!Lists => sh[l] = Team!Blank
  BY <1>3 DEF Team!Emptied
<1> HIDE DEF sh, rd
<1>9. /\ teamShown' = sh /\ teamRead' \in [Team!Lists -> TeamRead]
      /\ \A l \in Team!Lists : teamRead'[l] = rd[l] \/ teamRead'[l].st \in {"asked", "idle"}
      /\ teamCrossed \subseteq teamCrossed' /\ teamCrossed' \subseteq Team!Lists
      /\ \A l \in Team!Lists \ teamCrossed' : \A q \in teamOut' :
           (l \in Team!On(q.w.v) /\ teamRead'[l].st = "asked") => teamRead[l].st = "asked"
  BY <1>1, <1>2, <1>5, TeamMoves
<1>10. dialog' \in {dialog, Team!NoDialog}
  BY <1>1 DEF Team!DoneIn
<1>11. TeamTyped'
  BY <1>1, <1>2, <1>5, <1>9, <1>10, TeamTypes DEF TeamTyped
<1>12. TeamSeats'
  BY <1>1, <1>2, <1>10, TeamTypes DEF TeamSeats, OfRole, TeamTyped
<1>13. ASSUME NEW l \in Team!Lists \ teamCrossed' PROVE TeamAlone(l)' /\ TeamKeeps(l)'
  <2>1. TeamAlone(l) /\ TeamKeeps(l) /\ l \notin teamCrossed
    BY <1>9, <1>13 DEF TeamInv
  <2>2. teamRead'[l].st = "served" => teamRead'[l] = teamRead[l]
    BY <1>6, <1>9, <1>13
  <2>3. ASSUME NEW q \in teamOut', l \in Team!On(q.w.v) PROVE ~Team!Reading(l)'
    <3>1. ~Team!Reading(l)
      BY <1>1, <2>1, <2>3 DEF TeamAlone
    <3>2. teamRead'[l].st = "asked" => teamRead[l].st = "asked"
      BY <1>9, <1>13, <2>3
    <3> QED BY <2>2, <3>1, <3>2 DEF Team!Reading
  <2>4. TeamAlone(l)'
    BY <1>1, <2>1, <2>3 DEF TeamAlone
  <2>5. CASE l \in Team!On(r.w.v)
    <3>1. Team!Told(l)' \subseteq Team!Told(l) \cup {r.w}
      BY <1>1 DEF Team!Told
    <3>2. r.w \in teamStored[l] /\ Team!Told(l) \subseteq teamStored[l]
      BY <1>1, <2>1, <2>5 DEF TeamKeeps
    <3>3. teamRead'[l].st # "served"
      BY <2>1, <2>2, <2>5 DEF TeamAlone, Team!Reading
    <3>4. teamShown'[l] # Team!Blank => Team!Told(l)' \subseteq teamShown'[l]
      <4>1. ASSUME teamShown'[l] # Team!Blank PROVE Team!Told(l) \cup {r.w} \subseteq Team!Patched(r)[l]
        BY <1>1, <1>7, <1>8, <1>9, <1>13, <2>1, <2>5, <4>1, TeamPatches DEF ls
      <4> QED BY <1>7, <1>9, <1>13, <3>1, <4>1
    <3>5. \A q \in teamOut' : l \notin Team!On(q.w.v)
      BY <1>1, <2>1, <2>5 DEF TeamAlone
    <3> QED BY <1>1, <2>4, <3>1, <3>2, <3>3, <3>4, <3>5 DEF TeamKeeps
  <2>6. CASE l \notin Team!On(r.w.v)
    <3>1. Team!Told(l)' = Team!Told(l)
      BY <1>1, <1>2, <1>13, <2>6, TeamVerbs DEF Team!Told
    <3>2. Team!Patched(r)[l] = teamShown[l]
      BY <1>1, <1>13, <2>6, TeamPatches
    <3>3. teamShown'[l] # Team!Blank => Team!Told(l)' \subseteq teamShown'[l]
      BY <1>7, <1>9, <1>13, <2>1, <3>1, <3>2 DEF TeamKeeps
    <3> QED BY <1>1, <2>1, <2>2, <2>4, <3>1, <3>3 DEF TeamKeeps
  <2> QED BY <2>5, <2>6
<1>14. ASSUME "roles" \notin teamCrossed' PROVE TeamDialogs'
  <2>1. TeamDialogs /\ TeamAlone("roles")
    BY <1>9, <1>14, TeamTypes DEF TeamInv
  <2>2. CASE "roles" \in Team!On(r.w.v)
    <3>1. \A q \in teamOut' : "roles" \notin Team!On(q.w.v)
      BY <1>1, <2>1, <2>2 DEF TeamAlone
    <3>2. \A q \in teamOut' : q.then # "staff"
      <4>1. \A q \in teamOut' : q \in teamOut /\ q.w.v \in Team!Verbs /\ q.then \in Team!Then(q.w.v)
        BY <1>1, <1>2 DEF TeamTyped, TeamSeats, Team!Requests, Team!Writes
      <4> QED BY <3>1, <4>1, TeamVerbs DEF Team!Then
    <3>3. dialog'.name # "role"
      <4>1. OfRole => dialog' = Team!NoDialog
        BY <1>1, <2>1, <2>2 DEF TeamDialogs, OfRole, Team!DoneIn, Team!Modal
      <4> QED BY <1>10, <4>1, TeamTypes DEF OfRole
    <3> QED BY <3>1, <3>2, <3>3 DEF TeamDialogs, OfRole
  <2>3. CASE "roles" \notin Team!On(r.w.v)
    <3>1. Team!Told("roles")' = Team!Told("roles")
      BY <1>1, <1>2, <2>3, TeamVerbs, TeamTypes DEF Team!Told
    <3>2. OfRole => dialog' = dialog
      BY <1>1, <1>2, <2>3 DEF TeamSeats, OfRole, Team!DoneIn, Team!Modal
    <3>3. OfRole' => OfRole
      BY <1>10, TeamTypes DEF OfRole
    <3>4. dialog.name = "role" => OfRole
      BY DEF OfRole
    <3>5. dialog'.name = "role" => OfRole'
      BY DEF OfRole
    <3> QED BY <1>1, <2>1, <3>1, <3>2, <3>3, <3>4, <3>5 DEF TeamDialogs
  <2> QED BY <2>2, <2>3
<1>15. "invites" \notin teamCrossed' => TeamInvites'
  BY <1>1, <1>9 DEF TeamInv, TeamInvites
<1> QED BY <1>11, <1>12, <1>13, <1>14, <1>15 DEF TeamInv

LEMMA TeamNext == TeamInv /\ Team!Next => TeamInv'
BY TeamReads, TeamOpens, TeamCloses, TeamSwitches, TeamBegins, TeamServes, TeamRefuses, TeamFails,
   TeamGoesOn, TeamAnswers DEF Team!Next, Team!User, Team!Network

LEMMA TeamStays == TeamInv /\ UNCHANGED teamVars => TeamInv'
BY DEF teamVars, TeamInv, TeamTyped, TeamSeats, TeamAlone, TeamKeeps, TeamDialogs, TeamInvites, OfRole,
   Team!Told, Team!Reading

LEMMA TeamSettles == TeamInv => Team!SettledIsServed /\ Team!NothingUndone /\ Team!TypeOK
<1> SUFFICES ASSUME TeamInv PROVE Team!SettledIsServed /\ Team!NothingUndone /\ Team!TypeOK
  OBVIOUS
<1>1. Team!SettledIsServed /\ Team!NothingUndone
  BY DEF TeamInv, TeamKeeps, Team!SettledIsServed, Team!NothingUndone
<1>2. Team!TypeOK
  BY DEF TeamInv, TeamTyped, TeamSeats, TeamRead, Team!TypeOK
<1> QED BY <1>1, <1>2
------------------------------------------------------------------------------
(* The approval policies. *)

PolicyBuilder ==
  [p : 0..2, seat : 0..MaxMounts, working : Policy!Content, server : Policy!Row, dirty : BOOLEAN]
PolicyRead == [st : {"idle", "asked", "served", "failed"}, got : Policy!List]

PolicyTyped ==
  /\ policyRows \in Policy!List /\ copy \in Policy!List
  /\ policyRead \in [Policy!Reads -> PolicyRead] /\ policyOut \subseteq Policy!Requests
  /\ builder \in PolicyBuilder /\ policyCrossed \subseteq Policy!Policies
  /\ edits \in 0..MaxEdits /\ mounts \in 0..MaxMounts

\* A builder is known by its seat, and what it asks for is about its policy.
PolicySeats ==
  /\ builder # Policy!Closed => builder.p \in Policy!Policies /\ builder.seat \in 1..mounts
  /\ \A r \in policyOut :
       /\ r.seat <= mounts
       /\ r.p = 0 <=> r.k = "reorder"
       /\ r.k = "create" => r.p = 2
       /\ r.k \in {"save", "publish"} => r.seat > 0
       /\ (r.k \in {"save", "publish"} /\ builder # Policy!Closed /\ r.seat = builder.seat)
            => r.p = builder.p

\* A request about a policy that nothing crossed is alone with it: no other
\* one, no reordering and no read of the list is under way, and a builder of
\* that policy is the one that sent it.
PolicyAlone(p) ==
  \A r \in policyOut : r.p = p =>
    /\ ~Policy!Reading
    /\ \A q \in policyOut : q.k # "reorder" /\ (q.p = p => q = r)
    /\ (builder # Policy!Closed /\ builder.p = p)
         => r.k \in {"save", "publish"} /\ r.seat = builder.seat

Settling(p) == \E r \in policyOut : r.p = p /\ r.st = "served"

\* What is kept of such a policy is what is stored, unless the answer to what
\* was done to it is still on its way.
PolicyAbreast(p) ==
  /\ policyRead["policies"].st = "served" => policyRead["policies"].got[p] = policyRows[p]
  /\ \A r \in policyOut : (r.st = "served" /\ r.p \in {0, p}) => r.got[p] = policyRows[p]
  /\ policyRead["policies"].st = "idle" =>
       /\ Settling(p) \/ copy[p] = policyRows[p]
       /\ \A r \in policyOut : (r.p = p /\ r.k = "save") => copy[p].there
  /\ \A r \in policyOut : (r.p = p /\ r.k = "publish" /\ r.st = "asked") => r.body = policyRows[p].draft
  /\ \A r \in policyOut : (r.p = p /\ r.k = "create" /\ r.st = "served") => policyRows[p].there
  /\ (builder # Policy!Closed /\ builder.p = p) => policyRows[p].there
  /\ (builder # Policy!Closed /\ builder.p = p /\ ~Settling(p)) =>
       /\ builder.server = policyRows[p]
       /\ ~builder.dirty => builder.working = policyRows[p].draft

PolicyInv ==
  /\ PolicyTyped /\ PolicySeats
  /\ \A p \in Policy!Policies \ policyCrossed : PolicyAlone(p) /\ PolicyAbreast(p)

LEMMA PolicyTypes ==
  /\ MaxEdits \in Nat /\ MaxMounts \in Nat
  /\ {} \in Policy!Content /\ Policy!NoRow \in Policy!Row
  /\ Policy!NoRow = [there |-> FALSE, draft |-> {}, active |-> {}, status |-> "draft"]
  /\ Policy!Idle \in PolicyRead /\ Policy!Idle.st = "idle"
  /\ Policy!Asked \in PolicyRead /\ Policy!Asked.st = "asked"
  /\ [Policy!Idle EXCEPT !.st = "failed"] \in PolicyRead
  /\ [Policy!Idle EXCEPT !.st = "failed"].st = "failed"
  /\ Policy!Closed \in PolicyBuilder
  /\ "policies" \in Policy!Reads /\ "force" \in Policy!Reads
<1>1. MaxEdits \in Nat /\ MaxMounts \in Nat
  BY PageAssumption DEF Policy!PolicyAssumption
<1>2. {} \in Policy!Content /\ Policy!NoRow \in Policy!Row
  BY DEF Policy!Content, Policy!NoRow, Policy!Row
<1>3. Policy!Idle \in PolicyRead /\ Policy!Idle.st = "idle"
  BY <1>2 DEF Policy!Idle, PolicyRead, Policy!List
<1>4. Policy!Asked \in PolicyRead /\ Policy!Asked.st = "asked"
  BY <1>3 DEF Policy!Asked, PolicyRead
<1>5. /\ [Policy!Idle EXCEPT !.st = "failed"] \in PolicyRead
      /\ [Policy!Idle EXCEPT !.st = "failed"].st = "failed"
  BY <1>3 DEF PolicyRead
<1>6. Policy!Closed \in PolicyBuilder
  BY <1>1, <1>2 DEF Policy!Closed, PolicyBuilder
<1> QED BY <1>1, <1>2, <1>3, <1>4, <1>5, <1>6 DEF Policy!Reads, Policy!NoRow

LEMMA PolicyInit == Policy!Init => PolicyInv
<1> SUFFICES ASSUME Policy!Init PROVE PolicyInv
  OBVIOUS
<1>1. policyRows \in Policy!List
  <2>1. \A p \in Policy!Policies : [Policy!NoRow EXCEPT !.there = (p = 1)] \in Policy!Row
    BY PolicyTypes DEF Policy!Row
  <2> QED BY <2>1 DEF Policy!Init, Policy!List
<1>2. copy \in Policy!List /\ policyRead \in [Policy!Reads -> PolicyRead]
  BY PolicyTypes DEF Policy!Init, Policy!List
<1>3. PolicyTyped
  BY <1>1, <1>2, PolicyTypes DEF Policy!Init, PolicyTyped
<1>4. PolicySeats
  BY DEF Policy!Init, PolicySeats
<1>5. policyRead["policies"].st = "asked"
  BY PolicyTypes DEF Policy!Init
<1>6. ASSUME NEW p \in Policy!Policies PROVE PolicyAlone(p) /\ PolicyAbreast(p)
  BY <1>5 DEF Policy!Init, PolicyAlone, PolicyAbreast
<1> QED BY <1>3, <1>4, <1>6 DEF PolicyInv

------------------------------------------------------------------------------
\* The builder goes with its policy.
LEMMA PolicyKept ==
  ASSUME PolicyTyped, NEW list
  PROVE  Policy!Kept(list) \in {builder, Policy!Closed}
BY DEF Policy!Kept

\* What requests are about.
LEMMA PolicyAbout ==
  ASSUME PolicyTyped
  PROVE  \A S \in SUBSET policyOut : {r.p : r \in S} \ {0} \subseteq Policy!Policies
<1> SUFFICES ASSUME NEW S \in SUBSET policyOut, NEW x \in {r.p : r \in S}, x # 0
             PROVE  x \in Policy!Policies
  OBVIOUS
<1>1. PICK r \in policyOut : x = r.p
  OBVIOUS
<1>2. r.p \in 0..2
  BY DEF PolicyTyped, Policy!Requests
<1> QED BY <1>1, <1>2 DEF Policy!Policies

LEMMA PolicyReads ==
  ASSUME PolicyInv, NEW l \in Policy!Reads,
         \/ Policy!ReadServed(l) \/ Policy!ReadLands(l) \/ Policy!ReadFails(l) \/ Policy!Retry(l)
  PROVE  PolicyInv'
<1>1. /\ PolicyTyped /\ PolicySeats /\ policyRead[l] \in PolicyRead
      /\ policyRead \in [Policy!Reads -> PolicyRead]
  BY DEF PolicyInv, PolicyTyped
<1>2. CASE Policy!ReadServed(l)
  <2>1. policyRead' = [policyRead EXCEPT ![l] = [st |-> "served", got |-> policyRows]]
    BY <1>2 DEF Policy!ReadServed
  <2>2. PolicyTyped'
    BY <1>1, <1>2, <2>1 DEF Policy!ReadServed, PolicyTyped, PolicyRead
  <2>3. PolicySeats'
    BY <1>1, <1>2 DEF Policy!ReadServed, PolicySeats
  <2>4. Policy!Reading' = Policy!Reading
    BY <1>1, <1>2, <2>1, PolicyTypes DEF Policy!ReadServed, Policy!Reading
  <2>5. ASSUME NEW p \in Policy!Policies \ policyCrossed' PROVE PolicyAlone(p)' /\ PolicyAbreast(p)'
    <3>1. PolicyAlone(p) /\ PolicyAbreast(p) /\ UNCHANGED <<policyRows, copy, policyOut, builder>>
      BY <1>2, <2>5 DEF PolicyInv, Policy!ReadServed
    <3>2. PolicyAlone(p)'
      BY <2>4, <3>1 DEF PolicyAlone
    <3>3. PolicyAbreast(p)'
      BY <1>1, <1>2, <2>1, <3>1, PolicyTypes DEF PolicyAbreast, Settling, Policy!ReadServed
    <3> QED BY <3>2, <3>3
  <2> QED BY <2>2, <2>3, <2>5 DEF PolicyInv
<1>3. CASE Policy!ReadLands(l)
  <2>1. /\ policyRead' = [policyRead EXCEPT ![l] = Policy!Idle]
        /\ UNCHANGED <<policyRows, policyOut, policyCrossed, edits, mounts>>
        /\ policyRead[l].st = "served" /\ policyRead[l].got \in Policy!List
        /\ copy' \in {copy, policyRead[l].got} /\ builder' \in {builder, Policy!Closed}
        /\ l = "policies" => copy' = policyRead[l].got
        /\ l # "policies" => UNCHANGED <<copy, builder>>
    BY <1>1, <1>3, PolicyKept DEF Policy!ReadLands, PolicyRead
  <2>2. PolicyTyped'
    BY <1>1, <2>1, PolicyTypes DEF PolicyTyped
  <2>3. PolicySeats'
    BY <1>1, <2>1 DEF PolicySeats
  <2>4. ASSUME NEW p \in Policy!Policies \ policyCrossed' PROVE PolicyAlone(p)' /\ PolicyAbreast(p)'
    <3>1. PolicyAlone(p) /\ PolicyAbreast(p)
      BY <2>1, <2>4 DEF PolicyInv
    <3>2. Policy!Reading' => Policy!Reading
      BY <1>1, <2>1, PolicyTypes DEF Policy!Reading
    <3>3. PolicyAlone(p)'
      BY <2>1, <3>1, <3>2 DEF PolicyAlone
    <3>4. CASE l = "policies"
      <4>1. policyRead'["policies"].st = "idle" /\ Policy!Reading
        BY <1>1, <2>1, <3>4, PolicyTypes DEF Policy!Reading
      <4>2. \A r \in policyOut : r.p # p
        BY <3>1, <4>1 DEF PolicyAlone
      <4> QED BY <2>1, <3>1, <3>3, <3>4, <4>1, <4>2 DEF PolicyAbreast, Settling
    <3>5. CASE l # "policies"
      <4>1. policyRead'["policies"] = policyRead["policies"]
        BY <1>1, <2>1, <3>5, PolicyTypes
      <4>2. PolicyAbreast(p)'
        BY <2>1, <3>1, <3>5, <4>1 DEF PolicyAbreast, Settling
      <4> QED BY <3>3, <4>2
    <3> QED BY <3>4, <3>5
  <2> QED BY <2>2, <2>3, <2>4 DEF PolicyInv
<1>4. CASE Policy!ReadFails(l)
  <2>1. /\ policyRead' = [policyRead EXCEPT ![l] = [Policy!Idle EXCEPT !.st = "failed"]]
        /\ UNCHANGED <<policyRows, copy, policyOut, builder, policyCrossed, edits, mounts>>
    BY <1>4 DEF Policy!ReadFails
  <2>2. PolicyTyped' /\ PolicySeats'
    BY <1>1, <2>1, PolicyTypes DEF PolicyTyped, PolicySeats
  <2>3. ASSUME NEW p \in Policy!Policies \ policyCrossed' PROVE PolicyAlone(p)' /\ PolicyAbreast(p)'
    <3>1. PolicyAlone(p) /\ PolicyAbreast(p)
      BY <2>1, <2>3 DEF PolicyInv
    <3>2. \/ policyRead'["policies"] = policyRead["policies"]
          \/ policyRead'["policies"].st = "failed"
      BY <1>1, <2>1, PolicyTypes
    <3>3. Policy!Reading' => Policy!Reading
      BY <3>2 DEF Policy!Reading
    <3> QED BY <2>1, <3>1, <3>2, <3>3 DEF PolicyAlone, PolicyAbreast, Settling
  <2> QED BY <2>2, <2>3 DEF PolicyInv
<1>5. CASE Policy!Retry(l)
  <2>1. /\ policyRead' = [k \in Policy!Reads |-> IF k \in {l} THEN Policy!Asked ELSE policyRead[k]]
        /\ policyCrossed' = IF "policies" \in {l}
                            THEN policyCrossed \cup ({r.p : r \in policyOut} \ {0})
                            ELSE policyCrossed
        /\ UNCHANGED <<policyRows, copy, policyOut, builder, edits, mounts>>
    BY <1>5 DEF Policy!Retry, Policy!Runs
  <2>2. policyCrossed' \subseteq Policy!Policies /\ policyCrossed \subseteq policyCrossed'
    BY <1>1, <2>1, PolicyAbout DEF PolicyTyped
  <2>3. PolicyTyped' /\ PolicySeats'
    BY <1>1, <2>1, <2>2, PolicyTypes DEF PolicyTyped, PolicySeats
  <2>4. ASSUME NEW p \in Policy!Policies \ policyCrossed' PROVE PolicyAlone(p)' /\ PolicyAbreast(p)'
    <3>1. PolicyAlone(p) /\ PolicyAbreast(p) /\ p # 0
      BY <2>2, <2>4 DEF PolicyInv, Policy!Policies
    <3>2. CASE l = "policies"
      <4>1. policyRead'["policies"].st = "asked"
        BY <2>1, <3>2, PolicyTypes
      <4>2. \A r \in policyOut : r.p # p
        BY <2>1, <2>4, <3>1, <3>2
      <4> QED BY <2>1, <3>1, <4>1, <4>2 DEF PolicyAlone, PolicyAbreast, Settling
    <3>3. CASE l # "policies"
      <4>1. policyRead'["policies"] = policyRead["policies"]
        BY <2>1, <3>3, PolicyTypes
      <4>2. Policy!Reading' = Policy!Reading
        BY <4>1 DEF Policy!Reading
      <4> QED BY <2>1, <3>1, <4>1, <4>2 DEF PolicyAlone, PolicyAbreast, Settling
    <3> QED BY <3>2, <3>3
  <2> QED BY <2>3, <2>4 DEF PolicyInv
<1> QED BY <1>2, <1>3, <1>4, <1>5
------------------------------------------------------------------------------
\* The builder opened for a policy of a list.
LEMMA PolicySeeded ==
  ASSUME PolicyTyped, mounts < MaxMounts
  PROVE  \A p \in Policy!Policies, list \in Policy!List :
           /\ Policy!Seeded(p, list) \in PolicyBuilder
           /\ Policy!Seeded(p, list) # Policy!Closed
           /\ Policy!Seeded(p, list).p = p /\ Policy!Seeded(p, list).seat = mounts + 1
           /\ Policy!Seeded(p, list).working = list[p].draft
           /\ Policy!Seeded(p, list).server = list[p] /\ Policy!Seeded(p, list).dirty = FALSE
<1> SUFFICES ASSUME NEW p \in Policy!Policies, NEW list \in Policy!List
    PROVE  /\ Policy!Seeded(p, list) \in PolicyBuilder
           /\ Policy!Seeded(p, list) # Policy!Closed
           /\ Policy!Seeded(p, list).p = p /\ Policy!Seeded(p, list).seat = mounts + 1
           /\ Policy!Seeded(p, list).working = list[p].draft
           /\ Policy!Seeded(p, list).server = list[p] /\ Policy!Seeded(p, list).dirty = FALSE
  OBVIOUS
<1>1. mounts + 1 \in 0..MaxMounts /\ p \in 0..2 /\ p # 0
  BY PolicyTypes DEF PolicyTyped, Policy!Policies
<1>2. list[p] \in Policy!Row /\ list[p].draft \in Policy!Content
  BY DEF Policy!List, Policy!Row
<1> QED BY <1>1, <1>2 DEF Policy!Seeded, Policy!Closed, PolicyBuilder

LEMMA PolicyOpens ==
  ASSUME PolicyInv, NEW p \in Policy!Policies, Policy!Open(p)
  PROVE  PolicyInv'
<1>1. /\ builder' = Policy!Seeded(p, copy) /\ mounts' = mounts + 1 /\ mounts < MaxMounts
      /\ builder = Policy!Closed /\ policyRead["policies"].st = "idle" /\ copy[p].there
      /\ UNCHANGED <<policyRows, copy, policyRead, policyOut, edits>>
      /\ policyCrossed' = IF \E r \in policyOut : r.p = p THEN policyCrossed \cup {p}
                          ELSE policyCrossed
  BY DEF Policy!Open, Policy!Listed
<1>2. PolicyTyped /\ PolicySeats /\ mounts \in Nat
  BY DEF PolicyInv, PolicyTyped
<1>3. /\ builder' \in PolicyBuilder /\ builder' # Policy!Closed
      /\ builder'.p = p /\ builder'.seat = mounts + 1
      /\ builder'.working = copy[p].draft /\ builder'.server = copy[p]
  <2>1. copy \in Policy!List
    BY <1>2 DEF PolicyTyped
  <2>2. /\ Policy!Seeded(p, copy) \in PolicyBuilder /\ Policy!Seeded(p, copy) # Policy!Closed
        /\ Policy!Seeded(p, copy).p = p /\ Policy!Seeded(p, copy).seat = mounts + 1
        /\ Policy!Seeded(p, copy).working = copy[p].draft
        /\ Policy!Seeded(p, copy).server = copy[p]
    <3>1. PolicyTyped /\ mounts < MaxMounts
      BY <1>1, <1>2
    <3> QED BY <2>1, <3>1, PolicySeeded
  <2> QED BY <1>1, <2>2
<1>4. PolicyTyped'
  BY <1>1, <1>2, <1>3, PolicyTypes DEF PolicyTyped
<1>5. \A r \in policyOut : r.seat <= mounts /\ r.seat \in Nat
  BY <1>2 DEF PolicySeats, PolicyTyped, Policy!Requests
<1>6. PolicySeats'
  BY <1>1, <1>2, <1>3, <1>5 DEF PolicySeats
<1>7. ASSUME NEW q \in Policy!Policies \ policyCrossed' PROVE PolicyAlone(q)' /\ PolicyAbreast(q)'
  <2>1. PolicyAlone(q) /\ PolicyAbreast(q)
    BY <1>1, <1>7 DEF PolicyInv
  <2>2. q = p => \A r \in policyOut : r.p # p
    BY <1>1, <1>7
  <2>3. Policy!Reading' = Policy!Reading
    BY <1>1 DEF Policy!Reading
  <2> QED BY <1>1, <1>3, <2>1, <2>2, <2>3 DEF PolicyAlone, PolicyAbreast, Settling
<1> QED BY <1>4, <1>6, <1>7 DEF PolicyInv

LEMMA PolicyEdits ==
  ASSUME PolicyInv, Policy!Close \/ Policy!Edit
  PROVE  PolicyInv'
<1>1. PolicyTyped /\ PolicySeats
  BY DEF PolicyInv
<1>2. CASE Policy!Close
  <2>1. PolicyTyped' /\ PolicySeats'
    BY <1>1, <1>2, PolicyTypes DEF Policy!Close, PolicyTyped, PolicySeats
  <2>2. ASSUME NEW p \in Policy!Policies \ policyCrossed' PROVE PolicyAlone(p)' /\ PolicyAbreast(p)'
    BY <1>2, <2>2 DEF Policy!Close, PolicyInv, PolicyAlone, PolicyAbreast, Settling, Policy!Reading
  <2> QED BY <2>1, <2>2 DEF PolicyInv
<1>3. CASE Policy!Edit
  <2>1. /\ builder' = [p |-> builder.p, seat |-> builder.seat,
                       working |-> builder.working \cup {edits + 1}, server |-> builder.server,
                       dirty |-> TRUE]
        /\ builder # Policy!Closed /\ edits' = edits + 1 /\ edits' \in 0..MaxEdits
        /\ UNCHANGED <<policyRows, copy, policyRead, policyOut, policyCrossed, mounts>>
    <3>1. builder \in PolicyBuilder /\ edits \in 0..MaxEdits
      BY <1>1 DEF PolicyTyped
    <3>2. builder' = [p |-> builder.p, seat |-> builder.seat,
                      working |-> builder.working \cup {edits + 1}, server |-> builder.server,
                      dirty |-> TRUE]
      BY <1>3, <3>1 DEF Policy!Edit, PolicyBuilder
    <3>3. edits < MaxEdits => edits + 1 \in 0..MaxEdits
      BY <3>1, PolicyTypes
    <3> QED BY <1>3, <3>2, <3>3 DEF Policy!Edit
  <2>2. builder.working \cup {edits + 1} \in Policy!Content
    <3>1. edits + 1 \in 1..MaxEdits
      BY <1>1, <2>1, PolicyTypes DEF PolicyTyped
    <3>2. builder.working \in Policy!Content
      BY <1>1 DEF PolicyTyped, PolicyBuilder
    <3> QED BY <3>1, <3>2 DEF Policy!Content
  <2>3. builder' \in PolicyBuilder /\ builder'.p = builder.p /\ builder'.seat = builder.seat
    BY <1>1, <2>1, <2>2 DEF PolicyTyped, PolicyBuilder
  <2>4. PolicyTyped' /\ PolicySeats'
    BY <1>1, <2>1, <2>3 DEF PolicyTyped, PolicySeats
  <2>5. ASSUME NEW p \in Policy!Policies \ policyCrossed' PROVE PolicyAlone(p)' /\ PolicyAbreast(p)'
    <3>1. PolicyAlone(p) /\ PolicyAbreast(p)
      BY <2>1, <2>5 DEF PolicyInv
    <3> QED BY <2>1, <2>3, <3>1 DEF PolicyAlone, PolicyAbreast, Settling, Policy!Reading
  <2> QED BY <2>4, <2>5 DEF PolicyInv
<1> QED BY <1>2, <1>3

------------------------------------------------------------------------------
\* A request is sent: what it is about is crossed unless it is alone.
LEMMA PolicyAsks ==
  ASSUME PolicyInv, NEW k, NEW p, NEW at, NEW body, Policy!Asks(k, p, at, body),
         \/ /\ k \in {"save", "publish"} /\ builder # Policy!Closed
            /\ p = builder.p /\ at = builder.seat /\ body = builder.working
            /\ k = "publish" => ~builder.dirty
         \/ k \in {"create", "delete"} /\ builder = Policy!Closed /\ at = 0 /\ body = {}
            /\ p \in Policy!Policies /\ (k = "create" => p = 2)
         \/ k = "reorder" /\ p = 0 /\ at = mounts /\ body = {}
  PROVE  PolicyInv'
<1> DEFINE new == [k |-> k, p |-> p, seat |-> at, body |-> body, st |-> "asked",
                   got |-> Policy!Idle.got]
<1>1. /\ policyOut' = policyOut \cup {new}
      /\ policyCrossed' = policyCrossed \cup
           (IF k = "reorder" THEN {r.p : r \in policyOut} \ {0}
            ELSE IF Policy!Reading \/ \E r \in policyOut : r.p = p \/ r.k = "reorder"
                 THEN {p} ELSE {})
      /\ UNCHANGED <<policyRows, copy, policyRead, builder, edits, mounts>>
  BY DEF Policy!Asks
<1>2. PolicyTyped /\ PolicySeats
  BY DEF PolicyInv
<1>3. new \in Policy!Requests
  <2>1. p \in 0..2 /\ at \in 0..MaxMounts
    <3>1. builder.p \in 0..2 /\ builder.seat \in 0..MaxMounts /\ mounts \in 0..MaxMounts
      BY <1>2 DEF PolicyTyped, PolicyBuilder
    <3> QED BY <3>1, PolicyTypes DEF Policy!Policies
  <2>2. body \in Policy!Content
    <3>1. builder.working \in Policy!Content
      BY <1>2 DEF PolicyTyped, PolicyBuilder
    <3> QED BY <3>1, PolicyTypes
  <2>3. Policy!Idle.got \in Policy!List
    BY PolicyTypes DEF PolicyRead
  <2> QED BY <2>1, <2>2, <2>3 DEF Policy!Requests
<1>4. policyCrossed' \subseteq Policy!Policies /\ policyCrossed \subseteq policyCrossed'
  <2>1. k # "reorder" => p \in Policy!Policies
    BY <1>2 DEF PolicySeats
  <2>2. {r.p : r \in policyOut} \ {0} \subseteq Policy!Policies
    BY <1>2, PolicyAbout
  <2> QED BY <1>1, <1>2, <2>1, <2>2 DEF PolicyTyped
<1>5. PolicyTyped'
  BY <1>1, <1>2, <1>3, <1>4 DEF PolicyTyped
<1>6. PolicySeats'
  <2>1. /\ new.seat <= mounts /\ (new.p = 0 <=> new.k = "reorder")
        /\ new.k = "create" => new.p = 2
        /\ new.k \in {"save", "publish"} => new.seat > 0
        /\ new.k \in {"save", "publish"} => new.p = builder.p
    BY <1>2, PolicyTypes DEF PolicySeats, PolicyTyped, PolicyBuilder, Policy!Policies
  <2> QED BY <1>1, <1>2, <2>1 DEF PolicySeats
<1>7. ASSUME NEW q \in Policy!Policies \ policyCrossed' PROVE PolicyAlone(q)' /\ PolicyAbreast(q)'
  <2>1. PolicyAlone(q) /\ PolicyAbreast(q) /\ q # 0
    BY <1>4, <1>7 DEF PolicyInv, Policy!Policies
  <2>2. Policy!Reading' = Policy!Reading
    BY <1>1 DEF Policy!Reading
  <2>3. k = "reorder" => \A r \in policyOut : r.p # q
    BY <1>1, <1>7, <2>1
  <2>4. k # "reorder" /\ p = q => ~Policy!Reading /\ \A r \in policyOut : r.p # q /\ r.k # "reorder"
    BY <1>1, <1>7
  <2>5. PolicyAlone(q)'
    <3>1. ASSUME NEW r \in policyOut', r.p = q
          PROVE  /\ ~Policy!Reading
                 /\ \A o \in policyOut' : o.k # "reorder" /\ (o.p = q => o = r)
                 /\ (builder # Policy!Closed /\ builder.p = q)
                      => r.k \in {"save", "publish"} /\ r.seat = builder.seat
      <4>1. CASE r = new
        BY <1>1, <2>1, <2>4, <3>1, <4>1
      <4>2. CASE r \in policyOut
        BY <1>1, <2>1, <2>3, <2>4, <3>1, <4>2 DEF PolicyAlone
      <4> QED BY <1>1, <3>1, <4>1, <4>2
    <3> QED BY <1>1, <2>2, <3>1 DEF PolicyAlone
  <2>6. Settling(q)' = Settling(q)
    BY <1>1 DEF Settling
  <2>7. k = "save" /\ p = q /\ policyRead["policies"].st = "idle" => copy[q].there
    BY <1>1, <2>1, <2>4, PolicyTypes DEF PolicyAbreast, Settling
  <2>8. k = "publish" /\ p = q => body = policyRows[q].draft
    BY <2>1, <2>4 DEF PolicyAbreast, Settling
  <2>9. PolicyAbreast(q)'
    BY <1>1, <2>1, <2>6, <2>7, <2>8 DEF PolicyAbreast
  <2> QED BY <2>5, <2>9
<1> QED BY <1>5, <1>6, <1>7 DEF PolicyInv

LEMMA PolicySends ==
  ASSUME PolicyInv,
         \/ Policy!Save \/ Policy!Publish \/ Policy!Create \/ Policy!Reorder
         \/ \E p \in Policy!Policies : Policy!Delete(p)
  PROVE  PolicyInv'
<1>1. CASE Policy!Save
  BY <1>1, PolicyAsks DEF Policy!Save
<1>2. CASE Policy!Publish
  BY <1>2, PolicyAsks DEF Policy!Publish, Policy!Blocked
<1>3. CASE Policy!Create
  BY <1>3, PolicyAsks DEF Policy!Create, Policy!Policies
<1>4. CASE Policy!Reorder
  BY <1>4, PolicyAsks DEF Policy!Reorder
<1>5. ASSUME NEW p \in Policy!Policies, Policy!Delete(p) PROVE PolicyInv'
  BY <1>5, PolicyAsks DEF Policy!Delete, Policy!Listed
<1> QED BY <1>1, <1>2, <1>3, <1>4, <1>5

------------------------------------------------------------------------------
\* What the service does to the policies.
LEMMA PolicyStored ==
  ASSUME PolicyTyped, PolicySeats, NEW r \in policyOut, Policy!Serve(r)
  PROVE  /\ policyRows' \in Policy!List
         /\ \A q \in Policy!Policies : q # r.p => policyRows'[q] = policyRows[q]
         /\ r.k \in {"save", "publish", "create"} => policyRows'[r.p].there
         /\ r.k = "publish" => policyRows'[r.p].active = policyRows[r.p].draft
<1>1. /\ policyRows \in [Policy!Policies -> Policy!Row] /\ policyRows' = Policy!Stored(r)
      /\ r \in Policy!Requests
  BY DEF PolicyTyped, Policy!List, Policy!Serve
<1>2. CASE r.k \in {"save", "publish", "delete"}
  <2>1. r.p \in Policy!Policies /\ policyRows[r.p].there /\ policyRows[r.p] \in Policy!Row
    BY <1>1, <1>2 DEF PolicySeats, Policy!Serve, Policy!Requests, Policy!Policies
  <2>2. CASE r.k = "save"
    <3> DEFINE first == [policyRows EXCEPT ![r.p].draft = r.body]
    <3>1. policyRows' = [first EXCEPT ![r.p].status = "draft"]
      BY <1>1, <2>2 DEF Policy!Stored
    <3>2. [policyRows[r.p] EXCEPT !.draft = r.body] \in Policy!Row
      BY <1>1, <2>1 DEF Policy!Row, Policy!Requests
    <3>3. /\ first \in [Policy!Policies -> Policy!Row] /\ first[r.p].there
          /\ \A q \in Policy!Policies : q # r.p => first[q] = policyRows[q]
      BY <1>1, <2>1, <3>2 DEF Policy!Row
    <3> HIDE DEF first
    <3>4. [first[r.p] EXCEPT !.status = "draft"] \in Policy!Row
      BY <2>1, <3>3 DEF Policy!Row
    <3> QED BY <2>1, <2>2, <3>1, <3>3, <3>4 DEF Policy!List, Policy!Row
  <2>3. CASE r.k = "publish"
    <3> DEFINE first == [policyRows EXCEPT ![r.p].active = policyRows[r.p].draft]
    <3>1. policyRows' = [first EXCEPT ![r.p].status = "published"]
      BY <1>1, <2>3 DEF Policy!Stored
    <3>2. [policyRows[r.p] EXCEPT !.active = policyRows[r.p].draft] \in Policy!Row
      BY <1>1, <2>1 DEF Policy!Row
    <3>3. /\ first \in [Policy!Policies -> Policy!Row] /\ first[r.p].there
          /\ first[r.p].active = policyRows[r.p].draft
          /\ \A q \in Policy!Policies : q # r.p => first[q] = policyRows[q]
      BY <1>1, <2>1, <3>2 DEF Policy!Row
    <3> HIDE DEF first
    <3>4. [first[r.p] EXCEPT !.status = "published"] \in Policy!Row
      BY <2>1, <3>3 DEF Policy!Row
    <3> QED BY <2>1, <2>3, <3>1, <3>3, <3>4 DEF Policy!List, Policy!Row
  <2>4. CASE r.k = "delete"
    BY <1>1, <2>1, <2>4, PolicyTypes DEF Policy!Stored, Policy!List
  <2> QED BY <1>2, <2>2, <2>3, <2>4
<1>3. CASE r.k = "create"
  <2>1. PICK new : new = [Policy!NoRow EXCEPT !.there = TRUE]
    OBVIOUS
  <2>2. new \in Policy!Row /\ new.there
    BY <2>1, PolicyTypes DEF Policy!Row
  <2>3. policyRows' = [policyRows EXCEPT ![2] = new] /\ r.p = 2
    BY <1>1, <1>3, <2>1 DEF Policy!Stored, PolicySeats
  <2> QED BY <1>1, <1>3, <2>2, <2>3 DEF Policy!List, Policy!Policies
<1>4. CASE r.k = "reorder"
  BY <1>1, <1>4 DEF Policy!Stored, Policy!List
<1> QED BY <1>1, <1>2, <1>3, <1>4 DEF Policy!Requests

LEMMA PolicyServes ==
  ASSUME PolicyInv, NEW r \in policyOut, Policy!Serve(r)
  PROVE  PolicyInv'
<1> DEFINE new == [k |-> r.k, p |-> r.p, seat |-> r.seat, body |-> r.body, st |-> "served",
                   got |-> policyRows']
<1>1. PolicyTyped /\ PolicySeats /\ r \in Policy!Requests
  BY DEF PolicyInv, PolicyTyped
<1>2. /\ policyOut' = (policyOut \ {r}) \cup {new} /\ r.st = "asked"
      /\ UNCHANGED <<copy, policyRead, builder, policyCrossed, edits, mounts>>
  <2>1. [r EXCEPT !.st = "served", !.got = policyRows'] = new
    <3>1. PICK n : n = [r EXCEPT !.st = "served", !.got = policyRows']
      OBVIOUS
    <3>2. n = new
      BY <1>1, <3>1 DEF Policy!Requests
    <3> QED BY <3>1, <3>2
  <2> QED BY <2>1 DEF Policy!Serve
<1>3. /\ policyRows' \in Policy!List
      /\ \A q \in Policy!Policies : q # r.p => policyRows'[q] = policyRows[q]
      /\ r.k \in {"save", "publish", "create"} => policyRows'[r.p].there
  BY <1>1, PolicyStored
<1>4. new \in Policy!Requests
  BY <1>1, <1>3 DEF Policy!Requests
<1>5. PolicyTyped' /\ PolicySeats'
  BY <1>1, <1>2, <1>3, <1>4 DEF PolicyTyped, PolicySeats
<1>6. ASSUME NEW q \in Policy!Policies \ policyCrossed' PROVE PolicyAlone(q)' /\ PolicyAbreast(q)'
  <2>1. PolicyAlone(q) /\ PolicyAbreast(q) /\ q # 0
    BY <1>2, <1>6 DEF PolicyInv, Policy!Policies
  <2>2. Policy!Reading' = Policy!Reading
    BY <1>2 DEF Policy!Reading
  <2>3. PolicyAlone(q)'
    <3>1. ASSUME NEW o \in policyOut', o.p = q
          PROVE  /\ ~Policy!Reading
                 /\ \A x \in policyOut' : x.k # "reorder" /\ (x.p = q => x = o)
                 /\ (builder # Policy!Closed /\ builder.p = q)
                      => o.k \in {"save", "publish"} /\ o.seat = builder.seat
      <4>1. CASE o = new
        BY <1>2, <2>1, <3>1, <4>1 DEF PolicyAlone
      <4>2. CASE o \in policyOut \ {r}
        BY <1>2, <2>1, <3>1, <4>2 DEF PolicyAlone
      <4> QED BY <1>2, <3>1, <4>1, <4>2
    <3> QED BY <1>2, <2>2, <3>1 DEF PolicyAlone
  <2>4. CASE r.p = q
    <3>1. /\ ~Policy!Reading /\ \A o \in policyOut : o.k # "reorder" /\ (o.p = q => o = r)
          /\ (builder # Policy!Closed /\ builder.p = q) => r.k \in {"save", "publish"}
      BY <2>1, <2>4 DEF PolicyAlone
    <3>2. policyRead["policies"].st # "served"
      BY <3>1 DEF Policy!Reading
    <3>3. Settling(q)' /\ \A o \in policyOut' : o.p \in {0, q} => o = new
      <4>1. new \in policyOut' /\ new.p = q /\ new.st = "served"
        BY <1>2, <2>4
      <4>2. \A o \in policyOut : o.p # 0
        BY <1>1, <3>1 DEF PolicySeats
      <4> QED BY <1>2, <3>1, <4>1, <4>2 DEF Settling
    <3>4. policyRead["policies"].st = "idle" /\ r.k = "save" => copy[q].there
      BY <2>1, <2>4 DEF PolicyAbreast
    <3>5. PolicyAbreast(q)'
      BY <1>2, <1>3, <2>1, <2>4, <3>1, <3>2, <3>3, <3>4 DEF PolicyAbreast
    <3> QED BY <2>3, <3>5
  <2>5. CASE r.p # q
    <3>1. policyRows'[q] = policyRows[q]
      BY <1>3, <2>5
    <3>2. \A o \in policyOut' : o.p = q => o \in policyOut
      BY <1>2, <2>5
    <3>3. \A o \in policyOut : o.p = q => o \in policyOut'
      BY <1>2, <2>5
    <3>4. Settling(q)' = Settling(q)
      BY <3>2, <3>3 DEF Settling
    <3>5. \A o \in policyOut' : (o.st = "served" /\ o.p \in {0, q}) => o.got[q] = policyRows'[q]
      BY <1>2, <2>1, <2>5, <3>1 DEF PolicyAbreast
    <3>6. PolicyAbreast(q)'
      BY <1>2, <2>1, <3>1, <3>2, <3>4, <3>5 DEF PolicyAbreast
    <3> QED BY <2>3, <3>6
  <2> QED BY <2>4, <2>5
<1> QED BY <1>5, <1>6 DEF PolicyInv

------------------------------------------------------------------------------
\* An answer that reads no list again: the stored row is what it carries.
LEMMA PolicySaved ==
  ASSUME PolicyInv, NEW r \in policyOut, Policy!Answer(r), r.k = "save"
  PROVE  PolicyInv'
<1> DEFINE row == r.got[r.p]
<1>1. PolicyTyped /\ PolicySeats /\ r \in Policy!Requests /\ r.p \in Policy!Policies
  BY DEF PolicyInv, PolicyTyped, PolicySeats, Policy!Requests, Policy!Policies
<1>2. row \in Policy!Row /\ row.draft \in Policy!Content /\ builder \in PolicyBuilder
  BY <1>1 DEF Policy!Requests, Policy!List, Policy!Row, PolicyTyped
<1>3. /\ policyOut' = policyOut \ {r} /\ r.st = "served"
      /\ copy' = IF copy[r.p].there THEN [copy EXCEPT ![r.p] = row] ELSE copy
      /\ Policy!SaveAnswered(r)
      /\ UNCHANGED <<policyRows, policyRead, policyCrossed, edits, mounts>>
  <2>1. Policy!SaveAnswered(r)
    BY DEF Policy!Answer
  <2>2. policyRead' = [k \in Policy!Reads |-> policyRead[k]] /\ policyCrossed' = policyCrossed
    BY <2>1 DEF Policy!SaveAnswered, Policy!Runs
  <2>3. policyRead' = policyRead
    BY <1>1, <2>2 DEF PolicyTyped
  <2> QED BY <2>1, <2>2, <2>3 DEF Policy!Answer, Policy!SaveAnswered
<1>4. builder' = IF Policy!Here(r)
                 THEN [p |-> builder.p, seat |-> builder.seat, working |-> row.draft,
                       server |-> row, dirty |-> FALSE]
                 ELSE builder
  <2>1. CASE Policy!Here(r)
    <3>1. builder' = [builder EXCEPT !.working = row.draft, !.server = row, !.dirty = FALSE]
      BY <1>3, <2>1 DEF Policy!SaveAnswered
    <3>2. PICK draft : draft = row.draft
      OBVIOUS
    <3> HIDE DEF row
    <3>3. builder' = [p |-> builder.p, seat |-> builder.seat, working |-> draft,
                      server |-> row, dirty |-> FALSE]
      BY <1>2, <3>1, <3>2 DEF PolicyBuilder
    <3> QED BY <2>1, <3>2, <3>3
  <2>2. CASE ~Policy!Here(r)
    BY <1>3, <2>2 DEF Policy!SaveAnswered
  <2> QED BY <2>1, <2>2
<1>5. copy' \in Policy!List /\ (copy[r.p].there => copy'[r.p] = row)
      /\ \A q \in Policy!Policies : q # r.p => copy'[q] = copy[q]
  BY <1>1, <1>2, <1>3 DEF PolicyTyped, Policy!List
<1>6. builder' \in PolicyBuilder /\ builder'.p = builder.p /\ builder'.seat = builder.seat
      /\ (builder' # builder => Policy!Here(r))
  BY <1>2, <1>4 DEF PolicyBuilder
<1>7. builder' # Policy!Closed => builder # Policy!Closed
  BY <1>6 DEF Policy!Here
<1>8. PolicyTyped'
  BY <1>1, <1>3, <1>5, <1>6 DEF PolicyTyped
<1>9. PolicySeats'
  BY <1>1, <1>3, <1>6, <1>7 DEF PolicySeats
<1>10. ASSUME NEW q \in Policy!Policies \ policyCrossed' PROVE PolicyAlone(q)' /\ PolicyAbreast(q)'
  <2>1. PolicyAlone(q) /\ PolicyAbreast(q) /\ q # 0
    BY <1>3, <1>10 DEF PolicyInv, Policy!Policies
  <2>2. Policy!Reading' = Policy!Reading
    BY <1>3 DEF Policy!Reading
  <2>3. PolicyAlone(q)'
    BY <1>3, <1>6, <1>7, <2>1, <2>2 DEF PolicyAlone
  <2>4. CASE r.p = q
    <3>1. /\ \A o \in policyOut' : o.p # q
          /\ (builder # Policy!Closed /\ builder.p = q) => Policy!Here(r)
          /\ policyRead["policies"].st # "served"
      BY <1>3, <2>1, <2>4 DEF PolicyAlone, Policy!Here, Policy!Reading
    <3>2. row = policyRows[q]
      BY <1>3, <2>1, <2>4 DEF PolicyAbreast
    <3>3. policyRead["policies"].st = "idle" => copy'[q] = policyRows[q]
      BY <1>5, <2>1, <2>4, <3>2 DEF PolicyAbreast
    <3>4. (builder' # Policy!Closed /\ builder'.p = q) =>
            builder'.server = policyRows[q] /\ builder'.working = policyRows[q].draft
      BY <1>4, <1>6, <1>7, <3>1, <3>2
    <3> QED BY <1>3, <1>6, <1>7, <2>1, <2>3, <3>1, <3>3, <3>4 DEF PolicyAbreast
  <2>5. CASE r.p # q
    <3>1. (builder # Policy!Closed /\ builder.p = q) => builder' = builder
      BY <1>1, <1>6, <2>5 DEF Policy!Here, PolicySeats
    <3>2. Settling(q)' = Settling(q)
      BY <1>3, <2>5 DEF Settling
    <3>3. copy'[q] = copy[q]
      BY <1>5, <2>5
    <3> QED BY <1>3, <1>6, <1>7, <2>1, <2>3, <3>1, <3>2, <3>3 DEF PolicyAbreast
  <2> QED BY <2>4, <2>5
<1> QED BY <1>8, <1>9, <1>10 DEF PolicyInv

LEMMA PolicyReordered ==
  ASSUME PolicyInv, NEW r \in policyOut, Policy!Answer(r), r.k = "reorder"
  PROVE  PolicyInv'
<1>1. PolicyTyped /\ PolicySeats /\ r \in Policy!Requests /\ r.p = 0
  BY DEF PolicyInv, PolicyTyped, PolicySeats
<1>2. /\ policyOut' = policyOut \ {r} /\ r.st = "served" /\ copy' = r.got
      /\ builder' \in {builder, Policy!Closed}
      /\ UNCHANGED <<policyRows, policyRead, policyCrossed, edits, mounts>>
  <2>1. Policy!ReorderAnswered(r)
    BY DEF Policy!Answer
  <2>2. policyRead' = [k \in Policy!Reads |-> policyRead[k]] /\ policyCrossed' = policyCrossed
    BY <2>1 DEF Policy!ReorderAnswered, Policy!Runs
  <2>3. policyRead' = policyRead
    BY <1>1, <2>2 DEF PolicyTyped
  <2> QED BY <1>1, <2>1, <2>2, <2>3, PolicyKept DEF Policy!Answer, Policy!ReorderAnswered
<1>3. PolicyTyped' /\ PolicySeats'
  BY <1>1, <1>2, PolicyTypes DEF PolicyTyped, PolicySeats, Policy!Requests
<1>4. ASSUME NEW q \in Policy!Policies \ policyCrossed' PROVE PolicyAlone(q)' /\ PolicyAbreast(q)'
  <2>1. PolicyAlone(q) /\ PolicyAbreast(q)
    BY <1>2, <1>4 DEF PolicyInv
  <2>2. \A o \in policyOut : o.p # q
    BY <2>1 DEF PolicyAlone
  <2>3. copy'[q] = policyRows[q]
    BY <1>1, <1>2, <2>1 DEF PolicyAbreast
  <2> QED BY <1>2, <2>1, <2>2, <2>3 DEF PolicyAlone, PolicyAbreast, Settling
<1> QED BY <1>3, <1>4 DEF PolicyInv

\* An answer after which the list is read again: nothing is known to be alone
\* but what nothing else is under way for.
LEMMA PolicyReread ==
  ASSUME PolicyInv, NEW r \in policyOut, r.p \in Policy!Policies, PolicyTyped', PolicySeats',
         policyOut' = policyOut \ {r}, policyRead'["policies"].st = "asked",
         policyCrossed' = policyCrossed \cup ({x.p : x \in policyOut \ {r}} \ {0}),
         UNCHANGED policyRows,
         \A q \in Policy!Policies \ policyCrossed' :
           (builder' # Policy!Closed /\ builder'.p = q) =>
             /\ policyRows[q].there
             /\ r.p # q => builder' = builder
             /\ r.p = q => /\ builder'.server = policyRows[q]
                           /\ ~builder'.dirty => builder'.working = policyRows[q].draft
  PROVE  PolicyInv'
<1>1. ASSUME NEW q \in Policy!Policies \ policyCrossed' PROVE PolicyAlone(q)' /\ PolicyAbreast(q)'
  <2>1. PolicyAlone(q) /\ PolicyAbreast(q) /\ q # 0
    BY <1>1 DEF PolicyInv, Policy!Policies
  <2>2. \A o \in policyOut' : o.p # q
    BY <1>1, <2>1
  <2>3. r.p # q => ~Settling(q)
    BY <2>2 DEF Settling
  <2>4. PolicyAlone(q)'
    BY <2>2 DEF PolicyAlone
  <2>5. ASSUME builder' # Policy!Closed, builder'.p = q
        PROVE  /\ policyRows[q].there /\ builder'.server = policyRows[q]
               /\ ~builder'.dirty => builder'.working = policyRows[q].draft
    BY <1>1, <2>1, <2>3, <2>5 DEF PolicyAbreast
  <2>6. \A o \in policyOut' : (o.st = "served" /\ o.p \in {0, q}) => o.got[q] = policyRows[q]
    BY <2>1 DEF PolicyAbreast
  <2> QED BY <2>1, <2>2, <2>4, <2>5, <2>6 DEF PolicyAbreast
<1> QED BY <1>1 DEF PolicyInv

\* The reads and the crossings of such an answer.
LEMMA PolicyRuns ==
  ASSUME PolicyTyped, NEW ls \in SUBSET Policy!Reads, "policies" \in ls, NEW rest \in SUBSET policyOut,
         Policy!Runs(ls, rest)
  PROVE  /\ policyRead' \in [Policy!Reads -> PolicyRead] /\ policyRead'["policies"].st = "asked"
         /\ policyCrossed' = policyCrossed \cup ({x.p : x \in rest} \ {0})
         /\ policyCrossed' \subseteq Policy!Policies
<1>1. policyRead' = [k \in Policy!Reads |-> IF k \in ls THEN Policy!Asked ELSE policyRead[k]]
  BY DEF Policy!Runs
<1>2. policyCrossed' = policyCrossed \cup ({x.p : x \in rest} \ {0})
  BY DEF Policy!Runs
<1>3. policyRead' \in [Policy!Reads -> PolicyRead] /\ policyRead'["policies"].st = "asked"
  BY <1>1, PolicyTypes DEF PolicyTyped
<1>4. {x.p : x \in rest} \ {0} \subseteq Policy!Policies
  BY PolicyAbout
<1>5. policyCrossed' \subseteq Policy!Policies
  BY <1>2, <1>4 DEF PolicyTyped
<1> QED BY <1>2, <1>3, <1>5

LEMMA PolicyPublished ==
  ASSUME PolicyInv, NEW r \in policyOut, Policy!Answer(r), r.k = "publish"
  PROVE  PolicyInv'
<1> DEFINE row == r.got[r.p]
<1>1. PolicyTyped /\ PolicySeats /\ r \in Policy!Requests /\ r.p \in Policy!Policies
  BY DEF PolicyInv, PolicyTyped, PolicySeats, Policy!Requests, Policy!Policies
<1>2. row \in Policy!Row /\ row.draft \in Policy!Content /\ builder \in PolicyBuilder
  BY <1>1 DEF Policy!Requests, Policy!List, Policy!Row, PolicyTyped
<1>3. /\ policyOut' = policyOut \ {r} /\ r.st = "served" /\ Policy!PublishAnswered(r)
      /\ UNCHANGED <<policyRows, copy, edits, mounts>>
  BY DEF Policy!Answer, Policy!PublishAnswered
<1>4. /\ policyRead' \in [Policy!Reads -> PolicyRead] /\ policyRead'["policies"].st = "asked"
      /\ policyCrossed' = policyCrossed \cup ({x.p : x \in policyOut \ {r}} \ {0})
      /\ policyCrossed' \subseteq Policy!Policies
  <2>1. Policy!Runs(Policy!PublishRuns, policyOut \ {r}) /\ policyOut \ {r} \in SUBSET policyOut
        /\ Policy!PublishRuns \in SUBSET Policy!Reads /\ "policies" \in Policy!PublishRuns
    BY <1>3 DEF Policy!PublishAnswered, Policy!PublishRuns, Policy!Reads
  <2> QED BY <1>1, <2>1, PolicyRuns
<1>5. builder' = IF Policy!Here(r)
                 THEN [p |-> builder.p, seat |-> builder.seat, working |-> row.draft,
                       server |-> row, dirty |-> builder.dirty]
                 ELSE builder
  <2>1. CASE Policy!Here(r)
    <3>1. builder' = [builder EXCEPT !.working = row.draft, !.server = row]
      BY <1>3, <2>1 DEF Policy!PublishAnswered
    <3>2. PICK draft : draft = row.draft
      OBVIOUS
    <3> HIDE DEF row
    <3>3. builder' = [p |-> builder.p, seat |-> builder.seat, working |-> draft,
                      server |-> row, dirty |-> builder.dirty]
      BY <1>2, <3>1, <3>2 DEF PolicyBuilder
    <3> QED BY <2>1, <3>2, <3>3
  <2>2. CASE ~Policy!Here(r)
    BY <1>3, <2>2 DEF Policy!PublishAnswered
  <2> QED BY <2>1, <2>2
<1>6. builder' \in PolicyBuilder /\ builder'.p = builder.p /\ builder'.seat = builder.seat
      /\ (builder' # builder => Policy!Here(r))
  BY <1>2, <1>5 DEF PolicyBuilder
<1>7. builder' # Policy!Closed => builder # Policy!Closed
  BY <1>6 DEF Policy!Here
<1>8. PolicyTyped'
  BY <1>1, <1>3, <1>4, <1>6 DEF PolicyTyped
<1>9. PolicySeats'
  BY <1>1, <1>3, <1>6, <1>7 DEF PolicySeats
<1>10. ASSUME NEW q \in Policy!Policies \ policyCrossed', builder' # Policy!Closed, builder'.p = q
       PROVE  /\ policyRows[q].there
              /\ r.p # q => builder' = builder
              /\ r.p = q => /\ builder'.server = policyRows[q]
                            /\ ~builder'.dirty => builder'.working = policyRows[q].draft
  <2>1. PolicyAlone(q) /\ PolicyAbreast(q) /\ builder # Policy!Closed /\ builder.p = q
    BY <1>4, <1>6, <1>7, <1>10 DEF PolicyInv
  <2>2. policyRows[q].there
    BY <2>1 DEF PolicyAbreast
  <2>3. r.p # q => builder' = builder
    BY <1>1, <1>6, <2>1 DEF Policy!Here, PolicySeats
  <2>4. r.p = q => Policy!Here(r) /\ row = policyRows[q]
    BY <1>3, <2>1 DEF PolicyAlone, PolicyAbreast, Policy!Here
  <2> QED BY <1>5, <2>2, <2>3, <2>4
<1> QED BY <1>1, <1>3, <1>4, <1>8, <1>9, <1>10, PolicyReread

LEMMA PolicyCreated ==
  ASSUME PolicyInv, NEW r \in policyOut, Policy!Answer(r), r.k = "create"
  PROVE  PolicyInv'
<1>1. PolicyTyped /\ PolicySeats /\ r \in Policy!Requests /\ r.p = 2 /\ 2 \in Policy!Policies
  BY DEF PolicyInv, PolicyTyped, PolicySeats, Policy!Policies
<1>2. /\ policyOut' = policyOut \ {r} /\ r.st = "served"
      /\ mounts < MaxMounts /\ mounts' = mounts + 1
      /\ copy' = [copy EXCEPT ![2] = r.got[2]] /\ builder' = Policy!Seeded(2, copy')
      /\ Policy!Runs({"policies"}, policyOut \ {r})
      /\ UNCHANGED <<policyRows, edits>>
  BY DEF Policy!Answer, Policy!CreateAnswered
<1>3. copy' \in Policy!List /\ copy'[2] = r.got[2]
  BY <1>1, <1>2 DEF PolicyTyped, Policy!List, Policy!Requests
<1>4. /\ policyRead' \in [Policy!Reads -> PolicyRead] /\ policyRead'["policies"].st = "asked"
      /\ policyCrossed' = policyCrossed \cup ({x.p : x \in policyOut \ {r}} \ {0})
      /\ policyCrossed' \subseteq Policy!Policies
  <2>1. policyOut \ {r} \in SUBSET policyOut /\ {"policies"} \in SUBSET Policy!Reads
    BY DEF Policy!Reads
  <2> QED BY <1>1, <1>2, <2>1, PolicyRuns
<1>5. /\ builder' \in PolicyBuilder /\ builder'.p = 2 /\ builder'.seat = mounts + 1
      /\ builder' # Policy!Closed
      /\ builder'.working = copy'[2].draft /\ builder'.server = copy'[2]
  <2>1. PolicyTyped /\ mounts < MaxMounts
    BY <1>1, <1>2
  <2>2. /\ Policy!Seeded(2, copy') \in PolicyBuilder /\ Policy!Seeded(2, copy') # Policy!Closed
        /\ Policy!Seeded(2, copy').p = 2 /\ Policy!Seeded(2, copy').seat = mounts + 1
        /\ Policy!Seeded(2, copy').working = copy'[2].draft
        /\ Policy!Seeded(2, copy').server = copy'[2]
    BY <1>1, <1>3, <2>1, PolicySeeded
  <2> QED BY <1>2, <2>2
<1>6. mounts \in Nat /\ mounts' \in 0..MaxMounts /\ mounts' = mounts + 1
  BY <1>1, <1>2, PolicyTypes DEF PolicyTyped
<1>7. PolicyTyped'
  BY <1>1, <1>2, <1>3, <1>4, <1>5, <1>6 DEF PolicyTyped
<1>8. \A x \in policyOut : x.seat <= mounts /\ x.seat \in Nat
  BY <1>1 DEF PolicySeats, PolicyTyped, Policy!Requests
<1>9. PolicySeats'
  <2>1. \A x \in policyOut' : x.seat <= mounts' /\ x.seat # builder'.seat
    BY <1>2, <1>5, <1>6, <1>8
  <2>2. builder'.p \in Policy!Policies /\ builder'.seat \in 1..mounts'
    BY <1>1, <1>5, <1>6
  <2> QED BY <1>1, <1>2, <2>1, <2>2 DEF PolicySeats
<1>10. ASSUME NEW q \in Policy!Policies \ policyCrossed', builder'.p = q
       PROVE  /\ policyRows[q].there
              /\ r.p # q => builder' = builder
              /\ r.p = q => /\ builder'.server = policyRows[q]
                            /\ ~builder'.dirty => builder'.working = policyRows[q].draft
  <2>1. PolicyAbreast(q) /\ q = 2
    BY <1>4, <1>5, <1>10 DEF PolicyInv
  <2>2. policyRows[q].there /\ r.got[2] = policyRows[2]
    BY <1>1, <1>2, <2>1 DEF PolicyAbreast
  <2> QED BY <1>1, <1>3, <1>5, <2>1, <2>2
<1> QED BY <1>1, <1>2, <1>4, <1>7, <1>9, <1>10, PolicyReread

LEMMA PolicyDeleted ==
  ASSUME PolicyInv, NEW r \in policyOut, Policy!Answer(r), r.k = "delete"
  PROVE  PolicyInv'
<1>1. PolicyTyped /\ PolicySeats /\ r \in Policy!Requests /\ r.p \in Policy!Policies
  BY DEF PolicyInv, PolicyTyped, PolicySeats, Policy!Requests, Policy!Policies
<1>2. /\ policyOut' = policyOut \ {r} /\ r.st = "served"
      /\ copy' = [copy EXCEPT ![r.p] = Policy!NoRow] /\ builder' = Policy!Kept(copy')
      /\ Policy!Runs({"policies", "force"}, policyOut \ {r})
      /\ UNCHANGED <<policyRows, edits, mounts>>
  BY DEF Policy!Answer, Policy!DeleteAnswered
<1>3. copy' \in Policy!List /\ ~copy'[r.p].there
  BY <1>1, <1>2, PolicyTypes DEF PolicyTyped, Policy!List
<1>4. /\ policyRead' \in [Policy!Reads -> PolicyRead] /\ policyRead'["policies"].st = "asked"
      /\ policyCrossed' = policyCrossed \cup ({x.p : x \in policyOut \ {r}} \ {0})
      /\ policyCrossed' \subseteq Policy!Policies
  <2>1. policyOut \ {r} \in SUBSET policyOut /\ {"policies", "force"} \in SUBSET Policy!Reads
    BY DEF Policy!Reads
  <2> QED BY <1>1, <1>2, <2>1, PolicyRuns
<1>5. builder' \in {builder, Policy!Closed} /\ (builder' # Policy!Closed => builder.p # r.p)
  BY <1>2, <1>3 DEF Policy!Kept
<1>6. PolicyTyped'
  BY <1>1, <1>2, <1>3, <1>4, <1>5, PolicyTypes DEF PolicyTyped
<1>7. PolicySeats'
  BY <1>1, <1>2, <1>5 DEF PolicySeats
<1>8. ASSUME NEW q \in Policy!Policies \ policyCrossed', builder' # Policy!Closed, builder'.p = q
      PROVE  /\ policyRows[q].there
             /\ r.p # q => builder' = builder
             /\ r.p = q => /\ builder'.server = policyRows[q]
                           /\ ~builder'.dirty => builder'.working = policyRows[q].draft
  BY <1>4, <1>5, <1>8 DEF PolicyInv, PolicyAbreast
<1> QED BY <1>1, <1>2, <1>4, <1>6, <1>7, <1>8, PolicyReread

LEMMA PolicyFails ==
  ASSUME PolicyInv, NEW r \in policyOut, Policy!Fails(r)
  PROVE  PolicyInv'
<1>1. PolicyTyped /\ PolicySeats /\ r \in Policy!Requests
  BY DEF PolicyInv, PolicyTyped
<1>2. /\ policyOut' = policyOut \ {r}
      /\ policyRead' = [policyRead EXCEPT !["policies"] = IF r.k = "reorder" THEN Policy!Asked ELSE @]
      /\ policyCrossed' = policyCrossed \cup (IF r.st = "served" THEN {r.p} \ {0} ELSE {})
           \cup (IF r.k = "reorder" THEN {q.p : q \in policyOut} \ {0} ELSE {})
      /\ UNCHANGED <<policyRows, copy, builder, edits, mounts>>
  BY DEF Policy!Fails
<1>3. policyRead' \in [Policy!Reads -> PolicyRead]
  BY <1>1, <1>2, PolicyTypes DEF PolicyTyped
<1>4. policyRead'["policies"] = IF r.k = "reorder" THEN Policy!Asked ELSE policyRead["policies"]
  BY <1>1, <1>2, PolicyTypes DEF PolicyTyped
<1>5. policyCrossed' \subseteq Policy!Policies
  <2>1. {r.p} \ {0} \subseteq Policy!Policies
    BY <1>1 DEF Policy!Requests, Policy!Policies
  <2>2. {q.p : q \in policyOut} \ {0} \subseteq Policy!Policies
    BY <1>1, PolicyAbout
  <2> QED BY <1>1, <1>2, <2>1, <2>2 DEF PolicyTyped
<1>6. PolicyTyped' /\ PolicySeats'
  BY <1>1, <1>2, <1>3, <1>5 DEF PolicyTyped, PolicySeats
<1>7. ASSUME NEW q \in Policy!Policies \ policyCrossed' PROVE PolicyAlone(q)' /\ PolicyAbreast(q)'
  <2>1. PolicyAlone(q) /\ PolicyAbreast(q) /\ q # 0
    BY <1>2, <1>7 DEF PolicyInv, Policy!Policies
  <2>2. CASE r.k = "reorder"
    <3>1. \A o \in policyOut : o.p # q
      BY <1>2, <1>7, <2>1, <2>2
    <3>2. policyRead'["policies"].st = "asked"
      BY <1>4, <2>2, PolicyTypes
    <3> QED BY <1>2, <2>1, <3>1, <3>2 DEF PolicyAlone, PolicyAbreast, Settling
  <2>3. CASE r.k # "reorder"
    <3>1. policyRead'["policies"] = policyRead["policies"] /\ Policy!Reading' = Policy!Reading
      BY <1>4, <2>3 DEF Policy!Reading
    <3>2. PolicyAlone(q)'
      BY <1>2, <2>1, <3>1 DEF PolicyAlone
    <3>3. Settling(q)' = Settling(q)
      <4>1. r.p = q => r.st # "served"
        BY <1>2, <1>7, <2>1
      <4> QED BY <1>2, <4>1 DEF Settling
    <3>4. PolicyAbreast(q)'
      BY <1>2, <2>1, <3>1, <3>3 DEF PolicyAbreast
    <3> QED BY <3>2, <3>4
  <2> QED BY <2>2, <2>3
<1> QED BY <1>6, <1>7 DEF PolicyInv

------------------------------------------------------------------------------
LEMMA PolicyNext == PolicyInv /\ Policy!Next => PolicyInv'
<1> SUFFICES ASSUME PolicyInv, Policy!Next PROVE PolicyInv'
  OBVIOUS
<1>1. CASE \E l \in Policy!Reads :
             Policy!ReadServed(l) \/ Policy!ReadLands(l) \/ Policy!ReadFails(l) \/ Policy!Retry(l)
  BY <1>1, PolicyReads
<1>2. CASE \E p \in Policy!Policies : Policy!Open(p)
  BY <1>2, PolicyOpens
<1>3. CASE Policy!Close \/ Policy!Edit
  BY <1>3, PolicyEdits
<1>4. CASE \/ Policy!Save \/ Policy!Publish \/ Policy!Create \/ Policy!Reorder
           \/ \E p \in Policy!Policies : Policy!Delete(p)
  BY <1>4, PolicySends
<1>5. CASE \E r \in policyOut : Policy!Serve(r)
  BY <1>5, PolicyServes
<1>6. CASE \E r \in policyOut : Policy!Answer(r)
  <2>1. PICK r \in policyOut : Policy!Answer(r)
    BY <1>6
  <2>2. r.k \in {"save", "publish", "create", "delete", "reorder"}
    BY <2>1 DEF Policy!Answer
  <2> QED BY <2>1, <2>2, PolicySaved, PolicyPublished, PolicyCreated, PolicyDeleted, PolicyReordered
<1>7. CASE \E r \in policyOut : Policy!Fails(r)
  BY <1>7, PolicyFails
<1> QED BY <1>1, <1>2, <1>3, <1>4, <1>5, <1>6, <1>7 DEF Policy!Next

\* A publication seals the draft the builder that asked for it showed.
LEMMA PolicyPublishes ==
  ASSUME PolicyInv, Policy!Next
  PROVE  \A r \in policyOut' \ policyOut :
           (r.k = "publish" /\ r.st = "served" /\ r.p \notin policyCrossed)
             => policyRows'[r.p].active = r.body
<1> SUFFICES ASSUME NEW r \in policyOut' \ policyOut, r.k = "publish", r.st = "served",
                    r.p \notin policyCrossed
             PROVE  policyRows'[r.p].active = r.body
  OBVIOUS
<1>1. PolicyTyped /\ PolicySeats /\ Policy!Idle.st = "idle"
  BY PolicyTypes DEF PolicyInv
<1>2. PICK o \in policyOut : Policy!Serve(o)
  <2>1. policyOut' \subseteq policyOut \/ \E o \in policyOut : Policy!Serve(o)
    <3>1. \A k, p, at, body : Policy!Asks(k, p, at, body) => r.st = "asked"
      BY DEF Policy!Asks
    <3> QED BY <3>1 DEF Policy!Next, Policy!ReadServed, Policy!ReadLands, Policy!ReadFails,
               Policy!Retry, Policy!Open, Policy!Close, Policy!Edit, Policy!Save, Policy!Publish,
               Policy!Create, Policy!Delete, Policy!Reorder, Policy!Answer, Policy!Fails
  <2> QED BY <2>1
<1>3. /\ o \in Policy!Requests /\ o.st = "asked"
      /\ policyOut' = (policyOut \ {o}) \cup {[o EXCEPT !.st = "served", !.got = policyRows']}
  BY <1>1, <1>2 DEF Policy!Serve, PolicyTyped
<1>4. r.k = o.k /\ r.p = o.p /\ r.body = o.body
  <2>1. PICK n : n = [o EXCEPT !.st = "served", !.got = policyRows']
    OBVIOUS
  <2>2. n = [k |-> o.k, p |-> o.p, seat |-> o.seat, body |-> o.body, st |-> "served",
             got |-> policyRows']
    BY <1>3, <2>1 DEF Policy!Requests
  <2>3. r = n
    BY <1>3, <2>1
  <2> QED BY <2>2, <2>3
<1>5. policyRows'[r.p].active = policyRows[r.p].draft
  BY <1>1, <1>2, <1>4, PolicyStored
<1>6. r.p \in Policy!Policies
  BY <1>1, <1>3, <1>4 DEF PolicySeats, Policy!Requests, Policy!Policies
<1>7. PolicyAbreast(r.p)
  BY <1>6 DEF PolicyInv
<1>8. r.body = policyRows[r.p].draft
  BY <1>3, <1>4, <1>7 DEF PolicyAbreast
<1> QED BY <1>5, <1>8
------------------------------------------------------------------------------

Deleting(p) == \E r \in policyOut : r.p = p /\ r.k = "delete" /\ r.st = "served"

\* What a policy says only grows from the version in force to its draft, to what
\* a builder of it holds and to what that sends; and what was reported is in it.
PolicyReported(p) ==
  /\ policyRows[p].active \subseteq policyRows[p].draft
  /\ (builder # Policy!Closed /\ builder.p = p) => policyRows[p].draft \subseteq builder.working
  /\ \A r \in policyOut : (r.p = p /\ r.k = "save") =>
       /\ policyRows[p].draft \subseteq r.body /\ (r.st = "served" => policyRows[p].draft = r.body)
       /\ (builder # Policy!Closed /\ builder.p = p) => r.body \subseteq builder.working
  /\ Deleting(p) => ~policyRows[p].there
  /\ ~Deleting(p) =>
       /\ saved[p] \subseteq policyRows[p].draft /\ sealed[p] \subseteq policyRows[p].active
       /\ policyRead["force"].st = "served" => sealed[p] \subseteq Policy!InForce(policyRead["force"].got)[p]
       /\ (policyRead["force"].st = "idle" /\ force # Policy!Unknown) => sealed[p] \subseteq force[p]

PolicyTold ==
  /\ saved \in [Policy!Policies -> Policy!Content] /\ sealed \in [Policy!Policies -> Policy!Content]
  /\ force = Policy!Unknown \/ force \in [Policy!Policies -> Policy!Content]
  /\ \A p \in Policy!Policies : policyRows[p].there \/ (policyRows[p].draft = {} /\ policyRows[p].active = {})
  /\ \A p \in Policy!Policies \ policyCrossed : PolicyReported(p)

LEMMA PolicyForced ==
  ASSUME NEW rs \in Policy!List, NEW p \in Policy!Policies, rs[p].there \/ rs[p].active = {}
  PROVE  Policy!InForce(rs)[p] = rs[p].active
BY PolicyTypes DEF Policy!InForce, Policy!List

LEMMA PolicyToldInit == Policy!Init => PolicyTold
<1> SUFFICES ASSUME Policy!Init PROVE PolicyTold
  OBVIOUS
<1>1. \A p \in Policy!Policies : policyRows[p].draft = {} /\ policyRows[p].active = {}
  <2>1. \A p \in Policy!Policies : policyRows[p] = [Policy!NoRow EXCEPT !.there = (p = 1)]
    BY DEF Policy!Init
  <2> QED BY <2>1, PolicyTypes DEF Policy!Row
<1>2. policyRead["force"].st = "asked"
  BY PolicyTypes DEF Policy!Init
<1>3. Policy!Init => policyOut = {} /\ builder = Policy!Closed /\ force = Policy!Unknown
  BY DEF Policy!Init
<1>4. ASSUME NEW p \in Policy!Policies PROVE PolicyReported(p)
  <2>1. saved[p] = {} /\ sealed[p] = {} /\ ~Deleting(p)
    BY <1>3 DEF Policy!Init, Deleting
  <2> QED BY <1>1, <1>2, <1>3, <2>1 DEF PolicyReported
<1> QED BY <1>1, <1>3, <1>4, PolicyTypes DEF Policy!Init, PolicyTold

LEMMA PolicyForces ==
  ASSUME NEW rs \in Policy!List
  PROVE  Policy!InForce(rs) \in [Policy!Policies -> Policy!Content]
BY PolicyTypes DEF Policy!InForce, Policy!List, Policy!Row

\* Reads, and leaving the builder.
LEMMA PolicyToldReads ==
  ASSUME PolicyInv, PolicyTold,
         Policy!Close \/ \E l \in Policy!Reads :
           Policy!ReadServed(l) \/ Policy!ReadLands(l) \/ Policy!ReadFails(l) \/ Policy!Retry(l)
  PROVE  PolicyTold'
<1>1. /\ UNCHANGED <<policyRows, policyOut, saved, sealed>>
      /\ builder' \in {builder, Policy!Closed} /\ policyCrossed \subseteq policyCrossed'
  BY PolicyKept DEF PolicyInv, Policy!Close, Policy!ReadServed, Policy!ReadLands, Policy!ReadFails,
     Policy!Retry, Policy!Runs
<1>2. \/ policyRead'["force"] = policyRead["force"] /\ force' = force
      \/ policyRead'["force"].st \in {"asked", "failed"}
      \/ policyRead'["force"] = [st |-> "served", got |-> policyRows]
      \/ /\ policyRead["force"].st = "served" /\ force' = Policy!InForce(policyRead["force"].got)
         /\ policyRead'["force"].st = "idle"
  <2>1. policyRead \in [Policy!Reads -> PolicyRead]
    BY DEF PolicyInv, PolicyTyped
  <2>2. CASE Policy!Close
    BY <2>2 DEF Policy!Close
  <2>3. ASSUME NEW l \in Policy!Reads, Policy!ReadServed(l) PROVE <1>2
    BY <2>1, <2>3, PolicyTypes DEF Policy!ReadServed
  <2>4. ASSUME NEW l \in Policy!Reads, Policy!ReadLands(l) PROVE <1>2
    <3>1. CASE l = "force"
      BY <2>1, <2>4, <3>1, PolicyTypes DEF Policy!ReadLands
    <3>2. CASE l = "policies"
      BY <2>1, <2>4, <3>2, PolicyTypes DEF Policy!ReadLands
    <3> QED BY <3>1, <3>2 DEF Policy!Reads
  <2>5. ASSUME NEW l \in Policy!Reads, Policy!ReadFails(l) PROVE <1>2
    BY <2>1, <2>5, PolicyTypes DEF Policy!ReadFails
  <2>6. ASSUME NEW l \in Policy!Reads, Policy!Retry(l) PROVE <1>2
    BY <2>1, <2>6, PolicyTypes DEF Policy!Retry, Policy!Runs
  <2> QED BY <2>2, <2>3, <2>4, <2>5, <2>6
<1>3. ASSUME NEW p \in Policy!Policies \ policyCrossed' PROVE PolicyReported(p)'
  <2>1. PolicyReported(p) /\ p \in Policy!Policies /\ policyRows \in Policy!List
        /\ (policyRows[p].there \/ policyRows[p].active = {})
    BY <1>1, <1>3 DEF PolicyTold, PolicyInv, PolicyTyped
  <2>2. Policy!InForce(policyRows)[p] = policyRows[p].active
    BY <2>1, PolicyForced
  <2>3. Deleting(p)' <=> Deleting(p)
    BY <1>1 DEF Deleting
  <2>4. ASSUME ~Deleting(p)
        PROVE  /\ policyRead'["force"].st = "served" => sealed[p] \subseteq Policy!InForce(policyRead'["force"].got)[p]
               /\ (policyRead'["force"].st = "idle" /\ force' # Policy!Unknown) => sealed[p] \subseteq force'[p]
    <3>1. CASE policyRead'["force"] = policyRead["force"] /\ force' = force
      BY <2>1, <2>4, <3>1 DEF PolicyReported
    <3>2. CASE policyRead'["force"].st \in {"asked", "failed"}
      BY <3>2
    <3>3. CASE policyRead'["force"] = [st |-> "served", got |-> policyRows]
      <4>1. policyRead'["force"].st = "served" /\ policyRead'["force"].got = policyRows
        BY <3>3
      <4> QED BY <2>1, <2>2, <2>4, <4>1 DEF PolicyReported
    <3>4. CASE policyRead["force"].st = "served" /\ force' = Policy!InForce(policyRead["force"].got)
               /\ policyRead'["force"].st = "idle"
      BY <2>1, <2>4, <3>4 DEF PolicyReported
    <3> QED BY <1>2, <3>1, <3>2, <3>3, <3>4
  <2> QED BY <1>1, <2>1, <2>3, <2>4 DEF PolicyReported
<1>4. force' = Policy!Unknown \/ force' \in [Policy!Policies -> Policy!Content]
  <2>1. force' \in {force, Policy!Unknown, Policy!InForce(policyRead["force"].got)}
    <3>1. Policy!Close => force' = force
      BY DEF Policy!Close
    <3>2. ASSUME NEW l \in Policy!Reads,
                 Policy!ReadServed(l) \/ Policy!ReadLands(l) \/ Policy!ReadFails(l) \/ Policy!Retry(l)
          PROVE  force' \in {force, Policy!Unknown, Policy!InForce(policyRead["force"].got)}
      BY <3>2 DEF Policy!ReadServed, Policy!ReadLands, Policy!ReadFails, Policy!Retry, Policy!Reads
    <3> QED BY <3>1, <3>2
  <2>2. policyRead["force"].got \in Policy!List
    BY PolicyTypes DEF PolicyInv, PolicyTyped, PolicyRead
  <2> QED BY <2>1, <2>2, PolicyForces DEF PolicyTold
<1> QED BY <1>1, <1>3, <1>4 DEF PolicyTold

LEMMA PolicyToldOpens ==
  ASSUME PolicyInv, PolicyTold, (\E p \in Policy!Policies : Policy!Open(p)) \/ Policy!Edit
  PROVE  PolicyTold'
<1>1. /\ UNCHANGED <<policyRows, policyOut, saved, sealed, force, policyRead>>
      /\ policyCrossed \subseteq policyCrossed'
  BY DEF Policy!Open, Policy!Edit
<1>2. ASSUME NEW p \in Policy!Policies \ policyCrossed', builder' # Policy!Closed, builder'.p = p
      PROVE  /\ policyRows[p].draft \subseteq builder'.working
             /\ \A r \in policyOut : (r.p = p /\ r.k = "save") => r.body \subseteq builder'.working
  <2>1. PolicyReported(p) /\ PolicyAbreast(p)
    BY <1>1, <1>2 DEF PolicyTold, PolicyInv
  <2>2. ASSUME NEW q \in Policy!Policies, Policy!Open(q) 
        PROVE  /\ policyRows[p].draft \subseteq builder'.working
               /\ \A r \in policyOut : (r.p = p /\ r.k = "save") => r.body \subseteq builder'.working
    <3>1. builder'.p = q /\ builder'.working = copy[q].draft
      BY <2>2 DEF Policy!Open, Policy!Seeded
    <3>2. (\A r \in policyOut : r.p # p) /\ ~Settling(p) /\ policyRead["policies"].st = "idle"
      BY <1>2, <2>2, <3>1 DEF Policy!Open, Policy!Listed, Settling
    <3> QED BY <1>2, <2>1, <3>1, <3>2 DEF PolicyAbreast
  <2>3. CASE Policy!Edit
    <3>1. builder \in PolicyBuilder
      BY DEF PolicyInv, PolicyTyped
    <3>2. builder # Policy!Closed /\ builder'.p = builder.p /\ builder.working \subseteq builder'.working
      BY <2>3, <3>1 DEF Policy!Edit, PolicyBuilder
    <3> QED BY <1>2, <2>1, <3>2 DEF PolicyReported
  <2> QED BY <2>2, <2>3
<1>3. ASSUME NEW p \in Policy!Policies \ policyCrossed' PROVE PolicyReported(p)'
  <2>1. PolicyReported(p) /\ (Deleting(p)' <=> Deleting(p))
    BY <1>1, <1>3 DEF PolicyTold, Deleting
  <2> QED BY <1>1, <1>2, <2>1 DEF PolicyReported
<1> QED BY <1>1, <1>3 DEF PolicyTold

LEMMA PolicyToldAsks ==
  ASSUME PolicyInv, PolicyTold,
         Policy!Save \/ Policy!Publish \/ Policy!Create \/ Policy!Reorder
           \/ \E p \in Policy!Policies : Policy!Delete(p)
  PROVE  PolicyTold'
<1>1. PICK k, q, s, body :
        /\ policyOut' = policyOut \cup {[k |-> k, p |-> q, seat |-> s, body |-> body, st |-> "asked",
                                         got |-> Policy!Idle.got]}
        /\ k = "save" => builder # Policy!Closed /\ q = builder.p /\ body = builder.working
        /\ UNCHANGED <<policyRows, builder, saved, sealed, force, policyRead>>
        /\ policyCrossed \subseteq policyCrossed'
  <2> DEFINE Asked(k, q, s, body) ==
        /\ policyOut' = policyOut \cup {[k |-> k, p |-> q, seat |-> s, body |-> body, st |-> "asked",
                                         got |-> Policy!Idle.got]}
        /\ k = "save" => builder # Policy!Closed /\ q = builder.p /\ body = builder.working
        /\ UNCHANGED <<policyRows, builder, saved, sealed, force, policyRead>>
        /\ policyCrossed \subseteq policyCrossed'
  <2>1. Policy!Save => Asked("save", builder.p, builder.seat, builder.working)
    BY DEF Policy!Save, Policy!Asks
  <2>2. Policy!Publish => Asked("publish", builder.p, builder.seat, builder.working)
    BY DEF Policy!Publish, Policy!Asks
  <2>3. Policy!Create => Asked("create", 2, 0, {})
    BY DEF Policy!Create, Policy!Asks
  <2>4. Policy!Reorder => Asked("reorder", 0, mounts, {})
    BY DEF Policy!Reorder, Policy!Asks
  <2>5. \A p \in Policy!Policies : Policy!Delete(p) => Asked("delete", p, 0, {})
    BY DEF Policy!Delete, Policy!Asks
  <2> HIDE DEF Asked
  <2>6. \E k, q, s, body : Asked(k, q, s, body)
    BY <2>1, <2>2, <2>3, <2>4, <2>5
  <2> QED BY <2>6 DEF Asked
<1>2. ASSUME NEW p \in Policy!Policies \ policyCrossed' PROVE PolicyReported(p)'
  <2>1. PolicyReported(p) /\ (Deleting(p)' <=> Deleting(p))
    BY <1>1, <1>2 DEF PolicyTold, Deleting
  <2> QED BY <1>1, <2>1 DEF PolicyReported
<1> QED BY <1>1, <1>2 DEF PolicyTold

LEMMA PolicyDrafts ==
  ASSUME PolicyTyped, PolicySeats, NEW r \in policyOut, Policy!Serve(r)
  PROVE  /\ r.k = "save" => /\ policyRows'[r.p].draft = r.body
                            /\ policyRows'[r.p].active = policyRows[r.p].active
         /\ r.k = "publish" => policyRows'[r.p].draft = policyRows[r.p].draft
         /\ r.k \in {"create", "delete"} => policyRows'[r.p].draft = {} /\ policyRows'[r.p].active = {}
         /\ r.k = "delete" => ~policyRows'[r.p].there
<1>1. /\ policyRows \in [Policy!Policies -> Policy!Row] /\ policyRows' = Policy!Stored(r)
      /\ r \in Policy!Requests
  BY DEF PolicyTyped, Policy!List, Policy!Serve
<1>2. ASSUME r.k \in {"save", "publish", "delete"} PROVE r.p \in Policy!Policies /\ policyRows[r.p] \in Policy!Row
  BY <1>1, <1>2 DEF PolicySeats, Policy!Serve, Policy!Requests, Policy!Policies
<1>3. CASE r.k = "save"
  <2> DEFINE first == [policyRows EXCEPT ![r.p].draft = r.body]
  <2>1. policyRows' = [first EXCEPT ![r.p].status = "draft"]
    BY <1>1, <1>3 DEF Policy!Stored
  <2>2. [policyRows[r.p] EXCEPT !.draft = r.body] \in Policy!Row
    BY <1>1, <1>2, <1>3 DEF Policy!Row, Policy!Requests
  <2>3. /\ first \in [Policy!Policies -> Policy!Row]
        /\ first[r.p].draft = r.body /\ first[r.p].active = policyRows[r.p].active
    BY <1>1, <1>2, <1>3, <2>2 DEF Policy!Row
  <2> HIDE DEF first
  <2> QED BY <1>2, <1>3, <2>1, <2>3 DEF Policy!Row
<1>4. CASE r.k = "publish"
  <2> DEFINE first == [policyRows EXCEPT ![r.p].active = policyRows[r.p].draft]
  <2>1. policyRows' = [first EXCEPT ![r.p].status = "published"]
    BY <1>1, <1>4 DEF Policy!Stored
  <2>2. [policyRows[r.p] EXCEPT !.active = policyRows[r.p].draft] \in Policy!Row
    BY <1>1, <1>2, <1>4 DEF Policy!Row
  <2>3. first \in [Policy!Policies -> Policy!Row] /\ first[r.p].draft = policyRows[r.p].draft
    BY <1>1, <1>2, <1>4, <2>2 DEF Policy!Row
  <2> HIDE DEF first
  <2> QED BY <1>2, <1>4, <2>1, <2>3 DEF Policy!Row
<1>5. CASE r.k = "delete"
  BY <1>1, <1>2, <1>5, PolicyTypes DEF Policy!Stored
<1>6. CASE r.k = "create"
  <2>1. PICK new : new = [Policy!NoRow EXCEPT !.there = TRUE]
    OBVIOUS
  <2>2. new.draft = {} /\ new.active = {}
    BY <2>1, PolicyTypes DEF Policy!Row
  <2>3. policyRows' = [policyRows EXCEPT ![2] = new] /\ r.p = 2
    BY <1>1, <1>6, <2>1 DEF Policy!Stored, PolicySeats
  <2> QED BY <1>1, <1>6, <2>2, <2>3 DEF Policy!Policies
<1> QED BY <1>3, <1>4, <1>5, <1>6

LEMMA PolicyToldServes ==
  ASSUME PolicyInv, PolicyTold, NEW r \in policyOut, Policy!Serve(r)
  PROVE  PolicyTold'
<1>1. /\ r.st = "asked" /\ r \in Policy!Requests /\ policyRows \in Policy!List
      /\ policyRows' = Policy!Stored(r)
      /\ policyOut' = (policyOut \ {r}) \cup {[r EXCEPT !.st = "served", !.got = policyRows']}
      /\ UNCHANGED <<force, policyRead, builder, saved, sealed, policyCrossed>>
      /\ r.k = "create" => ~policyRows[2].there /\ r.p = 2
      /\ r.p = 0 <=> r.k = "reorder"
      /\ r.k \in {"save", "publish", "delete", "create", "reorder"}
  BY DEF Policy!Serve, PolicyInv, PolicyTyped, PolicySeats, Policy!Requests
<1>2. \A q \in policyOut' : q \in policyOut \/ (q.st = "served" /\ q.p = r.p /\ q.k = r.k /\ q.body = r.body)
  BY <1>1 DEF Policy!Requests
<1>3. \A q \in policyOut : q # r => q \in policyOut'
  BY <1>1
<1>4. ASSUME r.k # "reorder"
      PROVE  /\ r.p \in Policy!Policies /\ \E q \in policyOut' : q.p = r.p /\ q.k = r.k /\ q.st = "served"
             /\ \A p \in Policy!Policies : p # r.p => policyRows'[p] = policyRows[p]
             /\ r.k = "save" => /\ policyRows'[r.p].draft = r.body /\ policyRows'[r.p].active = policyRows[r.p].active
             /\ r.k = "publish" => /\ policyRows'[r.p].draft = policyRows[r.p].draft
                                   /\ policyRows'[r.p].active = policyRows[r.p].draft
             /\ r.k \in {"save", "publish"} => policyRows'[r.p].there
             /\ r.k = "delete" => ~policyRows'[r.p].there
             /\ r.k \in {"create", "delete"} => policyRows'[r.p].draft = {} /\ policyRows'[r.p].active = {}
  <2>1. r.p \in Policy!Policies
    BY <1>1, <1>4 DEF Policy!Policies, Policy!Requests
  <2>2. [r EXCEPT !.st = "served", !.got = policyRows'] \in policyOut'
        /\ [r EXCEPT !.st = "served", !.got = policyRows'].p = r.p
        /\ [r EXCEPT !.st = "served", !.got = policyRows'].k = r.k
        /\ [r EXCEPT !.st = "served", !.got = policyRows'].st = "served"
    BY <1>1 DEF Policy!Requests
  <2> QED BY <2>1, <2>2, PolicyStored, PolicyDrafts DEF PolicyInv
<1>5. r.k = "reorder" => policyRows' = policyRows
  BY <1>1 DEF Policy!Stored
<1>6. \A p \in Policy!Policies : ~Deleting(p)' => ~Deleting(p) /\ ~(r.p = p /\ r.k = "delete")
  <2>1. \A p \in Policy!Policies : Deleting(p) => Deleting(p)'
    BY <1>1, <1>3 DEF Deleting
  <2>2. r.k = "delete" => Deleting(r.p)'
    BY <1>1, <1>4 DEF Deleting
  <2> QED BY <2>1, <2>2
<1>7. ASSUME NEW p \in Policy!Policies \ policyCrossed' PROVE PolicyReported(p)'
  <2>1. PolicyReported(p) /\ PolicyAlone(p) /\ (policyRows[p].there \/ (policyRows[p].draft = {} /\ policyRows[p].active = {}))
    BY <1>1, <1>7 DEF PolicyTold, PolicyInv
  <2>2. CASE r.p # p \/ r.k = "reorder"
    <3>1. policyRows'[p] = policyRows[p] /\ r.p # p
      BY <1>1, <1>4, <1>5, <2>2 DEF Policy!Policies
    <3>2. \A q \in policyOut' : q.p = p => q \in policyOut
      BY <1>2, <3>1
    <3>3. Deleting(p)' => Deleting(p)
      BY <3>2 DEF Deleting
    <3> QED BY <1>1, <1>6, <2>1, <3>1, <3>2, <3>3 DEF PolicyReported
  <2>3. CASE r.p = p /\ r.k # "reorder"
    <3>1. \A q \in policyOut' : q.p = p => q.k = r.k /\ q.body = r.body /\ q.st = "served"
      <4>1. \A q \in policyOut : q.p = p => q = r
        BY <2>1, <2>3 DEF PolicyAlone
      <4>2. r \notin policyOut' \/ r.st = "served"
        BY <1>1 DEF Policy!Requests
      <4> QED BY <1>1, <1>2, <2>3, <4>1, <4>2
    <3>6. Deleting(p)' => r.k = "delete"
      BY <2>3, <3>1 DEF Deleting
    <3>2. CASE r.k = "save"
      BY <1>1, <1>4, <1>6, <2>1, <2>3, <3>1, <3>6, <3>2 DEF PolicyReported
    <3>3. CASE r.k = "publish"
      BY <1>1, <1>4, <1>6, <2>1, <2>3, <3>1, <3>6, <3>3 DEF PolicyReported
    <3>4. CASE r.k = "create"
      <4>1. policyRows[p].draft = {} /\ policyRows[p].active = {}
        BY <1>1, <2>1, <2>3, <3>4
      <4> QED BY <1>1, <1>4, <1>6, <2>1, <2>3, <3>1, <3>6, <3>4, <4>1 DEF PolicyReported
    <3>5. CASE r.k = "delete"
      BY <1>1, <1>4, <1>6, <2>1, <2>3, <3>1, <3>6, <3>5 DEF PolicyReported
    <3> QED BY <1>1, <2>3, <3>2, <3>3, <3>4, <3>5
  <2> QED BY <2>2, <2>3
<1>8. \A p \in Policy!Policies : policyRows'[p].there \/ (policyRows'[p].draft = {} /\ policyRows'[p].active = {})
  BY <1>1, <1>4, <1>5 DEF PolicyTold
<1> QED BY <1>1, <1>7, <1>8 DEF PolicyTold

LEMMA PolicyToldAnswers ==
  ASSUME PolicyInv, PolicyTold, NEW r \in policyOut, Policy!Answer(r)
  PROVE  PolicyTold'
<1>1. /\ r.st = "served" /\ r \in Policy!Requests /\ policyRows' = policyRows /\ force' = force
      /\ policyOut' = policyOut \ {r} /\ policyCrossed \subseteq policyCrossed'
      /\ r.p = 0 <=> r.k = "reorder"
      /\ r.k = "create" => r.p = 2
      /\ saved' \in {saved, [saved EXCEPT ![r.p] = @ \cup r.body], [saved EXCEPT ![r.p] = {}]}
      /\ sealed' \in {sealed, [sealed EXCEPT ![r.p] = r.got[r.p].active], [sealed EXCEPT ![r.p] = {}]}
      /\ policyRead \in [Policy!Reads -> PolicyRead] /\ builder \in PolicyBuilder
  BY DEF Policy!Answer, Policy!SaveAnswered, Policy!PublishAnswered, Policy!CreateAnswered,
     Policy!DeleteAnswered, Policy!ReorderAnswered, Policy!Runs, PolicyInv, PolicyTyped, PolicySeats
<1>2. /\ policyRead'["force"] = policyRead["force"] \/ policyRead'["force"].st = "asked"
      /\ r.k = "publish" => policyRead'["force"].st = "asked"
  BY <1>1, PolicyTypes DEF Policy!Answer, Policy!SaveAnswered, Policy!PublishAnswered, Policy!CreateAnswered,
     Policy!DeleteAnswered, Policy!ReorderAnswered, Policy!Runs, Policy!PublishRuns
<1>3. ASSUME builder' # Policy!Closed
      PROVE  builder' = builder \/ (builder'.p = r.p /\ builder'.working = r.got[r.p].draft)
  <2>1. CASE r.k = "save"
    BY <1>1, <2>1 DEF Policy!Answer, Policy!SaveAnswered, Policy!Here, PolicyInv, PolicySeats, PolicyBuilder
  <2>2. CASE r.k = "publish"
    BY <1>1, <2>2 DEF Policy!Answer, Policy!PublishAnswered, Policy!Here, PolicyInv, PolicySeats, PolicyBuilder
  <2>3. CASE r.k = "create"
    <3>1. copy'[2] = r.got[2] /\ builder' = Policy!Seeded(2, copy')
      BY <1>1, <2>3 DEF Policy!Answer, Policy!CreateAnswered, PolicyInv, PolicyTyped, Policy!List, Policy!Policies
    <3> QED BY <1>1, <2>3, <3>1 DEF Policy!Seeded
  <2>4. CASE r.k \in {"delete", "reorder"}
    BY <1>1, <1>3, <2>4 DEF Policy!Answer, Policy!DeleteAnswered, Policy!ReorderAnswered, Policy!Kept
  <2> QED BY <1>1, <2>1, <2>2, <2>3, <2>4 DEF Policy!Requests
<1>4. ASSUME NEW p \in Policy!Policies \ policyCrossed' PROVE PolicyReported(p)'
  <2>1. PolicyReported(p) /\ PolicyAlone(p) /\ PolicyAbreast(p)
    BY <1>1, <1>4 DEF PolicyTold, PolicyInv
  <2>2. CASE r.p # p
    <3>1. Deleting(p)' <=> Deleting(p)
      BY <1>1, <2>2 DEF Deleting
    <3>2. saved'[p] = saved[p] /\ sealed'[p] = sealed[p]
      BY <1>1, <1>4, <2>2 DEF PolicyTold
    <3>3. (builder' # Policy!Closed /\ builder'.p = p) => builder' = builder
      BY <1>3, <2>2
    <3> QED BY <1>1, <1>2, <2>1, <3>1, <3>2, <3>3 DEF PolicyReported
  <2>3. CASE r.p = p
    <3>1. (\A q \in policyOut' : q.p # p) /\ ~Deleting(p)' /\ r.got[p] = policyRows[p] /\ r.k # "reorder"
      BY <1>1, <1>4, <2>1, <2>3 DEF PolicyAlone, PolicyAbreast, Deleting, Policy!Policies
    <3>2. (builder' # Policy!Closed /\ builder'.p = p) => policyRows[p].draft \subseteq builder'.working
      BY <1>3, <2>1, <2>3, <3>1 DEF PolicyReported
    <3>3. r.k # "delete" => ~Deleting(p)
      BY <2>1, <2>3 DEF PolicyAlone, Deleting
    <3>4. /\ saved'[p] \subseteq policyRows[p].draft /\ sealed'[p] \subseteq policyRows[p].active
          /\ r.k \in {"save", "create"} => sealed' = sealed
      <4>1. CASE r.k = "save"
        <5>1. saved[p] \cup r.body \subseteq policyRows[p].draft /\ sealed' = sealed
              /\ saved' = [saved EXCEPT ![p] = @ \cup r.body]
          BY <1>1, <2>1, <2>3, <3>3, <4>1 DEF PolicyReported, Policy!Answer, Policy!SaveAnswered
        <5> QED BY <1>4, <2>1, <3>3, <4>1, <5>1 DEF PolicyReported, PolicyTold
      <4>2. CASE r.k = "publish"
        <5>1. saved' = saved /\ sealed' = [sealed EXCEPT ![p] = policyRows[p].active]
          BY <1>1, <2>3, <3>1, <4>2 DEF Policy!Answer, Policy!PublishAnswered
        <5> QED BY <1>4, <2>1, <3>3, <4>2, <5>1 DEF PolicyReported, PolicyTold
      <4>3. CASE r.k = "create"
        <5>1. saved' = saved /\ sealed' = sealed
          BY <1>1, <4>3 DEF Policy!Answer, Policy!CreateAnswered
        <5> QED BY <2>1, <3>3, <4>3, <5>1 DEF PolicyReported
      <4>4. CASE r.k = "delete"
        <5>1. saved' = [saved EXCEPT ![p] = {}] /\ sealed' = [sealed EXCEPT ![p] = {}]
          BY <1>1, <2>3, <4>4 DEF Policy!Answer, Policy!DeleteAnswered
        <5> QED BY <1>4, <4>4, <5>1 DEF PolicyTold
      <4> QED BY <1>1, <3>1, <4>1, <4>2, <4>3, <4>4 DEF Policy!Requests
    <3>5. /\ policyRead'["force"].st = "served" => sealed'[p] \subseteq Policy!InForce(policyRead'["force"].got)[p]
          /\ (policyRead'["force"].st = "idle" /\ force # Policy!Unknown) => sealed'[p] \subseteq force[p]
      <4>1. CASE r.k \in {"save", "create"}
        BY <1>2, <2>1, <3>3, <3>4, <4>1 DEF PolicyReported
      <4>2. CASE r.k = "publish"
        BY <1>2, <4>2
      <4>3. CASE r.k = "delete"
        <5>1. policyRead'["force"] = Policy!Asked
          BY <1>1, <4>3, PolicyTypes DEF Policy!Answer, Policy!DeleteAnswered, Policy!Runs
        <5> QED BY <5>1, PolicyTypes
      <4> QED BY <1>1, <3>1, <4>1, <4>2, <4>3 DEF Policy!Requests
    <3> QED BY <1>1, <2>1, <3>1, <3>2, <3>4, <3>5 DEF PolicyReported
  <2> QED BY <2>2, <2>3
<1>5. saved' \in [Policy!Policies -> Policy!Content] /\ sealed' \in [Policy!Policies -> Policy!Content]
  <2>1. {} \in Policy!Content /\ r.body \in Policy!Content /\ (r.p # 0 => r.got[r.p].active \in Policy!Content)
    BY <1>1, PolicyTypes DEF Policy!Requests, Policy!List, Policy!Row, Policy!Policies
  <2>2. \A x, y \in Policy!Content : x \cup y \in Policy!Content
    BY DEF Policy!Content
  <2>3. r.p = 0 => saved' = saved /\ sealed' = sealed
    BY <1>1 DEF Policy!Answer, Policy!ReorderAnswered
  <2>4. r.p # 0 => r.p \in Policy!Policies
    BY <1>1 DEF Policy!Requests, Policy!Policies
  <2>5. saved \in [Policy!Policies -> Policy!Content] /\ sealed \in [Policy!Policies -> Policy!Content]
    BY DEF PolicyTold
  <2> QED BY <1>1, <2>1, <2>2, <2>3, <2>4, <2>5
<1> QED BY <1>1, <1>4, <1>5 DEF PolicyTold

LEMMA PolicyToldFails ==
  ASSUME PolicyInv, PolicyTold, NEW r \in policyOut, Policy!Fails(r)
  PROVE  PolicyTold'
<1>1. /\ r \in Policy!Requests /\ UNCHANGED <<policyRows, force, builder, saved, sealed>>
      /\ policyOut' = policyOut \ {r} /\ policyCrossed \subseteq policyCrossed'
      /\ policyRead'["force"] = policyRead["force"]
      /\ (r.st = "served" /\ r.p # 0) => r.p \in policyCrossed'
  BY PolicyTypes DEF Policy!Fails, PolicyInv, PolicyTyped
<1>2. ASSUME NEW p \in Policy!Policies \ policyCrossed' PROVE PolicyReported(p)'
  <2>1. PolicyReported(p) /\ p # 0
    BY <1>1, <1>2 DEF PolicyTold, Policy!Policies
  <2>2. Deleting(p)' <=> Deleting(p)
    BY <1>1, <1>2, <2>1 DEF Deleting
  <2> QED BY <1>1, <2>1, <2>2 DEF PolicyReported
<1> QED BY <1>1, <1>2 DEF PolicyTold

LEMMA PolicyToldNext == PolicyInv /\ PolicyTold /\ Policy!Next => PolicyTold'
BY PolicyToldReads, PolicyToldOpens, PolicyToldAsks, PolicyToldServes, PolicyToldAnswers, PolicyToldFails
DEF Policy!Next

LEMMA PolicyStays == PolicyInv /\ UNCHANGED policyVars => PolicyInv'
<1> SUFFICES ASSUME PolicyInv, UNCHANGED policyVars PROVE PolicyInv'
  OBVIOUS
<1>1. PolicyTyped' /\ PolicySeats'
  BY DEF policyVars, PolicyInv, PolicyTyped, PolicySeats
<1>2. ASSUME NEW p \in Policy!Policies \ policyCrossed' PROVE PolicyAlone(p)' /\ PolicyAbreast(p)'
  <2>1. PolicyAlone(p) /\ PolicyAbreast(p)
    BY <1>2 DEF PolicyInv, policyVars
  <2> QED BY <2>1 DEF policyVars, PolicyAlone, PolicyAbreast, Settling, Policy!Reading
<1> QED BY <1>1, <1>2 DEF PolicyInv

LEMMA PolicyToldStays == PolicyTold /\ UNCHANGED policyVars => PolicyTold'
BY DEF policyVars, PolicyTold, PolicyReported, Deleting

LEMMA PolicySettles == PolicyInv /\ PolicyTold => Policy!SettledIsServed /\ Policy!NothingUndone /\ Policy!TypeOK
<1> SUFFICES ASSUME PolicyInv, PolicyTold PROVE Policy!SettledIsServed /\ Policy!NothingUndone /\ Policy!TypeOK
  OBVIOUS
<1>1. ASSUME NEW p \in Policy!Policies, Policy!Quiet(p)
      PROVE  /\ policyRead["policies"].st = "idle" => copy[p] = policyRows[p]
             /\ (policyRead["force"].st = "idle" /\ force # Policy!Unknown) => sealed[p] \subseteq force[p]
  <2>1. PolicyReported(p) /\ PolicyAbreast(p) /\ ~Settling(p) /\ ~Deleting(p)
    BY <1>1 DEF Policy!Quiet, PolicyInv, PolicyTold, Settling, Deleting
  <2> QED BY <2>1 DEF PolicyReported, PolicyAbreast
<1>2. Policy!NothingUndone
  BY DEF PolicyTold, PolicyReported, Policy!NothingUndone
<1>3. Policy!TypeOK
  BY DEF PolicyTold, PolicyInv, PolicyTyped, PolicyBuilder, PolicyRead, Policy!TypeOK
<1> QED BY <1>1, <1>2, <1>3 DEF Policy!SettledIsServed
------------------------------------------------------------------------------
(* The review of a read document. *)

\* The values a document may carry: 0, which is what the extractor read, and
\* those that were made on it.
Made(d) == {0} \cup {v \in DOMAIN made : made[v] = d}

ExtractRead(d) == [lines : Made(d), of : [Fields -> Made(d)]]
ExtractEntry(d) ==
  [kind : {"none", "typed", "pointed", "chosen", "undone", "lines"}, val : Made(d), at : Nat]
ExtractSave(d, L, T) ==
  [job : {d}, left : L, took : T, entries : [Fields -> ExtractEntry(d)], rows : ExtractEntry(d),
   lines : BOOLEAN, refused : BOOLEAN, lineTook : BOOLEAN]

\* What is stored of a document, read of it or drafted on it was made on it, a
\* save carries what was drafted on its own document, which is filed, and a
\* drag was begun for the armed field.
ExtractInv ==
  /\ \E n \in Nat : made \in [1..n -> Extract!Docs]
  /\ job \in Extract!Docs
  /\ DOMAIN extractStored = Extract!Docs
  /\ \A d \in Extract!Docs : extractStored[d] \in ExtractRead(d)
  /\ detail \in ExtractRead(job) \cup {Extract!Unread}
  /\ merged \in ExtractRead(job) \cup {Extract!Unread}
  /\ entries \in [Fields -> ExtractEntry(job)] /\ extractRows \in ExtractEntry(job)
  /\ extractDrag \in {0, extractArmed}
  /\ filed \subseteq Extract!Docs /\ import \in Extract!Docs \cup {0}
  /\ Extract!Docs \ Notes \subseteq filed /\ (originals = "filed" => job \in filed)
  /\ save = Extract!Idle \/ \E d \in filed : \E L, T : save \in ExtractSave(d, L, T)

LEMMA ExtractInit == Extract!Init => ExtractInv
<1> SUFFICES ASSUME Extract!Init PROVE ExtractInv
  OBVIOUS
<1>1. \A d : 0 \in Made(d)
  BY DEF Made
<1>2. made = <<>> /\ made \in [1..0 -> Extract!Docs]
  BY DEF Extract!Init
<1>3. Extract!NoEntry \in ExtractEntry(1)
  BY <1>1 DEF Extract!NoEntry, ExtractEntry
<1>4. \A d \in Extract!Docs : extractStored[d] \in ExtractRead(d)
  BY <1>1 DEF Extract!Init, ExtractRead
<1> QED BY <1>2, <1>3, <1>4 DEF Extract!Init, ExtractInv, Extract!Docs

\* What was made stays what it is; what is made next is made on the document
\* on the screen.
LEMMA MadeKept ==
  ASSUME ExtractInv, made' = made \/ made' = Append(made, job)
  PROVE  /\ \E n \in Nat : made' \in [1..n -> Extract!Docs]
         /\ \A d : Made(d) \subseteq Made(d)'
         /\ Extract!clock + 1 \in Nat
         /\ (made' = Append(made, job) /\ job' = job) => Extract!clock + 1 \in Made(job)'
<1>1. PICK n \in Nat : made \in [1..n -> Extract!Docs]
  BY DEF ExtractInv
<1>2. made \in Seq(Extract!Docs) /\ Len(made) = n /\ job \in Extract!Docs
  BY <1>1 DEF ExtractInv
<1>3. CASE made' = made
  BY <1>1, <1>2, <1>3 DEF Made, Extract!clock
<1>4. CASE made' = Append(made, job)
  <2>1. /\ made' \in Seq(Extract!Docs) /\ Len(made') = n + 1
        /\ made'[n + 1] = job /\ \A v \in 1..n : made'[v] = made[v]
    BY <1>2, <1>4
  <2>2. made' \in [1..(n + 1) -> Extract!Docs]
    BY <2>1
  <2>3. \A d : Made(d) \subseteq Made(d)'
    BY <1>1, <2>1, <2>2 DEF Made
  <2>4. Extract!clock + 1 \in Nat /\ (job' = job => Extract!clock + 1 \in Made(job)')
    BY <1>1, <1>2, <2>1, <2>2 DEF Made, Extract!clock
  <2> QED BY <1>1, <2>2, <2>3, <2>4
<1> QED BY <1>3, <1>4

\* So what was made on a document still was.
LEMMA ExtractKept ==
  ASSUME ExtractInv, made' = made \/ made' = Append(made, job)
  PROVE  /\ \A d : ExtractRead(d) \subseteq ExtractRead(d)' /\ ExtractEntry(d) \subseteq ExtractEntry(d)'
         /\ \A d, L, T : ExtractSave(d, L, T) \subseteq ExtractSave(d, L, T)'
<1>1. \A d : Made(d) \subseteq Made(d)'
  BY MadeKept
<1>2. \A d : ExtractRead(d) \subseteq ExtractRead(d)'
  BY <1>1 DEF ExtractRead
<1>3. \A d : ExtractEntry(d) \subseteq ExtractEntry(d)'
  BY <1>1 DEF ExtractEntry
<1>4. \A d, L, T : ExtractSave(d, L, T) \subseteq ExtractSave(d, L, T)'
  BY <1>3 DEF ExtractSave
<1> QED BY <1>2, <1>3, <1>4

\* What the screen shows of a document was read of it.
LEMMA ExtractShown ==
  ASSUME ExtractInv, Extract!Loaded, NEW f \in Fields
  PROVE  Extract!Data.of[f] \in Made(job) /\ Extract!Data.lines \in Made(job)
BY DEF ExtractInv, ExtractRead, Extract!Loaded, Extract!Data

\* A step on the draft.
LEMMA ExtractDrafts ==
  ASSUME ExtractInv, UNCHANGED Extract!unsaved,
         made' = made \/ made' = Append(made, job),
         entries' \in [Fields -> ExtractEntry(job)'], extractRows' \in ExtractEntry(job)',
         extractDrag' \in {0, extractArmed'}
  PROVE  ExtractInv'
<1> USE DEF Extract!unsaved
<1>1. \E n \in Nat : made' \in [1..n -> Extract!Docs]
  BY MadeKept
<1>2. /\ \A d : ExtractRead(d) \subseteq ExtractRead(d)'
      /\ \A d, L, T : ExtractSave(d, L, T) \subseteq ExtractSave(d, L, T)'
  BY ExtractKept
<1>3. /\ \A d \in Extract!Docs : extractStored'[d] \in ExtractRead(d)'
      /\ detail' \in ExtractRead(job)' \cup {Extract!Unread}
      /\ merged' \in ExtractRead(job)' \cup {Extract!Unread}
  BY <1>2 DEF ExtractInv
<1>4. save' = Extract!Idle \/ \E d \in filed' : \E L, T : save' \in ExtractSave(d, L, T)'
  BY <1>2 DEF ExtractInv
<1> QED BY <1>1, <1>3, <1>4 DEF ExtractInv

\* An entry of the draft: the clock, a blank, or what the screen shows.
LEMMA ExtractEntries ==
  ASSUME ExtractInv, Extract!Loaded, NEW f \in Fields, made' = Append(made, job), job' = job,
         NEW kind \in {"typed", "pointed", "chosen", "undone"}, NEW v,
         v \in Made(job) \/ v = Extract!clock + 1,
         entries' = [entries EXCEPT ![f] = [kind |-> kind, val |-> v, at |-> Extract!clock + 1]]
  PROVE  entries' \in [Fields -> ExtractEntry(job)'] /\ extractRows \in ExtractEntry(job)'
<1>1. Extract!clock + 1 \in Nat /\ Extract!clock + 1 \in Made(job)' /\ \A d : Made(d) \subseteq Made(d)'
  BY MadeKept
<1>2. v \in Made(job)'
  BY <1>1
<1>3. [kind |-> kind, val |-> v, at |-> Extract!clock + 1] \in ExtractEntry(job)'
  BY <1>1, <1>2 DEF ExtractEntry
<1>4. ExtractEntry(job) \subseteq ExtractEntry(job)'
  BY ExtractKept
<1> QED BY <1>3, <1>4 DEF ExtractInv

LEMMA ExtractTypes ==
  ASSUME ExtractInv, NEW f \in Fields, Extract!Type(f) \/ Extract!Choose(f) \/ Extract!Undo(f)
  PROVE  ExtractInv'
<1>1. Extract!Loaded /\ made' = Append(made, job) /\ job' = job /\ extractRows' = extractRows
  BY DEF Extract!Type, Extract!Choose, Extract!Undo, Extract!Drafts, Extract!unsaved
<1>2. UNCHANGED Extract!unsaved
  BY DEF Extract!Type, Extract!Choose, Extract!Undo
<1>3. extractDrag' \in {0, extractArmed'}
  BY DEF ExtractInv, Extract!Type, Extract!Choose, Extract!Undo
<1>4. 0 \in Made(job) /\ Extract!Data.of[f] \in Made(job)
  BY <1>1, ExtractShown DEF Made
<1>5. entries' \in [Fields -> ExtractEntry(job)'] /\ extractRows \in ExtractEntry(job)'
  <2>1. ASSUME NEW kind \in {"typed", "pointed", "chosen", "undone"}, NEW v,
               v \in {Extract!clock + 1, 0, Extract!Data.of[f]}, Extract!Drafts(f, kind, v)
        PROVE  entries' \in [Fields -> ExtractEntry(job)'] /\ extractRows \in ExtractEntry(job)'
    BY <1>1, <1>4, <2>1, ExtractEntries DEF Extract!Drafts
  <2>2. CASE Extract!Type(f)
    BY <2>1, <2>2 DEF Extract!Type
  <2>3. CASE Extract!Choose(f)
    BY <2>1, <2>3 DEF Extract!Choose
  <2>4. CASE Extract!Undo(f)
    BY <2>1, <2>4 DEF Extract!Undo
  <2> QED BY <2>2, <2>3, <2>4
<1> QED BY <1>1, <1>2, <1>3, <1>5, ExtractDrafts

\* Lines, and what only arms or drags.
LEMMA ExtractArms ==
  ASSUME ExtractInv,
         \/ Extract!EditLines \/ Extract!Disarm \/ Extract!PointDown
         \/ \E f \in Fields : Extract!Arm(f)
  PROVE  ExtractInv'
<1>1. CASE Extract!EditLines
  <2>1. /\ Extract!Loaded /\ made' = Append(made, job) /\ job' = job /\ entries' = entries
        /\ UNCHANGED Extract!unsaved /\ extractDrag' = 0
    BY <1>1 DEF Extract!EditLines, Extract!unsaved
  <2>2. PICK v \in {Extract!clock + 1, Extract!Data.lines} :
          extractRows' = [kind |-> "lines", val |-> v, at |-> Extract!clock + 1]
    BY <1>1 DEF Extract!EditLines
  <2>3. Extract!clock + 1 \in Nat /\ Extract!clock + 1 \in Made(job)' /\ \A d : Made(d) \subseteq Made(d)'
    BY <2>1, MadeKept
  <2>4. Extract!Data.lines \in Made(job)
    BY <2>1 DEF ExtractInv, ExtractRead, Extract!Loaded, Extract!Data
  <2>5. extractRows' \in ExtractEntry(job)'
    BY <2>1, <2>2, <2>3, <2>4 DEF ExtractEntry
  <2>6. entries' \in [Fields -> ExtractEntry(job)']
    BY <2>1, ExtractKept DEF ExtractInv
  <2> QED BY <2>1, <2>5, <2>6, ExtractDrafts
<1>2. ASSUME UNCHANGED <<entries, extractRows, made, Extract!unsaved>>, extractDrag' \in {0, extractArmed'}
      PROVE  ExtractInv'
  <2>1. entries' \in [Fields -> ExtractEntry(job)'] /\ extractRows' \in ExtractEntry(job)'
    BY <1>2 DEF ExtractInv, ExtractEntry, Made, Extract!unsaved
  <2> QED BY <1>2, <2>1, ExtractDrafts
<1>3. CASE Extract!Disarm \/ Extract!PointDown
  BY <1>2, <1>3 DEF Extract!Disarm, Extract!PointDown
<1>4. ASSUME NEW f \in Fields, Extract!Arm(f) PROVE ExtractInv'
  BY <1>2, <1>4 DEF Extract!Arm, ExtractInv
<1> QED BY <1>1, <1>3, <1>4

\* The box lands on the armed field, which the drag was begun for.
LEMMA ExtractPoints == ExtractInv /\ Extract!PointUp => ExtractInv'
<1> SUFFICES ASSUME ExtractInv, Extract!PointUp PROVE ExtractInv'
  OBVIOUS
<1>1. extractDrag' = 0 /\ UNCHANGED <<extractRows, Extract!unsaved>>
  BY DEF Extract!PointUp
<1>2. CASE UNCHANGED <<entries, made>>
  <2>1. entries' \in [Fields -> ExtractEntry(job)'] /\ extractRows' \in ExtractEntry(job)'
    BY <1>1, <1>2 DEF ExtractInv, ExtractEntry, Made, Extract!unsaved
  <2> QED BY <1>1, <1>2, <2>1, ExtractDrafts
<1>3. CASE ~UNCHANGED <<entries, made>>
  <2>1. PICK v : /\ v = IF entries[extractArmed] = Extract!NoEntry THEN Extract!Data.of[extractArmed]
                                                              ELSE entries[extractArmed].val
                 /\ Extract!Drafts(extractArmed, "pointed", v)
    BY <1>3 DEF Extract!PointUp
  <2>2. Extract!Loaded /\ made' = Append(made, job) /\ job' = job
    BY <1>1, <2>1 DEF Extract!Drafts, Extract!unsaved
  <2>3. CASE extractArmed \in Fields
    <3>1. v \in Made(job)
      BY <2>1, <2>2, <2>3, ExtractShown DEF ExtractInv, ExtractEntry
    <3>2. entries' \in [Fields -> ExtractEntry(job)'] /\ extractRows \in ExtractEntry(job)'
      BY <2>1, <2>2, <2>3, <3>1, ExtractEntries DEF Extract!Drafts
    <3> QED BY <1>1, <2>2, <3>2, ExtractDrafts
  <2>4. CASE extractArmed \notin Fields
    <3>1. entries' = entries
      BY <2>1, <2>4 DEF Extract!Drafts, ExtractInv
    <3>2. entries' \in [Fields -> ExtractEntry(job)'] /\ extractRows' \in ExtractEntry(job)'
      BY <1>1, <2>2, <3>1, ExtractKept DEF ExtractInv
    <3> QED BY <1>1, <2>2, <3>2, ExtractDrafts
  <2> QED BY <2>3, <2>4
<1> QED BY <1>2, <1>3

\* A save that begins, or goes on: what it carries stays.
LEMMA ExtractSaving ==
  ASSUME ExtractInv, Extract!Save
  PROVE  ExtractInv'
<1>1. PICK left, took : save' = [job |-> job, left |-> left, took |-> took, entries |-> entries,
          rows |-> extractRows, lines |-> Extract!LineChanged, refused |-> FALSE, lineTook |-> FALSE]
  BY DEF Extract!Save
<1>2. job \in filed
  BY DEF Extract!Save, Extract!Held, ExtractInv
<1>3. save' \in ExtractSave(job, {left}, {took})
  BY <1>1 DEF ExtractSave, ExtractInv, Extract!LineChanged
<1>4. UNCHANGED <<extractStored, filed, job, detail, merged, entries, extractRows, originals, import,
                made>>
      /\ extractDrag' = 0
  BY DEF Extract!Save
<1>5. \A d : ExtractRead(d)' = ExtractRead(d) /\ ExtractEntry(d)' = ExtractEntry(d)
  BY <1>4 DEF ExtractRead, ExtractEntry, Made
<1>6. save' \in ExtractSave(job, {left}, {took})'
  BY <1>3, <1>4, <1>5 DEF ExtractSave
<1> QED BY <1>2, <1>4, <1>5, <1>6 DEF ExtractInv

\* What is posted was drafted on the document it is posted to.
LEMMA ExtractPosts ==
  ASSUME ExtractInv, Extract!PostField \/ Extract!PostLines
  PROVE  /\ ExtractInv'
         /\ \A d \in Extract!Docs : extractStored'[d] # extractStored[d] => d \in filed
<1>1. save # Extract!Idle /\ UNCHANGED Extract!unposted
  BY DEF Extract!PostField, Extract!PostLines, Extract!Saving
<1>2. PICK d \in filed : \E L, T : save \in ExtractSave(d, L, T)
  BY <1>1 DEF ExtractInv
<1>3. PICK L, T : save \in ExtractSave(d, L, T)
  BY <1>2
<1>4. /\ save.job = d /\ save.entries \in [Fields -> ExtractEntry(d)] /\ save.rows \in ExtractEntry(d)
      /\ save = [job |-> d, left |-> save.left, took |-> save.took, entries |-> save.entries,
                 rows |-> save.rows, lines |-> save.lines, refused |-> save.refused,
                 lineTook |-> save.lineTook]
      /\ save.left \in L /\ save.took \in T /\ save.lines \in BOOLEAN
  BY <1>3 DEF ExtractSave
<1>5. /\ UNCHANGED <<filed, job, detail, merged, entries, extractRows, originals, import, made>>
      /\ UNCHANGED <<extractDrag, extractArmed>>
  BY <1>1 DEF Extract!unposted
<1>6. \A x : Made(x)' = Made(x) /\ ExtractRead(x)' = ExtractRead(x) /\ ExtractEntry(x)' = ExtractEntry(x)
  BY <1>5 DEF ExtractRead, ExtractEntry, Made
<1>7. \E K, U : save' \in ExtractSave(d, K, U)
  <2>1. ASSUME save' = [save EXCEPT !.refused = TRUE] PROVE save' \in ExtractSave(d, L, T)
    <3>1. save' = [job |-> d, left |-> save.left, took |-> save.took, entries |-> save.entries,
                   rows |-> save.rows, lines |-> save.lines, refused |-> TRUE,
                   lineTook |-> save.lineTook]
      BY <1>3, <2>1 DEF ExtractSave
    <3> QED BY <1>3, <3>1 DEF ExtractSave
  <2>2. ASSUME save' = [save EXCEPT !.lineTook = TRUE] PROVE save' \in ExtractSave(d, L, T)
    <3>1. save' = [job |-> d, left |-> save.left, took |-> save.took, entries |-> save.entries,
                   rows |-> save.rows, lines |-> save.lines, refused |-> save.refused,
                   lineTook |-> TRUE]
      BY <1>3, <2>2 DEF ExtractSave
    <3> QED BY <1>3, <3>1 DEF ExtractSave
  <2>3. ASSUME NEW K, NEW U, save' = [save EXCEPT !.left = K, !.took = U]
        PROVE  save' \in ExtractSave(d, {K}, {U})
    <3>1. save' = [job |-> d, left |-> K, took |-> U, entries |-> save.entries,
                   rows |-> save.rows, lines |-> save.lines, refused |-> save.refused,
                   lineTook |-> save.lineTook]
      BY <1>3, <2>3 DEF ExtractSave
    <3> QED BY <1>3, <3>1 DEF ExtractSave
  <2>4. CASE Extract!PostField
    <3>1. PICK f : \/ save' = [save EXCEPT !.refused = TRUE]
                   \/ save' = [save EXCEPT !.left = @ \ {f}, !.took = @ \cup {f}]
      BY <2>4, Zenon DEF Extract!PostField
    <3>2. CASE save' = [save EXCEPT !.left = @ \ {f}, !.took = @ \cup {f}]
      <4>1. save' = [save EXCEPT !.left = save.left \ {f}, !.took = save.took \cup {f}]
        BY <3>2
      <4> QED BY <2>3, <4>1
    <3> QED BY <2>1, <3>1, <3>2
  <2>5. CASE Extract!PostLines
    BY <2>1, <2>2, <2>5 DEF Extract!PostLines
  <2> QED BY <2>4, <2>5
<1>8. /\ DOMAIN extractStored' = Extract!Docs
      /\ \A x \in Extract!Docs : /\ extractStored'[x] \in ExtractRead(x)
                                 /\ x # d => extractStored'[x] = extractStored[x]
  <2>1. CASE extractStored' = extractStored
    BY <2>1 DEF ExtractInv
  <2>2. PICK r : r = extractStored[d]
    OBVIOUS
  <2>3. d \in Extract!Docs
    BY DEF ExtractInv
  <2>4. ASSUME NEW f, NEW v, f \in Fields => v \in Made(d),
               extractStored' = [extractStored EXCEPT ![d].of[f] = v]
        PROVE  /\ DOMAIN extractStored' = Extract!Docs
               /\ \A x \in Extract!Docs : /\ extractStored'[x] \in ExtractRead(x)
                                          /\ x # d => extractStored'[x] = extractStored[x]
    <3>1. PICK of : of = [r.of EXCEPT ![f] = v]
      OBVIOUS
    <3>2. PICK n : n = [r EXCEPT !.of = of]
      OBVIOUS
    <3>3. r \in ExtractRead(d)
      BY <2>2, <2>3 DEF ExtractInv
    <3>4. of \in [Fields -> Made(d)]
      BY <2>4, <3>1, <3>3 DEF ExtractRead
    <3>5. n = [lines |-> r.lines, of |-> of]
      BY <3>2, <3>3 DEF ExtractRead
    <3>6. n \in ExtractRead(d)
      BY <3>3, <3>4, <3>5 DEF ExtractRead
    <3>7. extractStored' = [extractStored EXCEPT ![d] = n]
      BY <2>2, <2>4, <3>1, <3>2
    <3> QED BY <2>3, <3>6, <3>7 DEF ExtractInv
  <2>5. ASSUME NEW v \in Made(d),
               extractStored' = [extractStored EXCEPT ![d].lines = v]
        PROVE  /\ DOMAIN extractStored' = Extract!Docs
               /\ \A x \in Extract!Docs : /\ extractStored'[x] \in ExtractRead(x)
                                          /\ x # d => extractStored'[x] = extractStored[x]
    <3>1. PICK n : n = [r EXCEPT !.lines = v]
      OBVIOUS
    <3>2. r \in ExtractRead(d)
      BY <2>2, <2>3 DEF ExtractInv
    <3>3. n = [lines |-> v, of |-> r.of]
      BY <3>1, <3>2 DEF ExtractRead
    <3>4. n \in ExtractRead(d)
      BY <2>5, <3>2, <3>3 DEF ExtractRead
    <3>5. extractStored' = [extractStored EXCEPT ![d] = n]
      BY <2>2, <2>5, <3>1
    <3> QED BY <2>3, <3>4, <3>5 DEF ExtractInv
  <2>6. CASE Extract!PostField
    <3> DEFINE val(f) == IF save.entries[f].kind = "undone" THEN 0 ELSE save.entries[f].val
    <3>3. PICK f \in save.left : \/ extractStored' = [extractStored EXCEPT ![save.job].of[f] = val(f)]
                                \/ extractStored' = extractStored
      BY <2>6, Zenon DEF Extract!PostField
    <3>1. PICK v : /\ v = val(f)
                   /\ extractStored' = [extractStored EXCEPT ![d].of[f] = v] \/ extractStored' = extractStored
      BY <1>4, <3>3
    <3>2. f \in Fields => v \in Made(d)
      BY <1>4, <3>1 DEF ExtractEntry, Made
    <3> QED BY <2>1, <2>4, <2>6, <3>1, <3>2
  <2>7. CASE Extract!PostLines
    <3>1. extractStored' = [extractStored EXCEPT ![d].lines = save.rows.val] \/ extractStored' = extractStored
      BY <1>4, <2>7 DEF Extract!PostLines
    <3>2. save.rows.val \in Made(d)
      BY <1>4 DEF ExtractEntry
    <3> QED BY <2>1, <2>5, <2>7, <3>1, <3>2
  <2> QED BY <2>6, <2>7
<1>9. ExtractInv'
  <2>1. \A x \in Extract!Docs : extractStored'[x] \in ExtractRead(x)'
    BY <1>6, <1>8
  <2>2. \E K, U : save' \in ExtractSave(d, K, U)'
    BY <1>6, <1>7 DEF ExtractSave
  <2> QED BY <1>2, <1>5, <1>6, <1>8, <2>1, <2>2 DEF ExtractInv
<1> QED BY <1>2, <1>8, <1>9

LEMMA ExtractReads ==
  ASSUME ExtractInv,
         \/ Extract!SaveLands \/ Extract!Visit \/ Extract!ReadAnswers
         \/ Extract!OriginalsAnswer \/ Extract!Import \/ Extract!ImportAnswers
  PROVE  ExtractInv'
<1>1. /\ UNCHANGED <<made, extractStored>> /\ save' \in {save, Extract!Idle}
      /\ filed \subseteq filed' /\ filed' \subseteq Extract!Docs /\ import' \in Extract!Docs \cup {0}
  BY DEF ExtractInv, Extract!SaveLands, Extract!Visit, Extract!ReadAnswers, Extract!OriginalsAnswer,
     Extract!Import, Extract!ImportAnswers, Extract!unread
<1>2. \A x : /\ Made(x)' = Made(x) /\ ExtractRead(x)' = ExtractRead(x) /\ ExtractEntry(x)' = ExtractEntry(x)
             /\ 0 \in Made(x) /\ Extract!NoEntry \in ExtractEntry(x)
  BY <1>1 DEF ExtractRead, ExtractEntry, Made, Extract!NoEntry
<1>3. save' = Extract!Idle \/ \E d \in filed' : \E L, T : save' \in ExtractSave(d, L, T)'
  BY <1>1, <1>2 DEF ExtractInv, ExtractSave
<1>4. /\ \E n \in Nat : made' \in [1..n -> Extract!Docs]
      /\ DOMAIN extractStored' = Extract!Docs
      /\ \A d \in Extract!Docs : extractStored'[d] \in ExtractRead(d)'
      /\ Extract!Docs \ Notes \subseteq filed'
  BY <1>1, <1>2 DEF ExtractInv
<1>5. ASSUME job' = job
      PROVE  \A x : (x \in ExtractRead(job) => x \in ExtractRead(job)')
                 /\ (x \in ExtractEntry(job) => x \in ExtractEntry(job)')
  BY <1>2, <1>5
<1>6. CASE Extract!SaveLands
  <2>1. UNCHANGED <<job, detail, extractArmed, extractDrag, originals>>
    BY <1>6 DEF Extract!SaveLands
  <2>2. merged' \in {merged, extractStored[job], Extract!Unread}
    BY <1>6 DEF Extract!SaveLands
  <2>3. \A f \in Fields : entries'[f] \in {entries[f], Extract!NoEntry}
    BY <1>6 DEF Extract!SaveLands
  <2>4. DOMAIN entries' = Fields /\ extractRows' \in {extractRows, Extract!NoEntry}
    BY <1>6 DEF Extract!SaveLands
  <2>5. entries' \in [Fields -> ExtractEntry(job)']
    <3>1. \A f \in Fields : entries'[f] \in ExtractEntry(job)'
      BY <1>2, <1>5, <2>1, <2>3 DEF ExtractInv
    <3>2. entries' = [f \in Fields |-> entries'[f]]
      BY <1>6 DEF Extract!SaveLands
    <3> QED BY <3>1, <3>2
  <2>6. /\ detail' \in ExtractRead(job)' \cup {Extract!Unread}
        /\ merged' \in ExtractRead(job)' \cup {Extract!Unread}
        /\ extractRows' \in ExtractEntry(job)'
    BY <1>2, <1>5, <2>1, <2>2, <2>4 DEF ExtractInv
  <2> QED BY <1>1, <1>3, <1>4, <2>1, <2>5, <2>6 DEF ExtractInv
<1>7. CASE Extract!Visit
  <2>1. /\ job' \in Extract!Docs /\ detail' = Extract!Unread /\ merged' = Extract!Unread
        /\ extractRows' = Extract!NoEntry /\ extractDrag' = 0 /\ originals' = "unread"
    BY <1>7 DEF Extract!Visit, ExtractInv, Extract!Docs
  <2>2. entries' \in [Fields -> ExtractEntry(job)'] /\ extractRows' \in ExtractEntry(job)'
    BY <1>2, <1>7, <2>1 DEF Extract!Visit
  <2> QED BY <1>1, <1>3, <1>4, <2>1, <2>2 DEF ExtractInv
<1>8. CASE Extract!ReadAnswers \/ Extract!OriginalsAnswer \/ Extract!Import \/ Extract!ImportAnswers
  <2>1. UNCHANGED Extract!unread /\ detail' \in {detail, extractStored[job]}
    BY <1>8 DEF Extract!ReadAnswers, Extract!OriginalsAnswer, Extract!Import, Extract!ImportAnswers
  <2>2. UNCHANGED <<job, merged, entries, extractRows, extractArmed, extractDrag>>
    BY <2>1 DEF Extract!unread
  <2>3. originals' = "filed" => job \in filed'
    BY <1>1, <1>8 DEF Extract!ReadAnswers, Extract!OriginalsAnswer, Extract!Import,
       Extract!ImportAnswers, ExtractInv
  <2>4. /\ detail' \in ExtractRead(job)' \cup {Extract!Unread}
        /\ merged' \in ExtractRead(job)' \cup {Extract!Unread}
        /\ entries' \in [Fields -> ExtractEntry(job)'] /\ extractRows' \in ExtractEntry(job)'
    BY <1>2, <1>5, <2>1, <2>2 DEF ExtractInv
  <2> QED BY <1>1, <1>3, <1>4, <2>2, <2>3, <2>4 DEF ExtractInv
<1> QED BY <1>6, <1>7, <1>8

LEMMA ExtractNext == ExtractInv /\ Extract!Next => ExtractInv'
BY ExtractTypes, ExtractArms, ExtractPoints, ExtractSaving, ExtractPosts, ExtractReads
   DEF Extract!Next

\* Only a box marks an entry as pointed, and only a save writes.
LEMMA ExtractSends ==
  ASSUME ExtractInv, Extract!Next
  PROVE  Extract!SendsWhatWasArmed
<1>1. ASSUME NEW f \in Fields, entries'[f].kind = "pointed", entries[f].kind # "pointed"
      PROVE  extractDrag = f
  <2>1. ASSUME NEW g, NEW kind, NEW v, Extract!Drafts(g, kind, v) PROVE f = g /\ kind = "pointed"
    <3>1. entries' = [entries EXCEPT ![g] = [kind |-> kind, val |-> v, at |-> Extract!clock + 1]]
      BY <2>1 DEF Extract!Drafts
    <3> QED BY <1>1, <3>1 DEF ExtractInv
  <2>2. entries' # entries
    BY <1>1
  <2>3. ~\E g \in Fields : Extract!Type(g) \/ Extract!Choose(g) \/ Extract!Undo(g)
    <3>1. ASSUME NEW g \in Fields, Extract!Type(g) PROVE FALSE
      <4>1. PICK v : Extract!Drafts(g, IF entries[g].kind = "pointed" THEN "pointed" ELSE "typed", v)
        BY <3>1 DEF Extract!Type
      <4> QED BY <1>1, <2>1, <4>1
    <3>2. ASSUME NEW g \in Fields, Extract!Choose(g) \/ Extract!Undo(g) PROVE FALSE
      BY <2>1, <3>2 DEF Extract!Choose, Extract!Undo
    <3> QED BY <3>1, <3>2
  <2>4. ~Extract!SaveLands /\ ~Extract!Visit
    <3>1. ASSUME Extract!SaveLands \/ Extract!Visit PROVE entries'[f] \in {entries[f], Extract!NoEntry}
      BY <3>1 DEF Extract!SaveLands, Extract!Visit
    <3> QED BY <1>1, <3>1 DEF Extract!NoEntry
  <2>5. Extract!PointUp
    BY <2>2, <2>3, <2>4 DEF Extract!Next, Extract!Arm, Extract!EditLines, Extract!Disarm,
       Extract!PointDown, Extract!Save, Extract!PostField, Extract!PostLines, Extract!unposted,
       Extract!ReadAnswers, Extract!OriginalsAnswer, Extract!Import, Extract!ImportAnswers,
       Extract!unread
  <2>6. extractDrag = extractArmed
    BY <2>5 DEF Extract!PointUp, ExtractInv
  <2> QED BY <2>1, <2>2, <2>5, <2>6 DEF Extract!PointUp
<1>2. extractStored' = extractStored \/ Extract!PostField \/ Extract!PostLines
  BY DEF Extract!Next, Extract!Type, Extract!Choose, Extract!Undo, Extract!Arm, Extract!EditLines,
     Extract!Disarm, Extract!PointDown, Extract!PointUp, Extract!unsaved, Extract!Save,
     Extract!SaveLands, Extract!Visit, Extract!ReadAnswers, Extract!OriginalsAnswer,
     Extract!Import, Extract!ImportAnswers, Extract!unread
<1>3. \A d \in Extract!Docs : extractStored'[d] \in ExtractRead(d)
  <2>1. CASE extractStored' = extractStored
    BY <2>1 DEF ExtractInv
  <2>2. CASE Extract!PostField \/ Extract!PostLines
    <3>1. made' = made
      BY <2>2 DEF Extract!PostField, Extract!PostLines, Extract!unposted
    <3>2. \A d \in Extract!Docs : extractStored'[d] \in ExtractRead(d)'
      BY <2>2, ExtractPosts DEF ExtractInv
    <3> QED BY <3>1, <3>2 DEF ExtractRead, Made
  <2> QED BY <1>2, <2>1, <2>2
<1>4. \A d \in Extract!Docs :
        \A v \in {extractStored'[d].lines} \cup {extractStored'[d].of[f] : f \in Fields} :
          v # 0 => made[v] = d
  BY <1>3 DEF ExtractRead, Made
<1>5. \A d \in Extract!Docs : extractStored'[d] # extractStored[d] => d \in filed
  BY <1>2, ExtractPosts
<1> QED BY <1>1, <1>4, <1>5 DEF Extract!SendsWhatWasArmed
------------------------------------------------------------------------------

\* What can be drafted: a field, or the lines as a whole.
Slots == Fields \cup {Extract!LineSet}
Slot(f) == IF f = Extract!LineSet THEN extractRows ELSE entries[f]
Posting(f) == IF f = Extract!LineSet THEN save.rows ELSE save.entries[f]
Lands == save # Extract!Idle /\ save.job = job

DeskTyped ==
  /\ Len(made) <= MaxEntries
  /\ DOMAIN extractStored = Extract!Docs /\ extractStored = [d \in Extract!Docs |-> extractStored[d]]
  /\ extractArmed \in (Fields \ Ambiguous) \cup {0}
  /\ originals \in {"unread", "failed", "open", "filed"} /\ import \in Notes \cup {0}
  /\ last \in [Slots -> 0..Len(made)] /\ done \subseteq 1..Len(made)
  /\ extractCrossed \in BOOLEAN /\ extractBehind \in BOOLEAN /\ visits \in 0..MaxVisits

\* An entry of the draft is the newest of its slot, made on this document.
DeskDrafts ==
  /\ \A f \in Slots : Slot(f) = Extract!NoEntry \/ (last[f] # 0 /\ Slot(f).at = last[f] /\ made[Slot(f).at] = job)
  /\ \A f, g \in Slots : (last[f] # 0 /\ last[f] = last[g]) => f = g

\* A save carries the draft it began with: an entry of it was taken, or had
\* nothing to post, or is left to post.
DeskSave ==
  save # Extract!Idle =>
    /\ save.left \subseteq Fields
    /\ \A f \in Slots : \/ Posting(f) = Extract!NoEntry /\ f \notin save.left
                        \/ Posting(f).at \in 1..Len(made) /\ made[Posting(f).at] = save.job
    /\ save.lines => save.rows # Extract!NoEntry
    /\ \A f \in Fields : Posting(f) = Extract!NoEntry \/ Posting(f).at \in done \/ f \in save.left
    /\ save.lineTook => save.rows.at \in done
    /\ \A f, g \in Slots :
         (Slot(f) # Extract!NoEntry /\ Posting(g) # Extract!NoEntry /\ Slot(f).at = Posting(g).at) =>
           f = g /\ Slot(f) = Posting(g)

\* What was made on this visit is in the draft until it is dealt with, and what
\* was dealt with is in the draft only while the save that did it is out.
DeskSurvives ==
  /\ ~extractCrossed => \A f \in Slots : last[f] \in done \cup {0} \/ Slot(f) # Extract!NoEntry
  /\ \A f \in Fields : (Slot(f) # Extract!NoEntry /\ Slot(f).at \in done) =>
       Lands /\ Slot(f) = Posting(f) /\ f \notin save.left

\* What is shown is what the service holds, unless a save of this document is
\* out or the read after it failed.
DeskFresh ==
  /\ (~extractBehind /\ ~Lands) =>
       /\ merged # Extract!Unread => merged = extractStored[job]
       /\ (merged = Extract!Unread /\ detail # Extract!Unread) => detail = extractStored[job]
  /\ (save # Extract!Idle /\ save.job # job) => merged = Extract!Unread

DeskSafe == DeskTyped /\ DeskDrafts /\ DeskSave /\ DeskSurvives /\ DeskFresh

LEMMA DeskTypes ==
  ASSUME ExtractInv, DeskTyped
  PROVE  /\ made \in Seq(Extract!Docs) /\ Len(made) \in 0..MaxEntries /\ Len(made) \in Nat /\ MaxEntries \in Nat
         /\ Extract!clock = Len(made) /\ Extract!LineSet = 0 /\ Extract!LineSet \notin Fields
         /\ Extract!NoEntry.at = 0 /\ \A f \in Fields : f \in Nat \ {0}
         /\ Extract!Idle.job = 0 /\ job \in {1, 2} /\ Extract!Docs = {1, 2}
         /\ \A f \in Slots : last[f] \in 0..Len(made)
<1>1. PICK n \in Nat : made \in [1..n -> Extract!Docs]
  BY DEF ExtractInv
<1>2. made \in Seq(Extract!Docs) /\ Len(made) = n
  BY <1>1
<1>3. MaxEntries \in Nat /\ Fields \subseteq Nat \ {0}
  BY PageAssumption DEF Extract!DeskAssumption
<1> QED BY <1>1, <1>2, <1>3 DEF DeskTyped, ExtractInv, Extract!Docs, Extract!clock, Extract!LineSet, Extract!NoEntry, Extract!Idle

LEMMA DeskInit == Extract!Init => DeskSafe
<1> SUFFICES ASSUME Extract!Init PROVE DeskSafe
  OBVIOUS
<1>1. /\ made = <<>> /\ Len(made) = 0 /\ done = {} /\ save = Extract!Idle /\ extractRows = Extract!NoEntry
      /\ entries = [f \in Fields |-> Extract!NoEntry] /\ detail = Extract!Unread /\ merged = Extract!Unread
      /\ last = [f \in Slots |-> 0]
  BY DEF Extract!Init, Slots
<1>2. MaxEntries \in Nat /\ MaxVisits \in Nat
  BY PageAssumption DEF Extract!DeskAssumption
<1>3. DeskTyped
  <2>1. extractCrossed \in BOOLEAN /\ extractBehind \in BOOLEAN
    BY Zenon DEF Extract!Init
  <2>2. /\ extractArmed \in (Fields \ Ambiguous) \cup {0}
        /\ originals \in {"unread", "failed", "open", "filed"} /\ import \in Notes \cup {0}
        /\ visits \in 0..MaxVisits
    BY <1>2 DEF Extract!Init
  <2>3. DOMAIN extractStored = Extract!Docs /\ extractStored = [d \in Extract!Docs |-> extractStored[d]]
    BY DEF Extract!Init
  <2> QED BY <1>1, <1>2, <2>1, <2>2, <2>3 DEF DeskTyped
<1>4. \A f \in Slots : Slot(f) = Extract!NoEntry /\ last[f] = 0
  BY <1>1 DEF Slots, Slot
<1> QED BY <1>1, <1>3, <1>4 DEF DeskSafe, DeskDrafts, DeskSave, DeskSurvives, DeskFresh, Slots, Lands

\* A correction is drafted: it is the newest, and no save has it.
LEMMA DeskEntered ==
  ASSUME ExtractInv, DeskSafe, NEW f \in Slots, made' = Append(made, job), Extract!clock < MaxEntries,
         \A g \in Slots : last'[g] = IF g = f THEN Len(made) + 1 ELSE last[g],
         last' \in [Slots -> 0..Len(made)+1],
         Slot(f)'.at = Len(made) + 1, \A g \in Slots \ {f} : Slot(g)' = Slot(g),
         extractArmed' \in (Fields \ Ambiguous) \cup {0}, UNCHANGED Extract!unsaved
  PROVE  DeskSafe'
<1> USE DeskTypes
<1>1. UNCHANGED <<extractStored, filed, job, detail, merged, save, originals, import, done, extractCrossed,
                  extractBehind, visits>>
  BY DEF Extract!unsaved
<1>2. DeskTyped
  BY DEF DeskSafe
<1>3. /\ Len(made') = Len(made) + 1 /\ Len(made) + 1 <= MaxEntries /\ made'[Len(made) + 1] = job
      /\ \A n \in 1..Len(made) : made'[n] = made[n]
  BY <1>2
<1>4. Slot(f)' # Extract!NoEntry
  BY <1>2
<1>5. DeskTyped'
  <2>1. last' \in [Slots -> 0..Len(made')] /\ Len(made') <= MaxEntries /\ done' \subseteq 1..Len(made')
    BY <1>1, <1>2, <1>3 DEF DeskTyped
  <2> QED BY <1>1, <1>2, <2>1 DEF DeskTyped, Slots
<1>6. DeskDrafts'
  <2>1. \A g \in Slots : Slot(g)' = Extract!NoEntry \/
          (last'[g] # 0 /\ Slot(g)'.at = last'[g] /\ made'[Slot(g)'.at] = job')
    <3> SUFFICES ASSUME NEW g \in Slots, Slot(g)' # Extract!NoEntry
                 PROVE  last'[g] # 0 /\ Slot(g)'.at = last'[g] /\ made'[Slot(g)'.at] = job'
      OBVIOUS
    <3>1. CASE g = f
      BY <1>1, <1>2, <1>3, <3>1
    <3>2. CASE g # f
      <4>1. Slot(g)' = Slot(g) /\ last'[g] = last[g] /\ last[g] \in 0..Len(made)
        BY <1>2, <3>2
      <4> QED BY <1>1, <1>2, <1>3, <4>1 DEF DeskSafe, DeskDrafts
    <3> QED BY <3>1, <3>2
  <2>2. \A g, h \in Slots : (last'[g] # 0 /\ last'[g] = last'[h]) => g = h
    BY <1>2 DEF DeskSafe, DeskDrafts
  <2> QED BY <2>1, <2>2 DEF DeskDrafts, Slots, Slot
<1>7. DeskSave'
  <2> SUFFICES ASSUME save # Extract!Idle PROVE DeskSave'
    BY <1>1 DEF DeskSave
  <2>1. /\ \A g \in Slots : Posting(g)' = Posting(g)
        /\ \A g \in Slots : \/ Posting(g) = Extract!NoEntry
                            \/ Posting(g).at \in 1..Len(made) /\ made[Posting(g).at] = save.job
    BY <1>1 DEF DeskSafe, DeskSave, Posting
  <2>2. \A g \in Slots : \/ Posting(g)' = Extract!NoEntry
                         \/ Posting(g)'.at \in 1..Len(made') /\ made'[Posting(g)'.at] = save'.job
    BY <1>1, <1>2, <1>3, <2>1
  <2>3. \A g, h \in Slots :
         (Slot(g)' # Extract!NoEntry /\ Posting(h)' # Extract!NoEntry /\ Slot(g)'.at = Posting(h)'.at) =>
           g = h /\ Slot(g)' = Posting(h)'
    <3> SUFFICES ASSUME NEW g \in Slots, NEW h \in Slots, Slot(g)' # Extract!NoEntry, Posting(h)' # Extract!NoEntry,
                        Slot(g)'.at = Posting(h)'.at
                 PROVE  g = h /\ Slot(g)' = Posting(h)'
      OBVIOUS
    <3>1. g # f
      BY <1>2, <2>1
    <3> QED BY <2>1, <3>1 DEF DeskSafe, DeskSave
  <2> QED BY <1>1, <2>1, <2>2, <2>3 DEF DeskSafe, DeskSave, Slots, Slot, Posting
<1>8. DeskSurvives'
  <2>1. ~extractCrossed' => \A g \in Slots : last'[g] \in done' \cup {0} \/ Slot(g)' # Extract!NoEntry
    BY <1>1, <1>4 DEF DeskSafe, DeskSurvives
  <2>2. \A g \in Fields : (Slot(g)' # Extract!NoEntry /\ Slot(g)'.at \in done') =>
           Lands /\ Slot(g)' = Posting(g) /\ g \notin save.left
    <3>1. Len(made) + 1 \notin done
      BY <1>2 DEF DeskTyped
    <3> QED BY <1>1, <3>1 DEF DeskSafe, DeskSurvives, Slots
  <2>3. (Lands' <=> Lands) /\ \A g \in Fields : Posting(g)' = Posting(g)
    BY <1>1 DEF Lands, Posting
  <2> QED BY <1>1, <2>1, <2>2, <2>3 DEF DeskSurvives, Slots, Slot
<1>9. DeskFresh'
  BY <1>1 DEF DeskSafe, DeskFresh, Lands
<1> QED BY <1>5, <1>6, <1>7, <1>8, <1>9 DEF DeskSafe

\* The same, as the screen writes it.
LEMMA DeskFieldEntered ==
  ASSUME ExtractInv, DeskSafe, NEW f \in Fields, NEW kind, NEW v, Extract!Drafts(f, kind, v),
         UNCHANGED extractRows, extractArmed' \in (Fields \ Ambiguous) \cup {0}, UNCHANGED Extract!unsaved
  PROVE  DeskSafe'
<1> USE DeskTypes
<1>1. DeskTyped /\ DOMAIN entries = Fields /\ last \in [Slots -> 0..Len(made)]
  BY DEF DeskSafe, ExtractInv, DeskTyped
<1>2. /\ Extract!clock < MaxEntries /\ made' = Append(made, job)
      /\ entries' = [entries EXCEPT ![f] = [kind |-> kind, val |-> v, at |-> Len(made) + 1]]
      /\ last' = [last EXCEPT ![f] = Len(made) + 1]
  BY <1>1 DEF Extract!Drafts
<1>3. f \in Slots /\ f # Extract!LineSet
  BY <1>1 DEF Slots
<1>4. entries'[f].at = Len(made) + 1 /\ \A g \in Fields \ {f} : entries'[g] = entries[g]
  BY <1>1, <1>2 DEF ExtractInv
<1>5. Slot(f)'.at = Len(made) + 1 /\ \A g \in Slots \ {f} : Slot(g)' = Slot(g)
  BY <1>3, <1>4 DEF Slot, Slots
<1>6. /\ \A g \in Slots : last'[g] = IF g = f THEN Len(made) + 1 ELSE last[g]
      /\ last' \in [Slots -> 0..Len(made)+1]
  BY <1>1, <1>2, <1>3
<1> QED BY <1>2, <1>3, <1>5, <1>6, DeskEntered

LEMMA DeskTypesIn ==
  ASSUME ExtractInv, DeskSafe,
         \/ \E f \in Fields : Extract!Type(f) \/ Extract!Choose(f) \/ Extract!Undo(f)
         \/ Extract!EditLines
  PROVE  DeskSafe'
<1> USE DeskTypes
<1>1. DeskTyped
  BY DEF DeskSafe
<1>2. ASSUME NEW f \in Fields, Extract!Type(f) PROVE DeskSafe'
  BY <1>2, DeskFieldEntered DEF Extract!Type
<1>3. ASSUME NEW f \in Fields, Extract!Choose(f) PROVE DeskSafe'
  BY <1>3, DeskFieldEntered DEF Extract!Choose
<1>4. ASSUME NEW f \in Fields, Extract!Undo(f) PROVE DeskSafe'
  <2>1. extractArmed' \in (Fields \ Ambiguous) \cup {0}
    BY <1>1, <1>4 DEF Extract!Undo, DeskTyped
  <2> QED BY <1>4, <2>1, DeskFieldEntered DEF Extract!Undo
<1>5. CASE Extract!EditLines
  <2>1. PICK v : extractRows' = [kind |-> "lines", val |-> v, at |-> Len(made) + 1]
    BY <1>1, <1>5 DEF Extract!EditLines
  <2>2. /\ Extract!clock < MaxEntries /\ made' = Append(made, job) /\ last' = [last EXCEPT ![0] = Len(made) + 1]
        /\ extractArmed' = 0 /\ UNCHANGED entries /\ UNCHANGED Extract!unsaved
    BY <1>1, <1>5 DEF Extract!EditLines
  <2>3. 0 \in Slots /\ Slot(0)'.at = Len(made) + 1 /\ \A g \in Slots \ {0} : Slot(g)' = Slot(g)
    BY <1>1, <2>1, <2>2 DEF Slots, Slot
  <2>4. /\ \A g \in Slots : last'[g] = IF g = 0 THEN Len(made) + 1 ELSE last[g]
        /\ last' \in [Slots -> 0..Len(made)+1]
    BY <1>1, <2>2, <2>3 DEF DeskTyped
  <2> QED BY <2>2, <2>3, <2>4, DeskEntered
<1> QED BY <1>2, <1>3, <1>4, <1>5

\* Nothing of the draft, of the save and of what was read moves.
LEMMA DeskUnmoved ==
  ASSUME DeskSafe,
         UNCHANGED <<extractStored, job, detail, merged, entries, extractRows, save, made, last, done,
                     extractCrossed, extractBehind, visits>>,
         extractArmed' \in (Fields \ Ambiguous) \cup {0},
         originals' \in {"unread", "failed", "open", "filed"}, import' \in Notes \cup {0}
  PROVE  DeskSafe'
<1>1. DeskTyped'
  BY DEF DeskSafe, DeskTyped, Slots
<1>2. DeskDrafts' /\ DeskSave'
  BY DEF DeskSafe, DeskDrafts, DeskSave, Slots, Slot, Posting
<1>3. DeskSurvives' /\ DeskFresh'
  BY DEF DeskSafe, DeskSurvives, DeskFresh, Lands, Slots, Slot, Posting
<1> QED BY <1>1, <1>2, <1>3 DEF DeskSafe

LEMMA DeskArms ==
  ASSUME ExtractInv, DeskSafe,
         \/ \E f \in Fields : Extract!Arm(f)
         \/ Extract!Disarm \/ Extract!PointDown
         \/ Extract!OriginalsAnswer \/ Extract!Import \/ Extract!ImportAnswers
  PROVE  DeskSafe'
<1>1. DeskTyped
  BY DEF DeskSafe
<1>2. UNCHANGED <<extractStored, job, detail, merged, entries, extractRows, save, made, last, done,
                  extractCrossed, extractBehind, visits>>
  BY DEF Extract!Arm, Extract!Disarm, Extract!PointDown, Extract!OriginalsAnswer, Extract!Import,
     Extract!ImportAnswers, Extract!unsaved, Extract!unread
<1>3. extractArmed' \in (Fields \ Ambiguous) \cup {0}
  BY <1>1 DEF DeskTyped, Extract!Arm, Extract!Disarm, Extract!PointDown, Extract!OriginalsAnswer, Extract!Import,
     Extract!ImportAnswers, Extract!unread
<1>4. originals' \in {"unread", "failed", "open", "filed"}
  BY <1>1 DEF DeskTyped, Extract!Arm, Extract!Disarm, Extract!PointDown, Extract!OriginalsAnswer, Extract!Import,
     Extract!ImportAnswers, Extract!unsaved
<1>5. import' \in Notes \cup {0}
  BY <1>1 DEF DeskTyped, Extract!Arm, Extract!Disarm, Extract!PointDown, Extract!OriginalsAnswer, Extract!Import,
     Extract!ImportAnswers, Extract!unsaved
<1> QED BY <1>2, <1>3, <1>4, <1>5, DeskUnmoved

LEMMA DeskPoints ==
  ASSUME ExtractInv, DeskSafe, Extract!PointUp
  PROVE  DeskSafe'
<1> USE DeskTypes
<1>1. DeskTyped /\ extractDrag # 0 /\ extractArmed \in Fields
  BY DEF DeskSafe, DeskTyped, ExtractInv, Extract!PointUp
<1>2. CASE UNCHANGED <<entries, extractRows, extractArmed, made, last, Extract!unsaved>>
  BY <1>1, <1>2, DeskUnmoved DEF Extract!unsaved, DeskTyped
<1>3. CASE ~UNCHANGED <<entries, extractRows, extractArmed, made, last, Extract!unsaved>>
  <2>1. PICK v : Extract!Drafts(extractArmed, "pointed", v)
    BY <1>3 DEF Extract!PointUp
  <2>2. extractArmed' = 0 /\ UNCHANGED <<extractRows, Extract!unsaved>>
    BY <1>3 DEF Extract!PointUp
  <2> QED BY <1>1, <2>1, <2>2, DeskFieldEntered
<1> QED BY <1>2, <1>3

\* A save begins: it carries the draft, and what it cannot post is dealt with.
LEMMA DeskSaves ==
  ASSUME ExtractInv, DeskSafe, Extract!Save
  PROVE  DeskSafe'
<1> USE DeskTypes
<1> DEFINE left == Extract!savableCorrections
<1>1. DeskTyped /\ save = Extract!Idle /\ ~Lands
  BY DEF DeskSafe, Extract!Save, Extract!Saving, Lands
<1>2. UNCHANGED <<extractStored, filed, job, detail, merged, entries, extractRows, originals, import, made, last,
                  extractCrossed, extractBehind, visits>> /\ extractArmed' = 0
  BY DEF Extract!Save
<1>3. /\ save'.job = job /\ save'.left = left /\ save'.entries = entries /\ save'.rows = extractRows
      /\ save'.lines = Extract!LineChanged /\ save'.lineTook = FALSE
  BY DEF Extract!Save
<1>4. save' # Extract!Idle /\ Lands' /\ \A f \in Slots : Posting(f)' = Slot(f) /\ Slot(f)' = Slot(f)
  BY <1>1, <1>2, <1>3 DEF Lands, Slot, Posting
<1>5. left \subseteq Fields /\ \A f \in left : Slot(f) # Extract!NoEntry
  BY <1>1 DEF Extract!savableCorrections, Extract!Savable, Slot
<1>6. \A f \in Slots : Slot(f) = Extract!NoEntry \/ (Slot(f).at \in 1..Len(made) /\ Slot(f).at = last[f] /\ made[Slot(f).at] = job)
  BY <1>1 DEF DeskSafe, DeskDrafts
<1>7. \A f, g \in Slots :
         (Slot(f) # Extract!NoEntry /\ Slot(g) # Extract!NoEntry /\ Slot(f).at = Slot(g).at) => f = g
  BY <1>1, <1>6 DEF DeskSafe, DeskDrafts
<1>8. \A n : n \in done' <=> \/ n \in done
                             \/ \E g \in Slots : /\ Slot(g) # Extract!NoEntry /\ n = Slot(g).at
                                                 /\ g \in Fields => g \notin left
                                                 /\ g \notin Fields => ~Extract!LineChanged
  <2>1. done' = done \cup {entries[f].at : f \in {g \in Fields : entries[g] # Extract!NoEntry /\ ~Extract!Savable(g)}}
                  \cup IF extractRows # Extract!NoEntry /\ ~Extract!LineChanged THEN {extractRows.at} ELSE {}
    BY DEF Extract!Save
  <2>2. \A g \in Fields : Slot(g) = entries[g] /\ (g \in left <=> Extract!Savable(g))
    BY <1>1 DEF Slot, Extract!savableCorrections
  <2>3. Slot(0) = extractRows /\ Slots = Fields \cup {0}
    BY <1>1 DEF Slot, Slots
  <2> QED BY <1>1, <2>1, <2>2, <2>3
<1>9. DeskTyped'
  <2>1. done' \subseteq 1..Len(made)
    BY <1>1, <1>6, <1>8 DEF DeskTyped
  <2> QED BY <1>1, <1>2, <2>1 DEF DeskTyped, Slots
<1>10. DeskDrafts'
  BY <1>2 DEF DeskSafe, DeskDrafts, Slots, Slot
<1>11. DeskSave'
  <2>1. save'.left \subseteq Fields
    BY <1>3, <1>5
  <2>2. \A f \in Slots : \/ Posting(f)' = Extract!NoEntry /\ f \notin save'.left
                         \/ Posting(f)'.at \in 1..Len(made') /\ made'[Posting(f)'.at] = save'.job
    BY <1>2, <1>3, <1>4, <1>5, <1>6
  <2>3. (save'.lines => save'.rows # Extract!NoEntry) /\ (save'.lineTook => save'.rows.at \in done')
    BY <1>3 DEF Extract!LineChanged
  <2>4. \A f \in Fields : Posting(f)' = Extract!NoEntry \/ Posting(f)'.at \in done' \/ f \in save'.left
    BY <1>3, <1>4, <1>8 DEF Slots
  <2>5. \A f, g \in Slots :
         (Slot(f)' # Extract!NoEntry /\ Posting(g)' # Extract!NoEntry /\ Slot(f)'.at = Posting(g)'.at) =>
           f = g /\ Slot(f)' = Posting(g)'
    BY <1>4, <1>7
  <2> QED BY <2>1, <2>2, <2>3, <2>4, <2>5 DEF DeskSave, Slots
<1>12. DeskSurvives'
  <2>1. ~extractCrossed' => \A f \in Slots : last'[f] \in done' \cup {0} \/ Slot(f)' # Extract!NoEntry
    BY <1>2, <1>4, <1>8 DEF DeskSafe, DeskSurvives
  <2>2. \A f \in Fields : (Slot(f)' # Extract!NoEntry /\ Slot(f)'.at \in done') =>
       Lands' /\ Slot(f)' = Posting(f)' /\ f \notin save'.left
    <3> SUFFICES ASSUME NEW f \in Fields, Slot(f) # Extract!NoEntry, Slot(f).at \in done'
                 PROVE  f \notin left
      BY <1>3, <1>4 DEF Slots
    <3>1. Slot(f).at \notin done
      BY <1>1 DEF DeskSafe, DeskSurvives
    <3> QED BY <1>7, <1>8, <3>1 DEF Slots
  <2> QED BY <2>1, <2>2 DEF DeskSurvives, Slots
<1>13. DeskFresh'
  BY <1>2, <1>3, <1>4 DEF DeskFresh
<1> QED BY <1>9, <1>10, <1>11, <1>12, <1>13 DEF DeskSafe

\* A save goes on: it takes what it posts, and stores it where it was drafted.
LEMMA DeskTaken ==
  ASSUME ExtractInv, DeskSafe, save # Extract!Idle, UNCHANGED Extract!unposted,
         NEW u \in SUBSET Slots, done' = done \cup {Posting(f).at : f \in u},
         \A f \in u : Posting(f) # Extract!NoEntry /\ f \notin save'.left,
         save' # Extract!Idle, save'.job = save.job, save'.left \subseteq save.left, save'.entries = save.entries, save'.rows = save.rows,
         save'.lines = save.lines, save'.lineTook => save.lineTook \/ Extract!LineSet \in u,
         \A f \in save.left : f \in save'.left \/ f \in u,
         DOMAIN extractStored' = Extract!Docs, extractStored' = [d \in Extract!Docs |-> extractStored'[d]],
         save.job # job => extractStored'[job] = extractStored[job]
  PROVE  DeskSafe'
<1> USE DeskTypes
<1>1. DeskTyped
  BY DEF DeskSafe
<1>2. UNCHANGED <<filed, job, detail, merged, entries, extractRows, originals, import, made, last,
                  extractCrossed, extractBehind, visits, extractArmed>>
  BY DEF Extract!unposted
<1>3. /\ \A f \in Slots : Posting(f)' = Posting(f) /\ Slot(f)' = Slot(f)
      /\ Lands' <=> Lands
  BY <1>2 DEF Lands, Slot, Posting
<1>4. /\ save.left \subseteq Fields
      /\ \A f \in Slots : \/ Posting(f) = Extract!NoEntry /\ f \notin save.left
                          \/ Posting(f).at \in 1..Len(made) /\ made[Posting(f).at] = save.job
      /\ save.lines => save.rows # Extract!NoEntry
      /\ \A f \in Fields : Posting(f) = Extract!NoEntry \/ Posting(f).at \in done \/ f \in save.left
      /\ save.lineTook => save.rows.at \in done
      /\ \A f, g \in Slots :
           (Slot(f) # Extract!NoEntry /\ Posting(g) # Extract!NoEntry /\ Slot(f).at = Posting(g).at) =>
             f = g /\ Slot(f) = Posting(g)
  BY DEF DeskSafe, DeskSave
<1>5. DeskTyped'
  <2>1. {Posting(f).at : f \in u} \subseteq 1..Len(made)
    BY <1>1, <1>4
  <2>2. done' \subseteq 1..Len(made')
    BY <1>1, <1>2, <2>1 DEF DeskTyped
  <2> QED BY <1>1, <1>2, <2>2 DEF DeskTyped, Slots
<1>6. DeskDrafts'
  BY <1>2 DEF DeskSafe, DeskDrafts, Slots, Slot
<1>7. DeskSave'
  <2>1. \A f \in Slots : \/ Posting(f)' = Extract!NoEntry /\ f \notin save'.left
                         \/ Posting(f)'.at \in 1..Len(made') /\ made'[Posting(f)'.at] = save'.job
    BY <1>2, <1>3, <1>4
  <2>2. \A f \in Fields : Posting(f)' = Extract!NoEntry \/ Posting(f)'.at \in done' \/ f \in save'.left
    BY <1>3, <1>4 DEF Slots
  <2>3. \A f, g \in Slots :
         (Slot(f)' # Extract!NoEntry /\ Posting(g)' # Extract!NoEntry /\ Slot(f)'.at = Posting(g)'.at) =>
           f = g /\ Slot(f)' = Posting(g)'
    BY <1>3, <1>4
  <2>4. save'.left \subseteq Fields /\ (save'.lines => save'.rows # Extract!NoEntry)
    BY <1>4
  <2>5. save'.lineTook => save'.rows.at \in done'
    BY <1>1, <1>4 DEF Posting
  <2> QED BY <2>1, <2>2, <2>3, <2>4, <2>5 DEF DeskSave, Slots
<1>8. DeskSurvives'
  <2>1. ~extractCrossed' => \A f \in Slots : last'[f] \in done' \cup {0} \/ Slot(f)' # Extract!NoEntry
    BY <1>2, <1>3 DEF DeskSafe, DeskSurvives
  <2>2. \A f \in Fields : (Slot(f)' # Extract!NoEntry /\ Slot(f)'.at \in done') =>
       Lands' /\ Slot(f)' = Posting(f)' /\ f \notin save'.left
    <3> SUFFICES ASSUME NEW f \in Fields, Slot(f) # Extract!NoEntry, Slot(f).at \in done'
                 PROVE  Lands /\ Slot(f) = Posting(f) /\ f \notin save'.left
      BY <1>3 DEF Slots
    <3>1. CASE Slot(f).at \in done
      BY <3>1 DEF DeskSafe, DeskSurvives
    <3>2. CASE Slot(f).at \in {Posting(g).at : g \in u}
      <4>1. PICK g \in u : Posting(g) # Extract!NoEntry /\ Slot(f).at = Posting(g).at
        BY <3>2
      <4>2. f = g /\ Slot(f) = Posting(f)
        BY <1>4, <4>1 DEF Slots
      <4>3. made[Slot(f).at] = job /\ made[Posting(f).at] = save.job
        BY <1>4, <4>1, <4>2 DEF DeskSafe, DeskDrafts, Slots
      <4> QED BY <4>2, <4>3 DEF Lands
    <3> QED BY <3>1, <3>2
  <2> QED BY <2>1, <2>2 DEF DeskSurvives, Slots
<1>9. DeskFresh'
  <2>1. ~Lands => extractStored'[job] = extractStored[job]
    BY DEF Lands
  <2> QED BY <1>2, <1>3, <2>1 DEF DeskSafe, DeskFresh
<1> QED BY <1>5, <1>6, <1>7, <1>8, <1>9 DEF DeskSafe

\* What a save that is out is.
LEMMA DeskSaveShape ==
  ASSUME ExtractInv, save # Extract!Idle
  PROVE  /\ save.job \in Extract!Docs
         /\ DOMAIN save = {"job", "left", "took", "entries", "rows", "lines", "refused", "lineTook"}
<1>1. PICK d \in filed : \E L, T : save \in ExtractSave(d, L, T)
  BY DEF ExtractInv
<1>2. PICK L, T : save \in ExtractSave(d, L, T)
  BY <1>1
<1> QED BY <1>2 DEF ExtractSave, ExtractInv

LEMMA DeskPosts ==
  ASSUME ExtractInv, DeskSafe, Extract!PostField \/ Extract!PostLines
  PROVE  DeskSafe'
<1> USE DeskTypes
<1> DEFINE val(f) == IF save.entries[f].kind = "undone" THEN 0 ELSE save.entries[f].val
<1>1. DeskTyped /\ save # Extract!Idle /\ UNCHANGED Extract!unposted
  BY DEF DeskSafe, Extract!PostField, Extract!PostLines, Extract!Saving
<1>2. /\ save.job \in {1, 2}
      /\ DOMAIN save = {"job", "left", "took", "entries", "rows", "lines", "refused", "lineTook"}
      /\ save.left \subseteq Fields
      /\ \A f \in save.left : Posting(f) # Extract!NoEntry /\ Posting(f) = save.entries[f]
      /\ Posting(0) = save.rows /\ 0 \in Slots
      /\ save.lines => save.rows # Extract!NoEntry
  BY <1>1, DeskSaveShape DEF DeskSafe, DeskSave, Slots, Posting
<1>3. ASSUME NEW f, NEW v, \/ extractStored' = extractStored
                           \/ extractStored' = [extractStored EXCEPT ![save.job].of[f] = v]
                           \/ extractStored' = [extractStored EXCEPT ![save.job].lines = v]
      PROVE  /\ DOMAIN extractStored' = Extract!Docs
             /\ extractStored' = [d \in Extract!Docs |-> extractStored'[d]]
             /\ save.job # job => extractStored'[job] = extractStored[job]
  BY <1>1, <1>2, <1>3 DEF DeskTyped
<1>4. CASE Extract!PostField
  <2>1. PICK f \in save.left :
          \/ /\ extractStored' = [extractStored EXCEPT ![save.job].of[f] = val(f)]
             /\ save' = [save EXCEPT !.left = @ \ {f}, !.took = @ \cup {f}]
             /\ done' = done \cup {save.entries[f].at}
          \/ /\ extractStored' = extractStored \/ extractStored' = [extractStored EXCEPT ![save.job].of[f] = val(f)]
             /\ save' = [save EXCEPT !.refused = TRUE] /\ done' = done
    BY <1>4, Zenon DEF Extract!PostField
  <2>2. /\ DOMAIN extractStored' = Extract!Docs
        /\ extractStored' = [d \in Extract!Docs |-> extractStored'[d]]
        /\ save.job # job => extractStored'[job] = extractStored[job]
    <3>1. PICK v : v = val(f)
      OBVIOUS
    <3> QED BY <1>3, <2>1, <3>1
  <2>3. CASE save' = [save EXCEPT !.left = @ \ {f}, !.took = @ \cup {f}] /\ done' = done \cup {save.entries[f].at}
    <3>1. /\ save'.left = save.left \ {f} /\ save'.job = save.job /\ save'.entries = save.entries
          /\ save'.rows = save.rows /\ save'.lines = save.lines /\ save'.lineTook = save.lineTook
      BY <1>2, <2>3
    <3>2. save' # Extract!Idle
      BY <1>1, <1>2, <3>1
    <3>3. {f} \in SUBSET Slots /\ Posting(f).at = save.entries[f].at
      BY <1>2 DEF Slots
    <3>4. /\ \A g \in {f} : Posting(g) # Extract!NoEntry /\ g \notin save'.left
          /\ save'.left \subseteq save.left /\ \A g \in save.left : g \in save'.left \/ g \in {f}
          /\ save'.lineTook => save.lineTook \/ Extract!LineSet \in {f}
      BY <1>1, <1>2, <2>1, <3>1, <3>3
    <3>5. done' = done \cup {Posting(g).at : g \in {f}}
      BY <2>3, <3>3
    <3> QED BY <1>1, <2>2, <3>1, <3>2, <3>3, <3>4, <3>5, DeskTaken
  <2>4. CASE save' = [save EXCEPT !.refused = TRUE] /\ done' = done
    <3>1. /\ save'.left = save.left /\ save'.job = save.job /\ save'.entries = save.entries
          /\ save'.rows = save.rows /\ save'.lines = save.lines /\ save'.lineTook = save.lineTook
      BY <1>2, <2>4
    <3>2. save' # Extract!Idle
      BY <1>1, <1>2, <3>1
    <3>3. {} \in SUBSET Slots
      OBVIOUS
    <3>4. /\ \A g \in {} : Posting(g) # Extract!NoEntry /\ g \notin save'.left
          /\ save'.left \subseteq save.left /\ \A g \in save.left : g \in save'.left \/ g \in {}
          /\ save'.lineTook => save.lineTook \/ Extract!LineSet \in {}
      BY <1>1, <1>2, <2>1, <3>1, <3>3
    <3>5. done' = done \cup {Posting(g).at : g \in {}}
      BY <2>4, <3>3
    <3> QED BY <1>1, <2>2, <3>1, <3>2, <3>3, <3>4, <3>5, DeskTaken
  <2> QED BY <2>1, <2>3, <2>4
<1>5. CASE Extract!PostLines
  <2>1. /\ save.left = {} /\ save.lines
        /\ extractStored' = extractStored \/ extractStored' = [extractStored EXCEPT ![save.job].lines = save.rows.val]
        /\ \/ save' = [save EXCEPT !.lineTook = TRUE] /\ done' = done \cup {save.rows.at}
           \/ save' = [save EXCEPT !.refused = TRUE] /\ done' = done
    BY <1>5, Zenon DEF Extract!PostLines
  <2>2. /\ DOMAIN extractStored' = Extract!Docs
        /\ extractStored' = [d \in Extract!Docs |-> extractStored'[d]]
        /\ save.job # job => extractStored'[job] = extractStored[job]
    <3>1. PICK v : v = save.rows.val
      OBVIOUS
    <3> QED BY <1>3, <2>1, <3>1
  <2>3. CASE save' = [save EXCEPT !.lineTook = TRUE] /\ done' = done \cup {save.rows.at}
    <3>1. /\ save'.left = save.left /\ save'.job = save.job /\ save'.entries = save.entries
          /\ save'.rows = save.rows /\ save'.lines = save.lines
      BY <1>2, <2>3
    <3>2. save' # Extract!Idle
      BY <1>1, <1>2, <3>1
    <3>3. {0} \in SUBSET Slots /\ Posting(0).at = save.rows.at /\ Posting(0) # Extract!NoEntry
      BY <1>2, <2>1
    <3>4. /\ \A g \in {0} : Posting(g) # Extract!NoEntry /\ g \notin save'.left
          /\ save'.left \subseteq save.left /\ \A g \in save.left : g \in save'.left \/ g \in {0}
          /\ save'.lineTook => save.lineTook \/ Extract!LineSet \in {0}
      BY <1>1, <1>2, <2>1, <3>1, <3>3
    <3>5. done' = done \cup {Posting(g).at : g \in {0}}
      BY <2>3, <3>3
    <3> QED BY <1>1, <2>2, <3>1, <3>2, <3>3, <3>4, <3>5, DeskTaken
  <2>4. CASE save' = [save EXCEPT !.refused = TRUE] /\ done' = done
    <3>1. /\ save'.left = save.left /\ save'.job = save.job /\ save'.entries = save.entries
          /\ save'.rows = save.rows /\ save'.lines = save.lines /\ save'.lineTook = save.lineTook
      BY <1>2, <2>4
    <3>2. save' # Extract!Idle
      BY <1>1, <1>2, <3>1
    <3>3. {} \in SUBSET Slots
      OBVIOUS
    <3>4. /\ \A g \in {} : Posting(g) # Extract!NoEntry /\ g \notin save'.left
          /\ save'.left \subseteq save.left /\ \A g \in save.left : g \in save'.left \/ g \in {}
          /\ save'.lineTook => save.lineTook \/ Extract!LineSet \in {}
      BY <1>1, <1>2, <2>1, <3>1, <3>3
    <3>5. done' = done \cup {Posting(g).at : g \in {}}
      BY <2>4, <3>3
    <3> QED BY <1>1, <2>2, <3>1, <3>2, <3>3, <3>4, <3>5, DeskTaken
  <2> QED BY <2>1, <2>3, <2>4
<1> QED BY <1>4, <1>5

\* A save lands: what it dealt with goes, and what is read is what is stored.
LEMMA DeskLands ==
  ASSUME ExtractInv, DeskSafe, Extract!SaveLands
  PROVE  DeskSafe'
<1> USE DeskTypes
<1>1. DeskTyped /\ save # Extract!Idle /\ save' = Extract!Idle /\ 0 \in Slots
  BY DEF DeskSafe, Extract!SaveLands, Extract!Saving, Slots
<1>2. UNCHANGED <<extractStored, filed, job, detail, extractArmed, originals, import, made, last, done, visits>>
  BY DEF Extract!SaveLands
<1>3. \A f \in Fields : Slot(f)' = IF job = save.job /\ Extract!Kept(f) THEN Slot(f) ELSE Extract!NoEntry
  BY <1>1 DEF Extract!SaveLands, Slot
<1>4. Slot(0)' = IF save.lineTook /\ (job # save.job \/ extractRows = save.rows) THEN Extract!NoEntry ELSE Slot(0)
  BY <1>1 DEF Extract!SaveLands, Slot
<1>5. \A f \in Slots : Slot(f)' \in {Slot(f), Extract!NoEntry}
  BY <1>1, <1>3, <1>4 DEF Slots
<1>6. \A f \in Fields : Extract!Kept(f) <=> (f \in save.left \/ Slot(f) # Posting(f))
  BY <1>1 DEF Extract!Kept, Slot, Posting
<1>7. DeskTyped'
  <2>1. extractCrossed' \in BOOLEAN /\ extractBehind' \in BOOLEAN
    <3>1. extractCrossed' = (extractCrossed \/ job # save.job)
      BY Zenon DEF Extract!SaveLands
    <3>2. PICK ok \in BOOLEAN : extractBehind' = IF job = save.job THEN ~ok ELSE extractBehind
      BY Zenon DEF Extract!SaveLands
    <3>3. extractBehind \in BOOLEAN
      BY <1>1 DEF DeskTyped
    <3>4. extractCrossed' \in BOOLEAN
      BY <3>1, Zenon
    <3>5. extractBehind' \in BOOLEAN
      BY <3>2, <3>3, Zenon
    <3> QED BY <3>4, <3>5
  <2> QED BY <1>1, <1>2, <2>1 DEF DeskTyped, Slots
<1>8. DeskDrafts'
  <2>1. \A f \in Slots : Slot(f)' = Extract!NoEntry \/ (last'[f] # 0 /\ Slot(f)'.at = last'[f] /\ made'[Slot(f)'.at] = job')
    BY <1>2, <1>5 DEF DeskSafe, DeskDrafts
  <2> QED BY <1>2, <2>1 DEF DeskSafe, DeskDrafts, Slots
<1>9. DeskSave'
  BY <1>1 DEF DeskSave
<1>10. DeskSurvives'
  <2>1. ASSUME ~extractCrossed', NEW f \in Slots, Slot(f)' = Extract!NoEntry PROVE last[f] \in done \cup {0}
    <3>1. ~extractCrossed /\ job = save.job
      BY <2>1 DEF Extract!SaveLands
    <3>2. CASE Slot(f) = Extract!NoEntry
      BY <3>1, <3>2 DEF DeskSafe, DeskSurvives
    <3>3. CASE Slot(f) # Extract!NoEntry /\ f \in Fields
      BY <1>3, <1>6, <2>1, <3>1, <3>3 DEF DeskSafe, DeskSave, DeskDrafts
    <3>4. CASE Slot(f) # Extract!NoEntry /\ f = 0
      BY <1>1, <1>4, <2>1, <3>1, <3>4 DEF DeskSafe, DeskSave, DeskDrafts, Slot
    <3> QED BY <1>1, <3>2, <3>3, <3>4 DEF Slots
  <2>2. ASSUME NEW f \in Fields, Slot(f)' # Extract!NoEntry, Slot(f)'.at \in done PROVE FALSE
    BY <1>3, <1>6, <2>2 DEF DeskSafe, DeskSurvives
  <2> QED BY <1>2, <2>1, <2>2 DEF DeskSurvives, Slots
<1>11. DeskFresh'
  <2>1. PICK ok \in BOOLEAN : /\ merged' = IF ~ok THEN merged ELSE IF job = save.job THEN extractStored[job] ELSE Extract!Unread
                              /\ extractBehind' = IF job = save.job THEN ~ok ELSE extractBehind
    BY Zenon DEF Extract!SaveLands
  <2>2. extractStored[job] # Extract!Unread
    <3>1. DOMAIN extractStored[job].of = Fields /\ Fields # {}
      BY PageAssumption DEF ExtractInv, ExtractRead, Extract!DeskAssumption
    <3> QED BY <3>1 DEF Extract!Unread
  <2>3. ASSUME ~extractBehind'
        PROVE  /\ merged' # Extract!Unread => merged' = extractStored[job]
               /\ (merged' = Extract!Unread /\ detail # Extract!Unread) => detail = extractStored[job]
    <3>1. CASE job = save.job
      <4>1. merged' = extractStored[job]
        BY <2>1, <2>3, <3>1
      <4> QED BY <2>2, <4>1
    <3>2. CASE job # save.job
      <4>1. merged = Extract!Unread /\ merged' = Extract!Unread /\ ~extractBehind /\ ~Lands
        BY <1>1, <2>1, <2>3, <3>2 DEF DeskSafe, DeskFresh, Lands
      <4> QED BY <4>1 DEF DeskSafe, DeskFresh
    <3> QED BY <3>1, <3>2
  <2> QED BY <1>1, <1>2, <2>3 DEF DeskFresh, Lands
<1> QED BY <1>7, <1>8, <1>9, <1>10, <1>11 DEF DeskSafe

\* Another document: nothing of the draft moves over.
LEMMA DeskVisits ==
  ASSUME ExtractInv, DeskSafe, Extract!Visit
  PROVE  DeskSafe'
<1> USE DeskTypes
<1>1. DeskTyped
  BY DEF DeskSafe
<1>2. /\ visits' = visits + 1 /\ visits < MaxVisits /\ job' = 3 - job
      /\ detail' = Extract!Unread /\ merged' = Extract!Unread
      /\ extractArmed' = 0 /\ originals' = "unread" /\ ~extractCrossed' /\ ~extractBehind'
      /\ UNCHANGED <<extractStored, filed, save, import, made, done>>
  BY DEF Extract!Visit
<1>3. /\ extractRows' = Extract!NoEntry /\ entries' = [f \in Fields |-> Extract!NoEntry]
      /\ last' = [f \in Slots |-> 0]
  BY DEF Extract!Visit, Slots
<1>4. \A f \in Slots : Slot(f)' = Extract!NoEntry /\ last'[f] = 0 /\ Posting(f)' = Posting(f)
  BY <1>2, <1>3 DEF Slots, Slot, Posting
<1>5. DeskTyped'
  <2>1. extractCrossed' \in BOOLEAN /\ extractBehind' \in BOOLEAN
    BY Zenon DEF Extract!Visit
  <2>2. visits' \in 0..MaxVisits
    BY <1>1, <1>2, PageAssumption DEF DeskTyped, Extract!DeskAssumption
  <2>3. last' \in [Slots -> 0..Len(made')]
    BY <1>1, <1>2, <1>3
  <2> QED BY <1>1, <1>2, <2>1, <2>2, <2>3 DEF DeskTyped, Slots
<1>6. DeskDrafts'
  BY <1>4 DEF DeskDrafts, Slots
<1>7. DeskSave'
  BY <1>2, <1>4 DEF DeskSafe, DeskSave, Slots
<1>8. DeskSurvives'
  BY <1>4 DEF DeskSurvives, Slots
<1>9. DeskFresh'
  BY <1>2 DEF DeskFresh
<1> QED BY <1>5, <1>6, <1>7, <1>8, <1>9 DEF DeskSafe

LEMMA DeskReads ==
  ASSUME ExtractInv, DeskSafe, Extract!ReadAnswers
  PROVE  DeskSafe'
<1>1. /\ UNCHANGED <<extractStored, job, merged, entries, extractRows, save, made, last, done, extractArmed,
                     originals, import, extractCrossed, extractBehind, visits>>
      /\ detail' = extractStored[job] /\ detail = Extract!Unread
  BY DEF Extract!ReadAnswers, Extract!unread, Extract!Loaded
<1>2. DeskTyped' /\ DeskDrafts' /\ DeskSave' /\ DeskSurvives'
  BY <1>1 DEF DeskSafe, DeskTyped, DeskDrafts, DeskSave, DeskSurvives, Lands, Slots, Slot, Posting
<1>3. DeskFresh'
  BY <1>1 DEF DeskSafe, DeskFresh, Lands
<1> QED BY <1>2, <1>3 DEF DeskSafe

LEMMA DeskNext == ExtractInv /\ DeskSafe /\ Extract!Next => DeskSafe'
BY DeskTypesIn, DeskArms, DeskPoints, DeskSaves, DeskPosts, DeskLands, DeskVisits, DeskReads DEF Extract!Next

LEMMA ExtractStays == ExtractInv /\ UNCHANGED extractVars => ExtractInv'
<1> SUFFICES ASSUME ExtractInv, UNCHANGED extractVars PROVE ExtractInv'
  OBVIOUS
<1>1. /\ UNCHANGED Extract!unsaved /\ made' = made
      /\ UNCHANGED <<job, entries, extractRows, extractDrag, extractArmed>>
  BY DEF extractVars, Extract!unsaved
<1>2. ExtractEntry(job) \subseteq ExtractEntry(job)'
  BY <1>1, ExtractKept
<1>3. entries' \in [Fields -> ExtractEntry(job)'] /\ extractRows' \in ExtractEntry(job)'
  BY <1>1, <1>2 DEF ExtractInv
<1> QED BY <1>1, <1>3, ExtractDrafts DEF ExtractInv

LEMMA DeskStays == DeskSafe /\ UNCHANGED extractVars => DeskSafe'
<1> SUFFICES ASSUME DeskSafe, UNCHANGED extractVars PROVE DeskSafe'
  OBVIOUS
<1>1. UNCHANGED <<extractStored, job, detail, merged, entries, extractRows, save, made, last, done,
                  extractCrossed, extractBehind, visits, extractArmed, originals, import>>
  BY DEF extractVars
<1> QED BY <1>1, DeskUnmoved DEF DeskSafe, DeskTyped

\* What is not dealt with is in the draft, and what is dealt with shows as the
\* service holds it.
LEMMA DeskSettles ==
  ASSUME ExtractInv, DeskSafe
  PROVE  Extract!SettledIsServed /\ Extract!TypeOK
<1> USE DeskTypes
<1>1. DeskTyped /\ 0 \in Slots /\ \A f \in Fields : f \in Slots /\ Slot(f) = entries[f]
  BY DEF DeskSafe, Slots, Slot
<1>2. ASSUME ~extractCrossed PROVE Extract!Survives
  <2>1. \A f \in Slots : last[f] \notin done \cup {0} => Slot(f).at = last[f]
    BY <1>2 DEF DeskSafe, DeskSurvives, DeskDrafts
  <2>2. Slot(0) = extractRows
    BY <1>1 DEF Slot
  <2> QED BY <1>1, <2>1, <2>2 DEF Extract!Survives
<1>3. ASSUME detail # Extract!Unread, save = Extract!Idle, ~extractBehind,
             NEW f \in Fields, last[f] \in done \cup {0}
      PROVE  Extract!Shown(f) = extractStored[job].of[f]
  <2>1. entries[f] = Extract!NoEntry
    BY <1>1, <1>3 DEF DeskSafe, DeskDrafts, DeskSurvives, Lands
  <2>2. Extract!Data = extractStored[job]
    BY <1>3 DEF DeskSafe, DeskFresh, Extract!Data, Lands
  <2> QED BY <2>1, <2>2 DEF Extract!Shown
<1>4. Extract!SettledIsServed
  BY <1>2, <1>3 DEF Extract!SettledIsServed, Extract!Loaded, Extract!Saving
<1>5. Extract!TypeOK
  <2>1. \A d \in Extract!Docs : Made(d) \subseteq Extract!Value
    BY <1>1 DEF Made, Extract!Value
  <2>2. \A d \in Extract!Docs : ExtractRead(d) \subseteq Extract!Read
    BY <2>1 DEF ExtractRead, Extract!Read
  <2>3. job \in Extract!Docs /\ detail \in Extract!Read \cup {Extract!Unread} /\ merged \in Extract!Read \cup {Extract!Unread}
    BY <2>2 DEF ExtractInv
  <2>4. extractStored \in [Extract!Docs -> Extract!Read]
    BY <1>1, <2>2 DEF ExtractInv, DeskTyped
  <2>5. \A x \in ExtractEntry(job) : x.at \in 0..MaxEntries => x \in Extract!Entry
    BY <2>1, <2>3 DEF ExtractEntry, Extract!Entry, Extract!Value
  <2>6. \A f \in Slots : Slot(f).at \in 0..MaxEntries
    BY <1>1 DEF DeskSafe, DeskDrafts
  <2>7. entries \in [Fields -> Extract!Entry]
    BY <1>1, <2>5, <2>6 DEF ExtractInv
  <2>8. extractRows \in Extract!Entry
    BY <1>1, <2>5, <2>6 DEF ExtractInv, Slot
  <2>9. save.job \in Extract!Docs \cup {0}
    BY <1>1, DeskSaveShape
  <2>10. /\ Extract!clock \in Extract!Value /\ last \in [Fields \cup {Extract!LineSet} -> Extract!Value]
         /\ done \subseteq 1..Extract!clock
    BY <1>1 DEF DeskTyped, Slots, Extract!Value
  <2> QED BY <1>1, <2>3, <2>4, <2>7, <2>8, <2>9, <2>10 DEF Extract!TypeOK, ExtractInv, DeskTyped
<1> QED BY <1>4, <1>5
------------------------------------------------------------------------------
(* The blog of the support console. *)

BlogCall == [kind : {"save", "delete", "pin"}, step : {"write", "cover", "read"}, sent : Blog!Draft,
           mine : BOOLEAN, id : 0..MaxPosts]
BlogKept == [owner : Blog!Members, draft : Blog!Draft, stale : BOOLEAN]

BlogTyped ==
  /\ posts \in [Blog!Ids -> Blog!Post] /\ blogList \in [Blog!Ids -> Blog!Post]
  /\ blogReading \in {"loading", "ready", "error"}
  /\ blogEditor = Blog!Closed \/ blogEditor \in Blog!Draft
  /\ dirty \in BOOLEAN /\ confirm \in {"none", "leave", "delete"}
  /\ op = Blog!Free \/ op \in BlogCall
  /\ kept = Blog!NoneKept \/ kept \in BlogKept
  /\ me \in {0} \cup Blog!Members /\ restored \in BOOLEAN /\ signIns \in 0..MaxSignIns
  /\ by \in Seq(Blog!Members) /\ Len(by) \in 0..MaxDrafts /\ work \in [Blog!Members -> Blog!Edits]
  /\ blogBehind \in BOOLEAN /\ blogCrossed \in BOOLEAN /\ stray \in BOOLEAN /\ unkept \subseteq Blog!Members

\* A draft names a cover if and only if it has one, and one that is saved is
\* held by the service; a draft of no post has none that is.
Coherent(d) ==
  /\ d.cover = "none" <=> d.pic = -1
  /\ d.cover = "saved" => d.id # 0 /\ d.serverHasCover
  /\ d.serverHasCover => d.id # 0
  /\ d.text <= Len(by)

\* What a draft knows of the cover the service holds.
Knows(d) ==
  d.id # 0 =>
    /\ posts[d.id] # Blog!NoPost
    /\ d.cover = "saved" => posts[d.id].pic = d.pic
    /\ ~d.serverHasCover => posts[d.id].pic = -1

\* A draft that says no more than the post.
Settled(d) ==
  d.id # 0 =>
    /\ posts[d.id].text = d.text /\ posts[d.id].pic = d.pic
    /\ d.cover # "new" /\ (d.serverHasCover <=> d.cover = "saved")

Target == IF op.id # 0 THEN op.id ELSE op.sent.id
Writing == op # Blog!Free /\ op.kind # "pin" /\ op.step # "write"

\* The list is what the service holds, but for the post that is being written.
BlogListed ==
  /\ \A q \in Blog!Ids : posts[q].text <= Len(by) /\ blogList[q].text <= Len(by)
  /\ (blogReading = "ready" /\ ~blogBehind) =>
       \A q \in Blog!Ids : blogList[q] = posts[q] \/ (Writing /\ q = Target)

\* An action that is out is asked of a page that is there, and has written what
\* it was sent with.
BlogAsked ==
  op # Blog!Free =>
    /\ blogReading = "ready" /\ me # 0 /\ restored
    /\ Coherent(op.sent)
    /\ op.step = "write" \/ op.kind # "save" => op.id = 0
    /\ op.step = "cover" => op.kind = "save" /\ (op.sent.cover = "new" \/ Blog!RemovesCover)
    /\ op.kind = "delete" => op.sent.id # 0
    /\ (op.kind = "delete" /\ op.step = "read") => posts[op.sent.id] = Blog!NoPost
    /\ (op.kind = "save" /\ op.step # "write") =>
         /\ op.id # 0 /\ posts[op.id] # Blog!NoPost /\ posts[op.id].text = op.sent.text
         /\ op.sent.id # 0 => op.id = op.sent.id
         /\ \A m \in Blog!Members : work[m] = 0 \/ work[m] # op.sent.text
         /\ kept = Blog!NoneKept \/ kept.stale

\* The action that finds its editor was sent with it, and what was typed since
\* made it dirty. Another one writes another post.
BlogMine ==
  (op # Blog!Free /\ op.mine) =>
    /\ op.kind # "pin" /\ blogEditor # Blog!Closed
    /\ blogEditor.id = op.sent.id /\ (blogEditor.serverHasCover <=> op.sent.serverHasCover)
    /\ dirty \/ blogEditor = op.sent
    /\ blogEditor.cover = "saved" => op.sent.cover = "saved" /\ blogEditor.pic = op.sent.pic

\* What an editor knows that nothing crossed.
BlogKnows ==
  (blogEditor # Blog!Closed /\ ~blogCrossed /\ ~stray) =>
    /\ (op = Blog!Free \/ ~op.mine \/ op.step # "read") => Knows(blogEditor)
    /\ (op # Blog!Free /\ op.mine /\ op.step = "write") => Knows(op.sent)
    /\ (~dirty /\ ~(op # Blog!Free /\ op.mine /\ op.kind = "delete" /\ op.step = "read")) => Settled(blogEditor)
    /\ (op # Blog!Free /\ op.mine /\ op.kind = "save" /\ op.step = "cover" /\ ~op.sent.serverHasCover) =>
         posts[op.id].pic = -1
    /\ (op # Blog!Free /\ op.mine /\ op.kind = "save" /\ op.step = "read") => posts[op.id].pic = op.sent.pic
    /\ (op # Blog!Free /\ ~op.mine /\ op.kind # "pin" /\ blogEditor.id # 0) => blogEditor.id # Target

BlogForms ==
  /\ blogEditor # Blog!Closed =>
       Coherent(blogEditor) /\ (dirty \/ blogEditor.id # 0 \/ blogEditor = Blog!Blank)
  /\ dirty => blogEditor # Blog!Closed
  /\ confirm = "delete" => blogEditor # Blog!Closed /\ blogEditor.id # 0
  /\ ~restored => blogEditor = Blog!Closed /\ blogReading # "ready"
  /\ me = 0 => ~restored

\* The draft in the browser is of whoever made its last edit, who has not had
\* it back, and knows its post unless something was written since.
BlogKeeps ==
  kept # Blog!NoneKept =>
    /\ Coherent(kept.draft)
    /\ kept.draft.text \in 1..Len(by) /\ by[kept.draft.text] = kept.owner
    /\ restored => kept.owner # me
    /\ kept.stale \/ kept.draft.id = 0 \/ posts[kept.draft.id] = Blog!NoPost \/ Knows(kept.draft)

\* What was typed is open, or kept.
BlogTyping ==
  /\ dirty => blogEditor.text \in 1..Len(by) /\ by[blogEditor.text] = me
  /\ \A m \in Blog!Members \ unkept : work[m] # 0 =>
       \/ me = m /\ dirty /\ blogEditor.text = work[m]
       \/ kept # Blog!NoneKept /\ kept.owner = m /\ kept.draft.text = work[m]

BlogSafe ==
  /\ BlogTyped /\ BlogListed /\ BlogAsked /\ BlogMine /\ BlogKnows /\ BlogForms /\ BlogKeeps /\ BlogTyping

LEMMA BlogTypes ==
  /\ MaxPosts \in Nat /\ 1 <= MaxPosts /\ MaxDrafts \in Nat /\ MaxSignIns \in Nat
  /\ Blog!Closed.id = -1 /\ Blog!NoPost.text = -1 /\ Blog!NoPost.pic = -1
  /\ Blog!NoPost \in Blog!Post /\ Blog!Blank \in Blog!Draft
  /\ Blog!Closed \notin Blog!Draft
  /\ \A d \in Blog!Draft : d.id # -1
  /\ Blog!NoneKept.owner = 0 /\ Blog!Free.kind = "free"
  /\ 1 \in Blog!Ids
  /\ \A q \in Blog!Ids : q \in Int /\ q # 0 /\ q \in 0..MaxPosts
  /\ \A q \in 0..MaxPosts : q \in Int /\ (q # 0 => q \in Blog!Ids)
<1>1. MaxPosts \in Nat /\ 1 <= MaxPosts /\ MaxDrafts \in Nat /\ MaxSignIns \in Nat
  BY PageAssumption DEF Blog!BlogAssumption
<1>2. Blog!Closed.id = -1 /\ Blog!NoPost.text = -1 /\ Blog!NoPost.pic = -1 /\ Blog!NoneKept.owner = 0
  BY DEF Blog!Closed, Blog!NoPost, Blog!NoneKept
<1>3. Blog!NoPost \in Blog!Post
  BY DEF Blog!Post
<1>4. Blog!Blank \in Blog!Draft
  BY <1>1 DEF Blog!Blank, Blog!Draft, Blog!Edits
<1>5. \A d \in Blog!Draft : d.id # -1
  BY <1>1 DEF Blog!Draft
<1>6. Blog!Free.kind = "free"
  BY DEF Blog!Free
<1> QED BY <1>1, <1>2, <1>3, <1>4, <1>5, <1>6 DEF Blog!Ids

LEMMA BlogFacts ==
  ASSUME BlogTyped
  PROVE  /\ blogEditor # Blog!Closed =>
              /\ blogEditor \in Blog!Draft /\ blogEditor.id \in 0..MaxPosts
              /\ blogEditor.text \in 0..MaxDrafts /\ blogEditor.pic \in Int
              /\ blogEditor.cover \in {"none", "saved", "new"}
              /\ (blogEditor.id # 0 => blogEditor.id \in Blog!Ids)
         /\ op # Blog!Free =>
              /\ op \in BlogCall /\ op.kind \in {"save", "delete", "pin"}
              /\ op.step \in {"write", "cover", "read"} /\ op.id \in 0..MaxPosts
              /\ op.id # 0 => op.id \in Blog!Ids
              /\ op.sent \in Blog!Draft /\ op.sent.id \in 0..MaxPosts
              /\ op.sent.text \in 0..MaxDrafts /\ op.sent.pic \in Int
              /\ op.sent.cover \in {"none", "saved", "new"}
              /\ op.sent.id # 0 => op.sent.id \in Blog!Ids
         /\ op \in BlogCall => op # Blog!Free
         /\ kept # Blog!NoneKept =>
              /\ kept \in BlogKept /\ kept.owner \in Blog!Members /\ kept.draft \in Blog!Draft
              /\ kept.draft.id \in 0..MaxPosts
              /\ (kept.draft.id # 0 => kept.draft.id \in Blog!Ids)
              /\ kept.draft.text \in 0..MaxDrafts /\ kept.draft.pic \in Int
              /\ kept.draft.cover \in {"none", "saved", "new"}
         /\ kept \in BlogKept => kept # Blog!NoneKept
         /\ \A q \in Blog!Ids :
              /\ posts[q] \in Blog!Post /\ posts[q].text \in -1..MaxDrafts /\ posts[q].pic \in -1..MaxDrafts
              /\ posts[q] # Blog!NoPost => posts[q].text \in 0..MaxDrafts
              /\ blogList[q] \in Blog!Post /\ blogList[q].text \in -1..MaxDrafts
              /\ blogList[q].pic \in -1..MaxDrafts
              /\ blogList[q] # Blog!NoPost => blogList[q].text \in 0..MaxDrafts
         /\ Len(by) \in Nat /\ 0 \notin Blog!Members
<1> USE BlogTypes
<1>1. blogEditor # Blog!Closed =>
        /\ blogEditor \in Blog!Draft /\ blogEditor.id \in 0..MaxPosts
        /\ blogEditor.text \in 0..MaxDrafts /\ blogEditor.pic \in Int
        /\ blogEditor.cover \in {"none", "saved", "new"}
        /\ (blogEditor.id # 0 => blogEditor.id \in Blog!Ids)
  BY DEF BlogTyped, Blog!Draft, Blog!Edits
<1>2. \A d \in Blog!Draft : /\ d.id \in 0..MaxPosts /\ d.text \in 0..MaxDrafts /\ d.pic \in Int
                            /\ d.cover \in {"none", "saved", "new"}
                            /\ (d.id # 0 => d.id \in Blog!Ids)
  BY DEF Blog!Draft, Blog!Edits
<1>3. op # Blog!Free =>
        /\ op \in BlogCall /\ op.kind \in {"save", "delete", "pin"}
        /\ op.step \in {"write", "cover", "read"} /\ op.id \in 0..MaxPosts
        /\ op.id # 0 => op.id \in Blog!Ids
        /\ op.sent \in Blog!Draft
  BY DEF BlogTyped, BlogCall
<1>4. op \in BlogCall => op # Blog!Free
  BY DEF BlogCall
<1>5. kept # Blog!NoneKept => kept \in BlogKept /\ kept.owner \in Blog!Members /\ kept.draft \in Blog!Draft
  BY DEF BlogTyped, BlogKept
<1>6. kept \in BlogKept => kept # Blog!NoneKept
  BY DEF BlogKept, Blog!Members
<1>7. \A p \in Blog!Post :
        /\ p.text \in -1..MaxDrafts /\ p.pic \in -1..MaxDrafts
        /\ (p # Blog!NoPost => p.text \in 0..MaxDrafts)
  BY DEF Blog!Post, Blog!Edits
<1>8. \A q \in Blog!Ids : posts[q] \in Blog!Post /\ blogList[q] \in Blog!Post
  BY DEF BlogTyped
<1>9. Len(by) \in Nat /\ 0 \notin Blog!Members
  BY DEF BlogTyped, Blog!Members
<1> QED BY <1>1, <1>2, <1>3, <1>4, <1>5, <1>6, <1>7, <1>8, <1>9

LEMMA BlogInit == Blog!Init => BlogSafe
<1> SUFFICES ASSUME Blog!Init PROVE BlogSafe
  OBVIOUS
<1> USE BlogTypes
<1>1. /\ op = Blog!Free /\ blogEditor = Blog!Closed /\ kept = Blog!NoneKept /\ dirty = FALSE
      /\ confirm = "none" /\ restored = FALSE /\ blogReading = "loading" /\ by = <<>> /\ me = 1
      /\ work = [m \in Blog!Members |-> 0]
      /\ blogList = [q \in Blog!Ids |-> Blog!NoPost]
      /\ posts = [q \in Blog!Ids |-> IF q = 1 THEN [text |-> 0, pic |-> 0] ELSE Blog!NoPost]
  BY DEF Blog!Init
<1>2. [text |-> 0, pic |-> 0] \in Blog!Post
  BY DEF Blog!Post, Blog!Edits
<1>3. /\ posts \in [Blog!Ids -> Blog!Post] /\ blogList \in [Blog!Ids -> Blog!Post]
      /\ work \in [Blog!Members -> Blog!Edits] /\ by \in Seq(Blog!Members) /\ Len(by) = 0
  BY <1>1, <1>2 DEF Blog!Edits
<1>5. blogBehind = FALSE /\ blogCrossed = FALSE /\ stray = FALSE /\ unkept = {} /\ signIns = 0
  BY DEF Blog!Init
<1>7. /\ dirty \in BOOLEAN /\ restored \in BOOLEAN /\ blogBehind \in BOOLEAN /\ blogCrossed \in BOOLEAN
      /\ stray \in BOOLEAN
  BY <1>1, <1>5, Zenon
<1>8. me \in {0} \cup Blog!Members /\ signIns \in 0..MaxSignIns /\ Len(by) \in 0..MaxDrafts
      /\ unkept \subseteq Blog!Members
  BY <1>1, <1>3, <1>5 DEF Blog!Members
<1>6. BlogTyped
  BY <1>1, <1>3, <1>7, <1>8, Zenon DEF BlogTyped
<1>4. \A q \in Blog!Ids : posts[q].text <= 0 /\ blogList[q].text <= 0
  BY <1>1
<1> QED BY <1>1, <1>3, <1>4, <1>6 DEF BlogSafe, BlogListed, BlogAsked, BlogMine, BlogKnows, BlogForms, BlogKeeps, BlogTyping

LEMMA BlogSignsIn ==
  ASSUME BlogSafe, NEW m \in Blog!Members, Blog!SignIn(m)
  PROVE  BlogSafe'
<1> USE BlogTypes, BlogFacts
<1>1. /\ UNCHANGED <<posts, blogReading, blogList, blogEditor, dirty, confirm, op, kept, restored, by, work,
                     blogBehind, blogCrossed, stray, unkept>>
      /\ me = 0 /\ me' = m /\ signIns' \in 0..MaxSignIns
  BY DEF Blog!SignIn, Blog!listing, Blog!form, Blog!notes, BlogSafe, BlogTyped
<1>2. op = Blog!Free /\ blogEditor = Blog!Closed /\ ~dirty /\ ~restored
  BY <1>1 DEF BlogSafe, BlogAsked, BlogForms
<1>3. BlogTyped'
  BY <1>1 DEF BlogSafe, BlogTyped
<1>4. BlogListed' /\ BlogAsked' /\ BlogMine' /\ BlogKnows' /\ BlogForms'
  BY <1>1, <1>2 DEF BlogSafe, BlogListed, BlogAsked, BlogMine, BlogKnows, BlogForms, Writing, Target
<1>5. BlogKeeps' /\ BlogTyping'
  BY <1>1, <1>2 DEF BlogSafe, BlogKeeps, BlogTyping, Coherent, Knows
<1> QED BY <1>3, <1>4, <1>5 DEF BlogSafe

LEMMA BlogEdits ==
  ASSUME BlogSafe, Blog!Edit
  PROVE  BlogSafe'
<1> USE BlogTypes, BlogFacts
<1>1. PICK e \in {[blogEditor EXCEPT !.cover = "new", !.pic = Len(by) + 1], blogEditor,
                  IF blogEditor.cover # "none" THEN [blogEditor EXCEPT !.cover = "none", !.pic = -1] ELSE blogEditor} :
        blogEditor' = [e EXCEPT !.text = Len(by) + 1]
  BY DEF Blog!Edit, Blog!clock
<1>2. /\ UNCHANGED <<posts, blogReading, blogList, op, kept, me, restored, signIns, blogBehind, blogCrossed, stray, unkept>>
      /\ me # 0 /\ blogReading = "ready" /\ blogEditor # Blog!Closed
      /\ confirm' \in {"none", confirm} /\ dirty' = TRUE /\ Len(by) < MaxDrafts
      /\ by' = Append(by, me) /\ work' = [work EXCEPT ![me] = Len(by) + 1]
  BY DEF Blog!Edit, Blog!Editing, Blog!listing, Blog!session, Blog!notes, Blog!clock
<1>3. BlogTyped /\ me \in Blog!Members
  BY <1>2 DEF BlogSafe, BlogTyped
<1>4. blogEditor \in Blog!Draft
  BY <1>2, <1>3
<1>5. Len(by) \in Nat /\ Len(by) + 1 \in Blog!Edits
  BY <1>2, <1>3 DEF Blog!Edits
<1>6. /\ e \in Blog!Draft /\ e.id = blogEditor.id /\ e.serverHasCover = blogEditor.serverHasCover
      /\ \/ e.cover = "new" /\ e.pic = Len(by) + 1
         \/ e.cover = blogEditor.cover /\ e.pic = blogEditor.pic
         \/ e.cover = "none" /\ e.pic = -1
  <2>1. CASE e = [blogEditor EXCEPT !.cover = "new", !.pic = Len(by) + 1]
    BY <2>1, <1>4, <1>5 DEF Blog!Draft
  <2>2. CASE e = blogEditor
    BY <2>2, <1>4
  <2>3. CASE e = [blogEditor EXCEPT !.cover = "none", !.pic = -1]
    BY <2>3, <1>4, <1>5 DEF Blog!Draft
  <2> QED BY <2>1, <2>2, <2>3
<1>7. /\ blogEditor' \in Blog!Draft /\ blogEditor'.text = Len(by) + 1 /\ blogEditor'.id = e.id
      /\ blogEditor'.serverHasCover = e.serverHasCover
      /\ blogEditor'.cover = e.cover /\ blogEditor'.pic = e.pic
  BY <1>1, <1>5, <1>6 DEF Blog!Draft
<1>8. /\ by' \in Seq(Blog!Members) /\ Len(by') = Len(by) + 1 /\ by'[Len(by) + 1] = me
      /\ \A n \in 1..Len(by) : by'[n] = by[n]
  BY <1>2, <1>3 DEF BlogTyped
<1>9. /\ work' \in [Blog!Members -> Blog!Edits] /\ work'[me] = Len(by) + 1
      /\ \A m \in Blog!Members \ {me} : work'[m] = work[m]
  BY <1>2, <1>3, <1>5 DEF BlogTyped
<1>10. BlogTyped'
  BY <1>2, <1>3, <1>5, <1>7, <1>8, <1>9 DEF BlogTyped
<1>11. /\ blogEditor' # Blog!Closed /\ Coherent(blogEditor)'
       /\ Knows(blogEditor) => Knows(blogEditor)'
  <2>1. blogEditor' # Blog!Closed
    BY <1>7
  <2>2. Coherent(blogEditor)
    BY <1>2 DEF BlogSafe, BlogForms
  <2>4. Coherent(blogEditor)'
    BY <2>2, <1>5, <1>6, <1>7, <1>8 DEF Coherent
  <2>5. Knows(blogEditor) => Knows(blogEditor)'
    BY <1>2, <1>6, <1>7 DEF Knows
  <2> QED BY <2>1, <2>4, <2>5
<1>12. BlogListed'
  BY <1>2, <1>3, <1>5, <1>8 DEF BlogSafe, BlogListed, Writing, Target
<1>13. BlogAsked'
  <2>1. op # Blog!Free => Coherent(op.sent) /\ Coherent(op.sent)' /\ op.sent.text <= Len(by)
    BY <1>2, <1>3, <1>8 DEF BlogSafe, BlogAsked, Coherent
  <2>2. op # Blog!Free => \A m \in Blog!Members : work'[m] = 0 \/ work'[m] = work[m] \/ work'[m] # op.sent.text
    BY <2>1, <1>3, <1>5, <1>9
  <2> QED BY <1>2, <2>1, <2>2 DEF BlogSafe, BlogAsked, Blog!RemovesCover
<1>14. BlogMine' /\ BlogKnows'
  BY <1>2, <1>3, <1>6, <1>7, <1>11 DEF BlogSafe, BlogMine, BlogKnows, Target, Knows
<1>15. BlogForms' /\ BlogKeeps'
  BY <1>2, <1>3, <1>6, <1>7, <1>8, <1>11 DEF BlogSafe, BlogForms, BlogKeeps, Coherent, Knows
<1>16. BlogTyping'
  BY <1>2, <1>3, <1>5, <1>7, <1>8, <1>9 DEF BlogSafe, BlogTyping
<1> QED BY <1>10, <1>12, <1>13, <1>14, <1>15, <1>16 DEF BlogSafe

\* An answer that is out no longer finds its editor.
LEMMA BlogUnhanded ==
  ASSUME BlogTyped, Blog!Unhand
  PROVE  /\ op' = Blog!Free <=> op = Blog!Free
         /\ op # Blog!Free =>
              /\ op' \in BlogCall /\ ~op'.mine /\ op'.kind = op.kind /\ op'.step = op.step
              /\ op'.sent = op.sent /\ op'.id = op.id
<1> USE BlogTypes, BlogFacts
<1>1. CASE op = Blog!Free
  BY <1>1 DEF Blog!Unhand
<1>2. CASE op # Blog!Free
  <2>1. op \in BlogCall /\ op' = [op EXCEPT !.mine = FALSE]
    BY <1>2 DEF Blog!Unhand
  <2>2. op' \in BlogCall
    BY <2>1 DEF BlogCall
  <2>3. op'.mine = FALSE /\ op'.kind = op.kind /\ op'.step = op.step /\ op'.sent = op.sent /\ op'.id = op.id
    BY <2>1 DEF BlogCall
  <2>4. op' # Blog!Free
    BY <2>2 DEF BlogCall
  <2> QED BY <1>2, <2>2, <2>3, <2>4
<1> QED BY <1>1, <1>2

\* The editor is opened, or closed: what is out is no longer its own.
LEMMA BlogTurns ==
  ASSUME BlogSafe, Blog!Unhand,
         UNCHANGED <<posts, blogReading, blogList, kept, me, restored, signIns, by, blogBehind, unkept>>,
         me # 0, blogReading = "ready", confirm' = "none", dirty' = FALSE, stray' = FALSE, blogCrossed' \in BOOLEAN,
         work' \in [Blog!Members -> Blog!Edits], \A m \in Blog!Members : work'[m] \in {0, work[m]},
         dirty => work'[me] = 0,
         \/ blogEditor' = Blog!Closed
         \/ blogEditor' \in Blog!Draft /\ Coherent(blogEditor)' /\ (blogEditor'.id # 0 \/ blogEditor' = Blog!Blank),
         (blogEditor' # Blog!Closed /\ ~blogCrossed') =>
            /\ Knows(blogEditor)' /\ Settled(blogEditor)'
            /\ (op # Blog!Free /\ op.kind # "pin" /\ blogEditor'.id # 0) => blogEditor'.id # Target
  PROVE  BlogSafe'
<1> USE BlogTypes, BlogFacts
<1>1. BlogTyped /\ (op' = Blog!Free \/ op' \in BlogCall)
  BY BlogUnhanded DEF BlogSafe
<1>2. /\ op' = Blog!Free <=> op = Blog!Free
      /\ op # Blog!Free =>
           /\ op' \in BlogCall /\ ~op'.mine /\ op'.kind = op.kind /\ op'.step = op.step
           /\ op'.sent = op.sent /\ op'.id = op.id
  BY <1>1, BlogUnhanded
<1>3. BlogTyped'
  <2>1. dirty' \in BOOLEAN /\ stray' \in BOOLEAN
    BY Zenon
  <2>2. blogEditor' = Blog!Closed \/ blogEditor' \in Blog!Draft
    OBVIOUS
  <2> QED BY <1>1, <2>1, <2>2, Zenon DEF BlogTyped
<1>4. (Writing' <=> Writing) /\ (op # Blog!Free => Target' = Target)
  BY <1>2 DEF Writing, Target
<1>5. BlogListed'
  BY <1>4 DEF BlogSafe, BlogListed, Writing
<1>6. BlogAsked'
  BY <1>1, <1>2 DEF BlogSafe, BlogAsked, Coherent, Blog!RemovesCover
<1>7. BlogMine' /\ BlogKnows'
  BY <1>2, <1>4 DEF BlogMine, BlogKnows
<1>8. BlogForms' /\ BlogKeeps'
  BY DEF BlogSafe, BlogForms, BlogKeeps, Coherent, Knows
<1>9. BlogTyping'
  BY <1>1 DEF BlogSafe, BlogTyping
<1> QED BY <1>3, <1>5, <1>6, <1>7, <1>8, <1>9 DEF BlogSafe

LEMMA BlogOpens ==
  ASSUME BlogSafe, NEW q \in Blog!Ids, Blog!Open(q)
  PROVE  BlogSafe'
<1> USE BlogTypes, BlogFacts
<1>1. /\ UNCHANGED <<posts, blogReading, blogList, kept, me, restored, signIns, by, work, blogBehind, unkept>>
      /\ me # 0 /\ blogReading = "ready" /\ confirm' = "none" /\ dirty' = FALSE /\ stray' = FALSE
      /\ blogList[q] # Blog!NoPost /\ blogEditor = Blog!Closed
      /\ blogCrossed' = (blogBehind \/ Blog!Touches(q)) /\ Blog!Unhand
      /\ blogEditor' = [id |-> q, text |-> blogList[q].text, pic |-> blogList[q].pic,
                        cover |-> IF blogList[q].pic = -1 THEN "none" ELSE "saved",
                        serverHasCover |-> blogList[q].pic # -1]
  BY DEF Blog!Open, Blog!Listed, Blog!listing, Blog!session
<1>2. BlogTyped /\ ~dirty /\ blogCrossed' \in BOOLEAN
  BY <1>1 DEF BlogSafe, BlogForms
<1>3. /\ blogEditor'.id = q /\ blogEditor'.text = blogList[q].text /\ blogEditor'.pic = blogList[q].pic
      /\ blogEditor'.cover = (IF blogList[q].pic = -1 THEN "none" ELSE "saved")
      /\ blogEditor'.serverHasCover = (blogList[q].pic # -1)
  BY <1>1
<1>4. blogList[q].text \in Blog!Edits /\ blogList[q].pic \in Blog!Edits \cup {-1} /\ blogList[q].text <= Len(by)
  BY <1>1, <1>2 DEF Blog!Post, Blog!Edits, BlogSafe, BlogListed
<1>5. blogEditor' \in Blog!Draft
  BY <1>1, <1>4 DEF Blog!Draft
<1>6. Coherent(blogEditor)'
  BY <1>1, <1>3, <1>4 DEF Coherent
<1>7. ASSUME ~blogCrossed' PROVE blogList[q] = posts[q] /\ (op # Blog!Free /\ op.kind # "pin" => q # Target)
  <2>1. ~blogBehind /\ ~Blog!Touches(q)
    BY <1>1, <1>7
  <2> QED BY <2>1, <1>1, <1>2 DEF BlogSafe, BlogListed, Blog!Touches, Target, Writing
<1>8. ~blogCrossed' => Knows(blogEditor)' /\ Settled(blogEditor)'
  BY <1>1, <1>3, <1>4, <1>7 DEF Knows, Settled
<1>9. \A m \in Blog!Members : work'[m] \in {0, work[m]}
  BY <1>1
<1>10. work' \in [Blog!Members -> Blog!Edits]
  BY <1>1, <1>2 DEF BlogTyped
<1> QED BY <1>1, <1>2, <1>3, <1>5, <1>6, <1>7, <1>8, <1>9, <1>10, BlogTurns

LEMMA BlogNews ==
  ASSUME BlogSafe, Blog!New
  PROVE  BlogSafe'
<1> USE BlogTypes, BlogFacts
<1>1. /\ UNCHANGED <<posts, blogReading, blogList, kept, me, restored, signIns, by, work, blogBehind, unkept>>
      /\ me # 0 /\ blogReading = "ready" /\ confirm' = "none" /\ dirty' = FALSE /\ stray' = FALSE
      /\ blogEditor = Blog!Closed /\ blogCrossed' = FALSE /\ Blog!Unhand /\ blogEditor' = Blog!Blank
  BY DEF Blog!New, Blog!Listed, Blog!listing, Blog!session
<1>2. BlogTyped /\ ~dirty /\ blogCrossed' \in BOOLEAN
  BY <1>1 DEF BlogSafe, BlogForms
<1>3. /\ Blog!Blank.id = 0 /\ Blog!Blank.cover = "none" /\ Blog!Blank.pic = -1 /\ Blog!Blank.text = 0
      /\ Blog!Blank.serverHasCover = FALSE
  BY DEF Blog!Blank
<1>4. Coherent(blogEditor)' /\ Knows(blogEditor)' /\ Settled(blogEditor)' /\ blogEditor'.id = 0
  BY <1>1, <1>2, <1>3 DEF Coherent, Knows, Settled
<1>5. \A m \in Blog!Members : work'[m] \in {0, work[m]}
  BY <1>1
<1>6. work' \in [Blog!Members -> Blog!Edits]
  BY <1>1, <1>2 DEF BlogTyped
<1> QED BY <1>1, <1>2, <1>4, <1>5, <1>6, BlogTurns

LEMMA BlogShuts ==
  ASSUME BlogSafe, Blog!Shuts, me # 0, blogReading = "ready",
         \/ ~dirty /\ UNCHANGED work
         \/ work' = [work EXCEPT ![me] = 0]
  PROVE  BlogSafe'
<1> USE BlogTypes, BlogFacts
<1>1. /\ UNCHANGED <<posts, blogReading, blogList, kept, me, restored, signIns, by, blogBehind, unkept>>
      /\ confirm' = "none" /\ dirty' = FALSE /\ stray' = FALSE
      /\ blogCrossed' = FALSE /\ Blog!Unhand /\ blogEditor' = Blog!Closed
  BY DEF Blog!Shuts, Blog!close, Blog!listing, Blog!session
<1>2. BlogTyped /\ blogCrossed' \in BOOLEAN /\ me \in Blog!Members
  BY <1>1 DEF BlogSafe, BlogTyped
<1>3. /\ \A m \in Blog!Members : work'[m] \in {0, work[m]}
      /\ work' \in [Blog!Members -> Blog!Edits]
      /\ dirty => work'[me] = 0
  BY <1>2 DEF BlogTyped, Blog!Edits
<1> QED BY <1>1, <1>2, <1>3, BlogTurns

LEMMA BlogAsksBar ==
  ASSUME BlogSafe, NEW q \in {"none", "leave", "delete"}, Blog!Ask(q), q = "delete" => blogEditor.id # 0
  PROVE  BlogSafe'
<1> USE BlogTypes, BlogFacts
<1>1. /\ UNCHANGED <<posts, blogReading, blogList, blogEditor, dirty, op, kept, me, restored, by, work,
                     blogBehind, blogCrossed, stray, unkept, signIns>>
      /\ confirm' = q /\ blogEditor # Blog!Closed
  BY DEF Blog!Ask, Blog!Editing, Blog!listing, Blog!session, Blog!notes
<1>2. BlogTyped' /\ BlogListed' /\ BlogAsked'
  BY <1>1 DEF BlogSafe, BlogTyped, BlogListed, BlogAsked, Writing, Target, Coherent, Blog!RemovesCover
<1>3. BlogMine' /\ BlogKnows'
  BY <1>1 DEF BlogSafe, BlogMine, BlogKnows, Knows, Settled, Target
<1>4. BlogForms' /\ BlogKeeps' /\ BlogTyping'
  BY <1>1 DEF BlogSafe, BlogForms, BlogKeeps, BlogTyping, Coherent, Knows
<1> QED BY <1>2, <1>3, <1>4 DEF BlogSafe

LEMMA BlogRetries ==
  ASSUME BlogSafe, Blog!Retry
  PROVE  BlogSafe'
<1> USE BlogTypes, BlogFacts
<1>1. /\ UNCHANGED <<posts, blogList, blogEditor, dirty, confirm, op, kept, me, restored, by, work,
                     blogBehind, blogCrossed, stray, unkept, signIns>>
      /\ blogReading = "error" /\ blogReading' = "loading"
  BY DEF Blog!Retry, Blog!form, Blog!session, Blog!notes
<1>2. BlogTyped' /\ BlogListed' /\ BlogAsked'
  BY <1>1 DEF BlogSafe, BlogTyped, BlogListed, BlogAsked
<1>3. BlogMine' /\ BlogKnows'
  BY <1>1 DEF BlogSafe, BlogMine, BlogKnows, Knows, Settled, Target
<1>4. BlogForms' /\ BlogKeeps' /\ BlogTyping'
  BY <1>1 DEF BlogSafe, BlogForms, BlogKeeps, BlogTyping, Coherent, Knows
<1> QED BY <1>2, <1>3, <1>4 DEF BlogSafe

LEMMA BlogSendsOff ==
  ASSUME BlogSafe, NEW kind \in {"save", "delete", "pin"}, NEW what \in Blog!Draft, NEW mine \in BOOLEAN,
         Blog!Sends(kind, what, mine), me # 0, blogReading = "ready", Coherent(what),
         kind = "delete" => what.id # 0,
         mine => kind # "pin" /\ blogEditor # Blog!Closed /\ what = blogEditor,
         ~mine => blogEditor = Blog!Closed
  PROVE  BlogSafe'
<1> USE BlogTypes, BlogFacts
<1>1. /\ UNCHANGED <<posts, blogReading, blogList, blogEditor, dirty, confirm, kept, me, restored, by, work,
                     blogBehind, blogCrossed, stray, unkept, signIns>>
      /\ op = Blog!Free
      /\ op' = [kind |-> kind, step |-> "write", sent |-> what, mine |-> mine, id |-> 0]
  BY DEF Blog!Sends, Blog!listing, Blog!form, Blog!session, Blog!notes
<1>2. op'.kind = kind /\ op'.step = "write" /\ op'.sent = what /\ op'.mine = mine /\ op'.id = 0
  BY <1>1
<1>3. op' \in BlogCall /\ op' # Blog!Free
  BY <1>1 DEF BlogCall, Blog!Free
<1>4. BlogTyped'
  BY <1>1, <1>3 DEF BlogSafe, BlogTyped
<1>5. BlogListed'
  BY <1>1, <1>2 DEF BlogSafe, BlogListed, Writing
<1>6. BlogAsked'
  BY <1>1, <1>2 DEF BlogSafe, BlogAsked, Coherent, BlogForms
<1>7. BlogMine' /\ BlogKnows'
  BY <1>1, <1>2 DEF BlogSafe, BlogMine, BlogKnows, Knows, Settled, Target
<1>8. BlogForms' /\ BlogKeeps' /\ BlogTyping'
  BY <1>1 DEF BlogSafe, BlogForms, BlogKeeps, BlogTyping, Coherent, Knows
<1> QED BY <1>4, <1>5, <1>6, <1>7, <1>8 DEF BlogSafe

LEMMA BlogSaves ==
  ASSUME BlogSafe, Blog!Save \/ Blog!Delete
  PROVE  BlogSafe'
<1> USE BlogTypes, BlogFacts
<1>1. me # 0 /\ blogReading = "ready" /\ blogEditor # Blog!Closed /\ blogEditor \in Blog!Draft /\ Coherent(blogEditor)
  BY DEF Blog!Save, Blog!Delete, Blog!Editing, BlogSafe, BlogForms
<1>2. CASE Blog!Save
  BY <1>1, <1>2, BlogSendsOff DEF Blog!Save
<1>3. CASE Blog!Delete
  <2>1. blogEditor.id # 0
    BY <1>3 DEF Blog!Delete, BlogSafe, BlogForms
  <2> QED BY <1>1, <1>3, <2>1, BlogSendsOff DEF Blog!Delete
<1> QED BY <1>2, <1>3

LEMMA BlogPins ==
  ASSUME BlogSafe, NEW q \in Blog!Ids, Blog!Pin(q)
  PROVE  BlogSafe'
<1> USE BlogTypes, BlogFacts
<1> DEFINE what == [Blog!Blank EXCEPT !.id = q]
<1>1. me # 0 /\ blogReading = "ready" /\ blogEditor = Blog!Closed /\ Blog!Sends("pin", what, FALSE)
  BY DEF Blog!Pin, Blog!Listed
<1>2. what \in Blog!Draft
  BY DEF Blog!Draft
<1>3. Coherent(what)
  BY DEF Blog!Blank, Coherent, BlogSafe
<1> HIDE DEF what
<1> QED BY <1>1, <1>2, <1>3, BlogSendsOff

------------------------------------------------------------------------------
(* What the service writes. *)

LEMMA BlogPostWritten ==
  ASSUME BlogSafe, NEW q \in Blog!Ids, op # Blog!Free, Blog!PostWrite(q)
  PROVE  /\ posts' \in [Blog!Ids -> Blog!Post]
         /\ posts'[q].text = op.sent.text /\ posts'[q].pic = posts[q].pic /\ posts'[q] # Blog!NoPost
         /\ \A p \in Blog!Ids \ {q} : posts'[p] = posts[p]
         /\ \A p \in Blog!Ids : posts'[p].text <= Len(by)
         /\ op.sent.id # 0 => q = op.sent.id /\ posts[q] # Blog!NoPost
         /\ op.sent.id = 0 => posts[q] = Blog!NoPost
         /\ work' \in [Blog!Members -> Blog!Edits]
         /\ \A m \in Blog!Members : work'[m] \in {0, work[m]} /\ (work'[m] = 0 \/ work'[m] # op.sent.text)
<1> USE BlogTypes, BlogFacts
<1>1. BlogTyped /\ op.sent.text <= Len(by)
  BY DEF BlogSafe, BlogAsked, Coherent
<1>2. /\ posts' = [posts EXCEPT ![q] = [text |-> op.sent.text, pic |-> posts[q].pic]]
      /\ work' = [m \in Blog!Members |-> IF work[m] = op.sent.text THEN 0 ELSE work[m]]
      /\ op.sent.id # 0 => q = op.sent.id /\ posts[q] # Blog!NoPost
      /\ op.sent.id = 0 => posts[q] = Blog!NoPost
  BY DEF Blog!PostWrite
<1>3. [text |-> op.sent.text, pic |-> posts[q].pic] \in Blog!Post
  BY <1>1 DEF Blog!Post, Blog!Edits
<1>4. posts \in [Blog!Ids -> Blog!Post] /\ work \in [Blog!Members -> Blog!Edits]
  BY <1>1 DEF BlogTyped
<1>5. /\ posts' \in [Blog!Ids -> Blog!Post]
      /\ posts'[q] = [text |-> op.sent.text, pic |-> posts[q].pic]
      /\ \A p \in Blog!Ids \ {q} : posts'[p] = posts[p]
  BY <1>2, <1>3, <1>4
<1>6. posts'[q].text = op.sent.text /\ posts'[q].pic = posts[q].pic /\ posts'[q] # Blog!NoPost
  BY <1>1, <1>5
<1>7. \A p \in Blog!Ids : posts'[p].text <= Len(by)
  BY <1>1, <1>5, <1>6 DEF BlogSafe, BlogListed
<1>8. /\ work' \in [Blog!Members -> Blog!Edits]
      /\ \A m \in Blog!Members : work'[m] \in {0, work[m]} /\ (work'[m] = 0 \/ work'[m] # op.sent.text)
  BY <1>2, <1>4 DEF Blog!Edits
<1> QED BY <1>2, <1>5, <1>6, <1>7, <1>8

LEMMA BlogCoverWritten ==
  ASSUME BlogSafe, op # Blog!Free, op.kind = "save", op.step = "cover", Blog!CoverWrite
  PROVE  /\ posts' \in [Blog!Ids -> Blog!Post] /\ op.id \in Blog!Ids
         /\ posts'[op.id].text = posts[op.id].text /\ posts'[op.id].pic = op.sent.pic
         /\ posts'[op.id] # Blog!NoPost
         /\ \A p \in Blog!Ids \ {op.id} : posts'[p] = posts[p]
         /\ \A p \in Blog!Ids : posts'[p].text <= Len(by)
         /\ work' = work
<1> USE BlogTypes, BlogFacts
<1>1. BlogTyped /\ op.id \in Blog!Ids /\ posts[op.id].text = op.sent.text /\ posts[op.id] # Blog!NoPost
  BY DEF BlogSafe, BlogAsked
<1>2. posts' = [posts EXCEPT ![op.id].pic = op.sent.pic] /\ work' = work
  BY DEF Blog!CoverWrite
<1>3. posts[op.id] \in [text : Blog!Edits, pic : Blog!Edits \cup {-1}] /\ op.sent.pic \in Blog!Edits \cup {-1}
  BY <1>1 DEF Blog!Post, Blog!Draft
<1> DEFINE new == [posts[op.id] EXCEPT !.pic = op.sent.pic]
<1>4. new \in Blog!Post /\ new.text = posts[op.id].text /\ new.pic = op.sent.pic
  BY <1>3 DEF Blog!Post
<1>5. posts' = [posts EXCEPT ![op.id] = new]
  BY <1>2
<1> HIDE DEF new
<1>6. posts \in [Blog!Ids -> Blog!Post]
  BY <1>1 DEF BlogTyped
<1>7. /\ posts' \in [Blog!Ids -> Blog!Post] /\ posts'[op.id] = new
      /\ \A p \in Blog!Ids \ {op.id} : posts'[p] = posts[p]
  BY <1>1, <1>4, <1>5, <1>6
<1>8. posts'[op.id] # Blog!NoPost
  BY <1>1, <1>4, <1>7
<1>9. \A p \in Blog!Ids : posts'[p].text <= Len(by)
  BY <1>1, <1>4, <1>7 DEF BlogSafe, BlogListed
<1> QED BY <1>1, <1>2, <1>4, <1>7, <1>8, <1>9

LEMMA BlogDeleteWritten ==
  ASSUME BlogSafe, op # Blog!Free, op.kind = "delete", Blog!DeleteWrite
  PROVE  /\ posts' \in [Blog!Ids -> Blog!Post] /\ op.sent.id \in Blog!Ids
         /\ posts'[op.sent.id] = Blog!NoPost
         /\ \A p \in Blog!Ids \ {op.sent.id} : posts'[p] = posts[p]
         /\ \A p \in Blog!Ids : posts'[p].text <= Len(by)
         /\ work' = work
<1> USE BlogTypes, BlogFacts
<1>1. BlogTyped /\ op.sent.id \in Blog!Ids
  BY DEF BlogSafe, BlogAsked
<1>2. posts' = [posts EXCEPT ![op.sent.id] = Blog!NoPost] /\ work' = work
  BY DEF Blog!DeleteWrite
<1>3. posts \in [Blog!Ids -> Blog!Post]
  BY <1>1 DEF BlogTyped
<1>4. /\ posts' \in [Blog!Ids -> Blog!Post] /\ posts'[op.sent.id] = Blog!NoPost
      /\ \A p \in Blog!Ids \ {op.sent.id} : posts'[p] = posts[p]
  BY <1>1, <1>2, <1>3
<1>5. \A p \in Blog!Ids : posts'[p].text <= Len(by)
  <2>1. \A p \in Blog!Ids : posts[p].text <= Len(by)
    BY DEF BlogSafe, BlogListed
  <2>2. -1 <= Len(by)
    BY <1>1
  <2> QED BY <1>4, <2>1, <2>2
<1> QED BY <1>1, <1>2, <1>4, <1>5

\* A draft that waits in the browser is marked.
LEMMA BlogAges ==
  ASSUME BlogTyped
  PROVE  /\ Blog!Aged = Blog!NoneKept <=> kept = Blog!NoneKept
         /\ kept # Blog!NoneKept =>
              /\ Blog!Aged \in BlogKept /\ Blog!Aged.owner = kept.owner /\ Blog!Aged.draft = kept.draft
              /\ Blog!Aged.stale
<1> USE BlogTypes, BlogFacts
<1>1. CASE kept = Blog!NoneKept
  BY <1>1 DEF Blog!Aged
<1>2. CASE kept # Blog!NoneKept
  <2>1. kept \in BlogKept /\ Blog!Aged = [kept EXCEPT !.stale = TRUE]
    BY <1>2 DEF Blog!Aged
  <2>2. Blog!Aged \in BlogKept
    BY <2>1 DEF BlogKept
  <2>3. Blog!Aged.owner = kept.owner /\ Blog!Aged.draft = kept.draft /\ Blog!Aged.stale = TRUE
    BY <2>1 DEF BlogKept
  <2>4. Blog!Aged # Blog!NoneKept
    BY <2>2 DEF BlogKept, Blog!Members, Blog!NoneKept
  <2> QED BY <1>2, <2>2, <2>3, <2>4
<1> QED BY <1>1, <1>2

------------------------------------------------------------------------------
(* The session ends, and the page is read. *)

LEMMA BlogLeft ==
  ASSUME BlogSafe, Blog!Leaves,
         posts' \in [Blog!Ids -> Blog!Post], \A q \in Blog!Ids : posts'[q].text <= Len(by),
         work' \in [Blog!Members -> Blog!Edits],
         kept' = Blog!NoneKept \/ kept' \in BlogKept, unkept' \subseteq Blog!Members,
         kept' # Blog!NoneKept =>
           /\ Coherent(kept.draft)'
           /\ kept'.draft.text \in 1..Len(by) /\ by[kept'.draft.text] = kept'.owner
           /\ (kept.stale \/ kept.draft.id = 0 \/ posts[kept.draft.id] = Blog!NoPost \/ Knows(kept.draft))',
         \A m \in Blog!Members \ unkept' : work'[m] # 0 =>
           kept' # Blog!NoneKept /\ kept'.owner = m /\ kept'.draft.text = work'[m]
  PROVE  BlogSafe'
<1> USE BlogTypes, BlogFacts
<1>1. /\ blogEditor' = Blog!Closed /\ dirty' = FALSE /\ confirm' = "none" /\ op' = Blog!Free /\ me' = 0
      /\ restored' = FALSE /\ blogReading' = "loading" /\ blogBehind' = FALSE /\ blogCrossed' = FALSE
      /\ stray' = FALSE /\ blogList' = [q \in Blog!Ids |-> Blog!NoPost]
      /\ by' = by /\ signIns' = signIns
  BY DEF Blog!Leaves
<1>2. blogList' \in [Blog!Ids -> Blog!Post] /\ \A q \in Blog!Ids : blogList'[q].text = -1
  BY <1>1
<1>3. BlogTyped'
  <2>1. /\ dirty' \in BOOLEAN /\ restored' \in BOOLEAN /\ blogBehind' \in BOOLEAN /\ blogCrossed' \in BOOLEAN
        /\ stray' \in BOOLEAN
    BY <1>1, Zenon
  <2>2. /\ by' \in Seq(Blog!Members) /\ Len(by') \in 0..MaxDrafts /\ signIns' \in 0..MaxSignIns
        /\ me' \in {0} \cup Blog!Members
    BY <1>1 DEF BlogSafe, BlogTyped
  <2> QED BY <1>1, <1>2, <2>1, <2>2, Zenon DEF BlogTyped
<1>4. BlogListed'
  <2>1. Len(by) \in Nat
    BY DEF BlogSafe
  <2> QED BY <1>1, <1>2, <2>1 DEF BlogListed
<1>5. BlogAsked' /\ BlogMine' /\ BlogKnows' /\ BlogForms'
  BY <1>1, Zenon DEF BlogAsked, BlogMine, BlogKnows, BlogForms
<1>6. BlogKeeps'
  BY <1>1 DEF BlogKeeps
<1>7. BlogTyping'
  BY <1>1 DEF BlogTyping
<1> QED BY <1>3, <1>4, <1>5, <1>6, <1>7 DEF BlogSafe

\* Nothing is kept of what is typed, when the answer was not of the editor.
LEMMA BlogExpiresOnce ==
  ASSUME BlogSafe, Blog!expireOnce, UNCHANGED <<posts, work>>, op = Blog!Free \/ ~op.mine, me # 0
  PROVE  BlogSafe'
<1> USE BlogTypes, BlogFacts
<1>1. /\ unkept' = unkept \cup (IF Blog!Dirty /\ (op = Blog!Free \/ ~op.mine) THEN {me} ELSE {})
      /\ kept' = kept /\ Blog!Leaves
  BY DEF Blog!expireOnce
<1>2. BlogTyped /\ me \in Blog!Members /\ by' = by
  BY <1>1 DEF BlogSafe, BlogTyped, Blog!Leaves
<1>3. dirty => Blog!Dirty
  BY DEF BlogSafe, BlogForms, Blog!Dirty
<1>4. unkept' \subseteq Blog!Members /\ unkept \subseteq unkept' /\ (dirty => me \in unkept')
  BY <1>1, <1>2, <1>3 DEF BlogTyped
<1>5. /\ posts' \in [Blog!Ids -> Blog!Post] /\ work' \in [Blog!Members -> Blog!Edits]
      /\ \A q \in Blog!Ids : posts'[q].text <= Len(by)
      /\ kept' = Blog!NoneKept \/ kept' \in BlogKept
  BY <1>1, <1>2 DEF BlogTyped, BlogSafe, BlogListed
<1>6. kept' # Blog!NoneKept =>
           /\ Coherent(kept.draft)'
           /\ kept'.draft.text \in 1..Len(by) /\ by[kept'.draft.text] = kept'.owner
           /\ (kept.stale \/ kept.draft.id = 0 \/ posts[kept.draft.id] = Blog!NoPost \/ Knows(kept.draft))'
  BY <1>1, <1>2 DEF BlogSafe, BlogKeeps, Coherent, Knows
<1>7. \A m \in Blog!Members \ unkept' : work'[m] # 0 =>
           kept' # Blog!NoneKept /\ kept'.owner = m /\ kept'.draft.text = work'[m]
  BY <1>1, <1>2, <1>4 DEF BlogSafe, BlogTyping
<1> QED BY <1>1, <1>4, <1>5, <1>6, <1>7, BlogLeft

\* The open draft is kept for its owner, in the place of any other.
LEMMA BlogKeepsDraft ==
  ASSUME BlogSafe, NEW draft \in Blog!Draft, NEW late \in BOOLEAN, Blog!keepThenExpire(draft, late),
         me # 0, restored, blogEditor # Blog!Closed,
         draft.text = blogEditor.text, Coherent(draft),
         posts' \in [Blog!Ids -> Blog!Post], \A q \in Blog!Ids : posts'[q].text <= Len(by),
         work' \in [Blog!Members -> Blog!Edits], \A m \in Blog!Members : work'[m] \in {0, work[m]},
         late \/ posts' = posts,
         (dirty /\ ~late /\ ~blogCrossed /\ ~stray) => draft.id = 0 \/ posts[draft.id] = Blog!NoPost \/ Knows(draft)
  PROVE  BlogSafe'
<1> USE BlogTypes, BlogFacts
<1>1. /\ kept' = IF dirty THEN [owner |-> me, draft |-> draft, stale |-> late \/ blogCrossed \/ stray]
                 ELSE IF late THEN Blog!Aged ELSE kept
      /\ unkept' = unkept \cup (IF dirty /\ kept # Blog!NoneKept THEN {kept.owner} \ {me} ELSE {})
      /\ Blog!Leaves
  BY DEF Blog!keepThenExpire
<1>2. BlogTyped /\ me \in Blog!Members /\ by' = by
  BY <1>1 DEF BlogSafe, BlogTyped, Blog!Leaves
<1>3. unkept' \subseteq Blog!Members /\ unkept \subseteq unkept'
  BY <1>1, <1>2 DEF BlogTyped
<1>4. CASE dirty
  <2>1. /\ kept' = [owner |-> me, draft |-> draft, stale |-> late \/ blogCrossed \/ stray]
        /\ kept # Blog!NoneKept => kept.owner \in unkept' \cup {me}
    BY <1>1, <1>4
  <2>2. (late \/ blogCrossed \/ stray) \in BOOLEAN
    BY Zenon
  <2>3. /\ kept'.owner = me /\ kept'.draft = draft /\ kept'.stale = (late \/ blogCrossed \/ stray)
        /\ kept' \in BlogKept /\ kept' # Blog!NoneKept
    BY <2>1, <2>2, <1>2 DEF BlogKept
  <2>4. /\ Coherent(kept.draft)'
        /\ kept'.draft.text \in 1..Len(by) /\ by[kept'.draft.text] = kept'.owner
    BY <1>2, <1>4, <2>3 DEF BlogSafe, BlogTyping, Coherent
  <2>5. (kept.stale \/ kept.draft.id = 0 \/ posts[kept.draft.id] = Blog!NoPost \/ Knows(kept.draft))'
    BY <1>4, <2>3 DEF Knows
  <2>6. \A m \in Blog!Members \ unkept' : work'[m] # 0 =>
           kept' # Blog!NoneKept /\ kept'.owner = m /\ kept'.draft.text = work'[m]
    <3>1. kept # Blog!NoneKept => kept.owner # me
      BY DEF BlogSafe, BlogKeeps
    <3> QED BY <1>3, <1>4, <2>1, <2>3, <3>1 DEF BlogSafe, BlogTyping
  <2> QED BY <1>1, <1>3, <2>3, <2>4, <2>5, <2>6, BlogLeft
<1>5. CASE ~dirty
  <2>1. kept' = IF late THEN Blog!Aged ELSE kept
    BY <1>1, <1>5
  <2>2. /\ kept' = Blog!NoneKept <=> kept = Blog!NoneKept
        /\ kept # Blog!NoneKept =>
             /\ kept' \in BlogKept /\ kept'.owner = kept.owner /\ kept'.draft = kept.draft
             /\ kept'.stale = kept.stale \/ kept'.stale
             /\ late => kept'.stale
    BY <2>1, <1>2, BlogAges
  <2>3. kept' # Blog!NoneKept =>
           /\ Coherent(kept.draft)'
           /\ kept'.draft.text \in 1..Len(by) /\ by[kept'.draft.text] = kept'.owner
    BY <1>2, <2>2 DEF BlogSafe, BlogKeeps, Coherent
  <2>4. kept' # Blog!NoneKept =>
           (kept.stale \/ kept.draft.id = 0 \/ posts[kept.draft.id] = Blog!NoPost \/ Knows(kept.draft))'
    <3>1. CASE late
      BY <2>2, <3>1
    <3>2. CASE ~late
      BY <2>1, <3>2 DEF BlogSafe, BlogKeeps, Knows
    <3> QED BY <3>1, <3>2
  <2>5. \A m \in Blog!Members \ unkept' : work'[m] # 0 =>
           kept' # Blog!NoneKept /\ kept'.owner = m /\ kept'.draft.text = work'[m]
    BY <1>3, <1>5, <2>2 DEF BlogSafe, BlogTyping
  <2> QED BY <1>1, <1>3, <2>2, <2>3, <2>4, <2>5, BlogLeft
<1> QED BY <1>4, <1>5

\* A draft of a post whose cover is not stored yet takes the id.
LEMMA BlogPartial ==
  ASSUME BlogSafe, op # Blog!Free, op.mine, op.kind = "save", op.step # "write", NEW has \in BOOLEAN
  PROVE  LET d == Blog!partialEditor(has) IN
         /\ d \in Blog!Draft /\ d.id = op.id /\ d.text = blogEditor.text /\ d.cover = blogEditor.cover
         /\ d.pic = blogEditor.pic /\ d.serverHasCover = has
         /\ blogEditor # Blog!Closed /\ Coherent(blogEditor)
         /\ op.id # 0 /\ op.id \in Blog!Ids
<1> USE BlogTypes, BlogFacts
<1>1. /\ blogEditor # Blog!Closed /\ blogEditor \in Blog!Draft /\ Coherent(blogEditor)
      /\ op.id \in 0..MaxPosts /\ op.id # 0
  BY DEF BlogSafe, BlogMine, BlogForms, BlogAsked
<1>2. Blog!partialEditor(has) = [blogEditor EXCEPT !.id = op.id, !.serverHasCover = has]
  BY DEF Blog!partialEditor
<1>3. /\ Blog!partialEditor(has).id = op.id /\ Blog!partialEditor(has).text = blogEditor.text
      /\ Blog!partialEditor(has).cover = blogEditor.cover
      /\ Blog!partialEditor(has).pic = blogEditor.pic /\ Blog!partialEditor(has).serverHasCover = has
  BY <1>1, <1>2 DEF Blog!Draft
<1>4. Blog!partialEditor(has) \in Blog!Draft
  BY <1>1, <1>2 DEF Blog!Draft
<1> QED BY <1>1, <1>3, <1>4

\* What it knows then, with its own cover yet to be written.
LEMMA BlogPartialKnows ==
  ASSUME BlogSafe, op # Blog!Free, op.mine, op.kind = "save", op.step = "cover"
  PROVE  LET d == Blog!partialEditor(blogEditor.serverHasCover) IN
         /\ Coherent(d) /\ (~blogCrossed /\ ~stray => Knows(d))
         /\ dirty \/ blogCrossed \/ stray
<1> USE BlogTypes, BlogFacts
<1> DEFINE d == Blog!partialEditor(blogEditor.serverHasCover)
<1>1. blogEditor # Blog!Closed /\ blogEditor.serverHasCover \in BOOLEAN
  BY DEF BlogSafe, BlogMine, Blog!Draft
<1>2. /\ d \in Blog!Draft /\ d.id = op.id /\ d.text = blogEditor.text /\ d.cover = blogEditor.cover
      /\ d.pic = blogEditor.pic /\ d.serverHasCover = blogEditor.serverHasCover
      /\ Coherent(blogEditor) /\ op.id # 0
  BY <1>1, BlogPartial
<1> HIDE DEF d
<1>3. Coherent(d)
  BY <1>2 DEF Coherent
<1>4. /\ blogEditor.id = op.sent.id /\ (blogEditor.serverHasCover <=> op.sent.serverHasCover)
      /\ dirty \/ blogEditor = op.sent
      /\ posts[op.id] # Blog!NoPost /\ (op.sent.id # 0 => op.id = op.sent.id)
      /\ op.sent.cover = "new" \/ Blog!RemovesCover
  BY DEF BlogSafe, BlogMine, BlogAsked
<1>5. ASSUME ~blogCrossed, ~stray PROVE Knows(d)
  <2>1. Knows(blogEditor) /\ (~op.sent.serverHasCover => posts[op.id].pic = -1)
    BY <1>1, <1>5 DEF BlogSafe, BlogKnows
  <2>2. d.cover = "saved" => posts[d.id].pic = d.pic
    BY <1>2, <1>4, <2>1 DEF Coherent, Knows
  <2> QED BY <1>2, <1>4, <2>1, <2>2 DEF Knows
<1>6. ASSUME ~blogCrossed, ~stray, ~dirty PROVE FALSE
  <2>1. blogEditor = op.sent /\ Settled(blogEditor) /\ (blogEditor.id # 0 \/ blogEditor = Blog!Blank)
    BY <1>1, <1>4, <1>6 DEF BlogSafe, BlogKnows, BlogForms
  <2>2. Blog!Blank.cover = "none" /\ Blog!Blank.serverHasCover = FALSE
    BY DEF Blog!Blank
  <2> QED BY <1>4, <2>1, <2>2 DEF Settled, Blog!RemovesCover
<1> QED BY <1>3, <1>5, <1>6 DEF d

LEMMA BlogServes ==
  ASSUME BlogSafe, Blog!Served
  PROVE  /\ posts' \in [Blog!Ids -> Blog!Post] /\ \A q \in Blog!Ids : posts'[q].text <= Len(by)
         /\ work' \in [Blog!Members -> Blog!Edits] /\ \A m \in Blog!Members : work'[m] \in {0, work[m]}
<1> USE BlogTypes, BlogFacts
<1>1. work \in [Blog!Members -> Blog!Edits]
  BY DEF BlogSafe, BlogTyped
<1>2. CASE Blog!Sent("save", "write") /\ \E q \in Blog!Ids : Blog!PostWrite(q)
  BY <1>2, BlogPostWritten DEF Blog!Sent
<1>3. CASE Blog!Sent("save", "cover") /\ Blog!CoverWrite
  BY <1>1, <1>3, BlogCoverWritten DEF Blog!Sent
<1>4. CASE Blog!Sent("delete", "write") /\ Blog!DeleteWrite
  BY <1>1, <1>4, BlogDeleteWritten DEF Blog!Sent
<1> QED BY <1>2, <1>3, <1>4 DEF Blog!Served

LEMMA BlogSaveExpires ==
  ASSUME BlogSafe, Blog!SaveExpires
  PROVE  BlogSafe'
<1> USE BlogTypes, BlogFacts
<1>1. op # Blog!Free /\ op.kind \in {"save", "delete"} /\ op.step # "read" /\ UNCHANGED <<posts, work>>
  BY DEF Blog!SaveExpires
<1>2. BlogTyped /\ me # 0 /\ restored
  BY <1>1 DEF BlogSafe, BlogAsked
<1>3. CASE ~op.mine
  BY <1>1, <1>2, <1>3, BlogExpiresOnce DEF Blog!SaveExpires
<1>4. CASE op.mine
  <2> DEFINE d == IF op.step = "cover" THEN Blog!partialEditor(blogEditor.serverHasCover) ELSE blogEditor
  <2>1. Blog!keepThenExpire(d, FALSE)
    BY <1>4 DEF Blog!SaveExpires
  <2>2. blogEditor # Blog!Closed /\ blogEditor \in Blog!Draft /\ Coherent(blogEditor)
        /\ blogEditor.serverHasCover \in BOOLEAN
    BY <1>1, <1>4 DEF BlogSafe, BlogMine, BlogForms, Blog!Draft
  <2>3. /\ d \in Blog!Draft /\ Coherent(d) /\ d.text = blogEditor.text
        /\ (~blogCrossed /\ ~stray) => Knows(d)
    <3>1. CASE op.step = "cover"
      <4>1. op.kind = "save"
        BY <1>1, <3>1 DEF BlogSafe, BlogAsked
      <4> QED BY <1>1, <1>4, <2>2, <3>1, <4>1, BlogPartial, BlogPartialKnows
    <3>2. CASE op.step # "cover"
      <4>1. d = blogEditor
        BY <3>2
      <4> QED BY <1>1, <2>2, <4>1 DEF BlogSafe, BlogKnows
    <3> QED BY <3>1, <3>2
  <2>4. /\ posts' \in [Blog!Ids -> Blog!Post] /\ \A q \in Blog!Ids : posts'[q].text <= Len(by)
        /\ work' \in [Blog!Members -> Blog!Edits] /\ \A m \in Blog!Members : work'[m] \in {0, work[m]}
    BY <1>1, <1>2 DEF BlogTyped, BlogSafe, BlogListed
  <2> HIDE DEF d
  <2> QED BY <1>1, <1>2, <2>1, <2>2, <2>3, <2>4, BlogKeepsDraft
<1> QED BY <1>3, <1>4

LEMMA BlogReadExpires ==
  ASSUME BlogSafe, Blog!LoadExpires \/ Blog!PinExpires
  PROVE  BlogSafe'
<1>1. /\ Blog!expireOnce /\ UNCHANGED <<posts, work>>
      /\ me # 0 /\ (op = Blog!Free \/ ~op.mine)
  BY DEF Blog!LoadExpires, Blog!PinExpires, BlogSafe, BlogAsked, BlogMine
<1> QED BY <1>1, BlogExpiresOnce

LEMMA BlogCoverExpires ==
  ASSUME BlogSafe, Blog!CoverReadExpires
  PROVE  BlogSafe'
<1> USE BlogTypes, BlogFacts
<1>1. /\ me # 0 /\ blogEditor # Blog!Closed /\ blogEditor.cover = "saved" /\ blogReading = "ready"
      /\ \/ UNCHANGED <<posts, work>> /\ Blog!keepThenExpire(blogEditor, FALSE)
         \/ Blog!Served /\ Blog!keepThenExpire(blogEditor, TRUE)
  BY DEF Blog!CoverReadExpires, Blog!Editing
<1>2. BlogTyped /\ restored /\ blogEditor \in Blog!Draft /\ Coherent(blogEditor)
  BY <1>1 DEF BlogSafe, BlogForms
<1>3. ASSUME ~blogCrossed, ~stray
      PROVE  blogEditor.id = 0 \/ posts[blogEditor.id] = Blog!NoPost \/ Knows(blogEditor)
  <2>1. CASE op = Blog!Free \/ ~op.mine \/ op.step # "read"
    BY <1>1, <1>3, <2>1 DEF BlogSafe, BlogKnows
  <2>2. CASE op # Blog!Free /\ op.mine /\ op.step = "read"
    <3>1. /\ blogEditor.id = op.sent.id /\ op.sent.cover = "saved" /\ blogEditor.pic = op.sent.pic
          /\ blogEditor.serverHasCover /\ blogEditor.id # 0 /\ op.kind # "pin"
      BY <1>1, <1>2, <2>2 DEF BlogSafe, BlogMine, Coherent
    <3>2. CASE op.kind = "delete"
      BY <2>2, <3>1, <3>2 DEF BlogSafe, BlogAsked
    <3>3. CASE op.kind = "save"
      <4>1. op.id = op.sent.id /\ posts[op.id] # Blog!NoPost
        BY <2>2, <3>1, <3>3 DEF BlogSafe, BlogAsked
      <4>2. posts[op.id].pic = op.sent.pic
        BY <1>1, <1>3, <2>2, <3>3 DEF BlogSafe, BlogKnows
      <4> QED BY <3>1, <4>1, <4>2 DEF Knows
    <3> QED BY <1>2, <2>2, <3>1, <3>2, <3>3
  <2> QED BY <2>1, <2>2
<1>4. CASE UNCHANGED <<posts, work>> /\ Blog!keepThenExpire(blogEditor, FALSE)
  <2>1. /\ posts' \in [Blog!Ids -> Blog!Post] /\ \A q \in Blog!Ids : posts'[q].text <= Len(by)
        /\ work' \in [Blog!Members -> Blog!Edits] /\ \A m \in Blog!Members : work'[m] \in {0, work[m]}
    BY <1>2, <1>4 DEF BlogTyped, BlogSafe, BlogListed
  <2> QED BY <1>1, <1>2, <1>3, <1>4, <2>1, BlogKeepsDraft
<1>5. CASE Blog!Served /\ Blog!keepThenExpire(blogEditor, TRUE)
  BY <1>1, <1>2, <1>5, BlogServes, BlogKeepsDraft
<1> QED BY <1>1, <1>4, <1>5

\* What was kept is opened again, by its owner.
LEMMA BlogTakes ==
  ASSUME BlogSafe, kept # Blog!NoneKept
  PROVE  LET d == Blog!KeptDraft IN
         /\ d \in Blog!Draft /\ d.text = kept.draft.text /\ Coherent(d)
         /\ d.id # 0 => d = kept.draft /\ posts[d.id] # Blog!NoPost
<1> USE BlogTypes, BlogFacts
<1>1. kept.draft \in Blog!Draft /\ Coherent(kept.draft)
  BY DEF BlogSafe, BlogKeeps
<1>2. CASE ~Blog!KeptGone
  <2>1. Blog!KeptDraft = kept.draft
    BY <1>2 DEF Blog!KeptDraft
  <2> QED BY <1>1, <1>2, <2>1 DEF Blog!KeptGone
<1>3. CASE Blog!KeptGone
  <2> DEFINE cov == IF kept.draft.cover = "saved" THEN "none" ELSE kept.draft.cover
             img == IF kept.draft.cover = "saved" THEN -1 ELSE kept.draft.pic
             new == [kept.draft EXCEPT !.id = 0, !.serverHasCover = FALSE, !.cover = cov, !.pic = img]
  <2>1. Blog!KeptDraft = new
    BY <1>3 DEF Blog!KeptDraft
  <2>2. cov \in {"none", "new"} /\ img \in Blog!Edits \cup {-1} /\ (cov = "none" <=> img = -1)
    BY <1>1 DEF Coherent, Blog!Draft
  <2> HIDE DEF cov, img
  <2>3. /\ new.id = 0 /\ new.serverHasCover = FALSE /\ new.cover = cov /\ new.pic = img
        /\ new.text = kept.draft.text /\ new \in Blog!Draft
    <3>1. new.id = 0 /\ new.serverHasCover = FALSE /\ new.cover = cov /\ new.pic = img /\ new.text = kept.draft.text
      BY <1>1 DEF Blog!Draft
    <3>2. 0 \in 0..MaxPosts /\ cov \in {"none", "saved", "new"} /\ FALSE \in BOOLEAN
      BY <2>2
    <3>3. new \in Blog!Draft
      BY <1>1, <2>2, <3>2 DEF Blog!Draft
    <3> QED BY <3>1, <3>3
  <2> HIDE DEF new
  <2>4. Coherent(new)
    BY <1>1, <2>2, <2>3 DEF Coherent
  <2> QED BY <2>1, <2>3, <2>4
<1> QED BY <1>2, <1>3

LEMMA BlogLoads ==
  ASSUME BlogSafe, Blog!Load
  PROVE  BlogSafe'
<1> USE BlogTypes, BlogFacts
<1>1. /\ me # 0 /\ blogReading = "loading" /\ UNCHANGED <<posts, op, by, work>>
      /\ \/ /\ blogReading' = "ready" /\ blogList' = posts /\ blogBehind' = FALSE /\ Blog!takeKept
            /\ restored' = TRUE /\ UNCHANGED <<me, signIns, unkept>>
         \/ /\ blogReading' = "error"
            /\ UNCHANGED <<blogList, blogEditor, dirty, confirm, kept, me, restored, signIns,
                           blogBehind, blogCrossed, stray, unkept>>
  BY DEF Blog!Load, Blog!Refreshed, Blog!form, Blog!session, Blog!notes
<1>2. BlogTyped /\ op = Blog!Free /\ me \in Blog!Members
  BY <1>1 DEF BlogSafe, BlogAsked, BlogTyped
<1>3. CASE blogReading' = "error"
  <2>1. UNCHANGED <<blogList, blogEditor, dirty, confirm, kept, me, restored, signIns,
                    blogBehind, blogCrossed, stray, unkept>>
    BY <1>1, <1>3
  <2>2. BlogTyped' /\ BlogListed' /\ BlogAsked'
    BY <1>1, <1>2, <1>3, <2>1 DEF BlogSafe, BlogTyped, BlogListed, BlogAsked
  <2>3. BlogMine' /\ BlogKnows'
    BY <1>1, <1>2, <2>1 DEF BlogSafe, BlogMine, BlogKnows, Knows, Settled, Target
  <2>4. BlogForms' /\ BlogKeeps' /\ BlogTyping'
    BY <1>1, <1>3, <2>1 DEF BlogSafe, BlogForms, BlogKeeps, BlogTyping, Coherent, Knows
  <2> QED BY <2>2, <2>3, <2>4 DEF BlogSafe
<1>4. CASE blogReading' # "error"
  <2>1. /\ blogReading' = "ready" /\ blogList' = posts /\ blogBehind' = FALSE /\ Blog!takeKept
        /\ restored' = TRUE /\ UNCHANGED <<me, signIns, unkept>>
    BY <1>1, <1>4
  <2>2. BlogListed' /\ BlogAsked' /\ BlogMine'
    BY <1>1, <1>2, <2>1 DEF BlogSafe, BlogListed, BlogAsked, BlogMine
  <2>3. blogList' \in [Blog!Ids -> Blog!Post] /\ restored' \in BOOLEAN /\ blogBehind' \in BOOLEAN
    BY <1>2, <2>1 DEF BlogTyped
  <2>4. CASE ~restored /\ kept # Blog!NoneKept /\ kept.owner = me
    <3> DEFINE d == Blog!KeptDraft
    <3>1. /\ blogEditor' = d /\ dirty' = TRUE /\ confirm' = "none" /\ kept' = Blog!NoneKept
          /\ blogCrossed' = (kept.stale /\ d.id # 0) /\ stray' = FALSE
      BY <2>1, <2>4 DEF Blog!takeKept
    <3>2. /\ d \in Blog!Draft /\ d.text = kept.draft.text /\ Coherent(d)
          /\ d.id # 0 => d = kept.draft /\ posts[d.id] # Blog!NoPost
      BY <2>4, BlogTakes
    <3> HIDE DEF d
    <3>3. blogCrossed' \in BOOLEAN /\ stray' \in BOOLEAN /\ dirty' \in BOOLEAN
      BY <3>1, Zenon
    <3>4. BlogTyped'
      BY <1>1, <1>2, <2>1, <2>3, <3>1, <3>2, <3>3, Zenon DEF BlogTyped
    <3>5. Coherent(blogEditor)' /\ blogEditor' # Blog!Closed
      BY <1>1, <3>1, <3>2 DEF Coherent
    <3>6. ~blogCrossed' => Knows(blogEditor)'
      BY <1>1, <2>4, <3>1, <3>2 DEF BlogSafe, BlogKeeps, Knows
    <3>7. BlogKnows' /\ BlogForms' /\ BlogKeeps'
      BY <1>1, <1>2, <2>1, <3>1, <3>5, <3>6 DEF BlogKnows, BlogForms, BlogKeeps
    <3>8. dirty = FALSE
      BY <1>2, <2>4 DEF BlogSafe, BlogForms, BlogTyped
    <3>9. BlogTyping'
      BY <1>1, <1>2, <2>1, <2>4, <3>1, <3>2, <3>8 DEF BlogSafe, BlogTyping, BlogKeeps
    <3> QED BY <2>2, <3>4, <3>7, <3>9 DEF BlogSafe
  <2>5. CASE ~(~restored /\ kept # Blog!NoneKept /\ kept.owner = me)
    <3>1. UNCHANGED <<blogEditor, dirty, confirm, kept, blogCrossed, stray>>
      BY <2>1, <2>5 DEF Blog!takeKept, Blog!form
    <3>2. BlogTyped'
      BY <1>1, <1>2, <2>1, <2>3, <3>1, Zenon DEF BlogTyped
    <3>3. BlogKnows' /\ BlogForms'
      BY <1>1, <1>2, <2>1, <3>1 DEF BlogSafe, BlogKnows, BlogForms, Knows, Settled, Coherent
    <3>4. BlogKeeps' /\ BlogTyping'
      BY <1>1, <1>2, <2>1, <2>5, <3>1 DEF BlogSafe, BlogKeeps, BlogTyping, Knows, Coherent
    <3> QED BY <2>2, <3>2, <3>3, <3>4 DEF BlogSafe
  <2> QED BY <2>4, <2>5
<1> QED BY <1>3, <1>4

------------------------------------------------------------------------------
(* The answers. *)

\* What was asked for is written: what waits in the browser ages.
LEMMA BlogTaken ==
  ASSUME BlogSafe, op # Blog!Free, Blog!Ages,
         UNCHANGED <<blogReading, blogList, blogEditor, dirty, confirm, me, restored, signIns, by,
                     blogBehind, blogCrossed, stray, unkept>>,
         posts' \in [Blog!Ids -> Blog!Post], \A q \in Blog!Ids : posts'[q].text <= Len(by),
         work' \in [Blog!Members -> Blog!Edits], \A m \in Blog!Members : work'[m] \in {0, work[m]},
         op' \in BlogCall, op'.kind = op.kind, op'.sent = op.sent, op'.mine = op.mine
  PROVE  /\ BlogTyped' /\ BlogMine' /\ BlogForms' /\ BlogKeeps' /\ BlogTyping'
         /\ Coherent(op.sent)' /\ op' # Blog!Free
         /\ kept' = Blog!NoneKept \/ kept'.stale
<1> USE BlogTypes, BlogFacts
<1>1. BlogTyped
  BY DEF BlogSafe
<1>2. /\ kept' = Blog!NoneKept <=> kept = Blog!NoneKept
      /\ kept # Blog!NoneKept =>
           kept' \in BlogKept /\ kept'.owner = kept.owner /\ kept'.draft = kept.draft /\ kept'.stale
  BY <1>1, BlogAges DEF Blog!Ages
<1>3. BlogTyped'
  <2>1. kept' = Blog!NoneKept \/ kept' \in BlogKept
    BY <1>2
  <2>2. op' = Blog!Free \/ op' \in BlogCall
    OBVIOUS
  <2> QED BY <1>1, <2>1, <2>2 DEF BlogTyped
<1>4. Coherent(op.sent)' /\ op' # Blog!Free
  BY <1>3 DEF BlogSafe, BlogAsked, Coherent, BlogCall, Blog!Free
<1>5. BlogMine' /\ BlogForms'
  BY <1>4 DEF BlogSafe, BlogMine, BlogForms, Coherent
<1>6. BlogKeeps' /\ BlogTyping'
  BY <1>1, <1>2 DEF BlogSafe, BlogKeeps, BlogTyping, Coherent
<1> QED BY <1>2, <1>3, <1>4, <1>5, <1>6

LEMMA BlogSaveTaken ==
  ASSUME BlogSafe, Blog!SaveTaken
  PROVE  BlogSafe'
<1> USE BlogTypes, BlogFacts
<1> DEFINE next == IF op.sent.cover = "new" \/ Blog!RemovesCover THEN "cover" ELSE "read"
<1>1. PICK q \in Blog!Ids :
        Blog!PostWrite(q) /\ Blog!Ages /\ op' = [op EXCEPT !.id = q, !.step = next]
  BY DEF Blog!SaveTaken
<1>2. /\ op # Blog!Free /\ op.kind = "save" /\ op.step = "write"
      /\ UNCHANGED <<blogReading, blogList, blogEditor, dirty, confirm, me, restored, signIns, by,
                     blogBehind, blogCrossed, stray, unkept>>
  BY DEF Blog!SaveTaken, Blog!Sent, Blog!listing, Blog!form, Blog!notes
<1>3. BlogTyped /\ op \in BlogCall /\ next \in {"cover", "read"}
  BY <1>2 DEF BlogSafe
<1>4. /\ op' \in BlogCall /\ op'.kind = "save" /\ op'.sent = op.sent /\ op'.mine = op.mine /\ op'.id = q
      /\ op'.step = next
  <2> HIDE DEF next
  <2> QED BY <1>1, <1>2, <1>3 DEF BlogCall
<1>5. /\ posts' \in [Blog!Ids -> Blog!Post]
      /\ posts'[q].text = op.sent.text /\ posts'[q].pic = posts[q].pic /\ posts'[q] # Blog!NoPost
      /\ \A p \in Blog!Ids \ {q} : posts'[p] = posts[p]
      /\ \A p \in Blog!Ids : posts'[p].text <= Len(by)
      /\ op.sent.id # 0 => q = op.sent.id /\ posts[q] # Blog!NoPost
      /\ op.sent.id = 0 => posts[q] = Blog!NoPost
      /\ work' \in [Blog!Members -> Blog!Edits]
      /\ \A m \in Blog!Members : work'[m] \in {0, work[m]} /\ (work'[m] = 0 \/ work'[m] # op.sent.text)
  BY <1>1, <1>2, BlogPostWritten
<1>6. /\ BlogTyped' /\ BlogMine' /\ BlogForms' /\ BlogKeeps' /\ BlogTyping'
      /\ Coherent(op.sent)' /\ op' # Blog!Free
      /\ kept' = Blog!NoneKept \/ kept'.stale
  BY <1>1, <1>2, <1>4, <1>5, BlogTaken
<1>7. Writing' /\ Target' = q /\ ~Writing
  BY <1>2, <1>3, <1>4, <1>6 DEF Writing, Target
<1>8. BlogListed'
  BY <1>2, <1>5, <1>7 DEF BlogSafe, BlogListed
<1>9. next = "cover" => op.sent.cover = "new" \/ Blog!RemovesCover
  OBVIOUS
<1>10. next # "cover" => op.sent.cover # "new" /\ ~Blog!RemovesCover
  OBVIOUS
<1> HIDE DEF next
<1>11. Blog!RemovesCover' <=> Blog!RemovesCover
  BY <1>4 DEF Blog!RemovesCover
<1>12. BlogAsked'
  BY <1>2, <1>3, <1>4, <1>5, <1>6, <1>9, <1>11 DEF BlogSafe, BlogAsked
<1>13. BlogKnows'
  <2> SUFFICES ASSUME blogEditor # Blog!Closed, ~blogCrossed, ~stray PROVE BlogKnows'
    BY <1>2, Zenon DEF BlogKnows
  <2>1. Knows(blogEditor) /\ (~dirty => Settled(blogEditor))
    BY <1>2 DEF BlogSafe, BlogKnows
  <2>2. CASE op.mine
    <3>1. /\ Knows(op.sent) /\ blogEditor.id = op.sent.id
          /\ (blogEditor.serverHasCover <=> op.sent.serverHasCover) /\ Coherent(op.sent)
          /\ dirty \/ blogEditor = op.sent
      BY <1>2, <2>2 DEF BlogSafe, BlogKnows, BlogMine, BlogAsked
    <3>2. Knows(blogEditor)'
      BY <1>2, <1>5, <2>1, <3>1 DEF Knows
    <3>3. ~dirty => Settled(blogEditor)'
      BY <1>2, <1>5, <2>1, <3>1 DEF Settled
    <3>4. ~op.sent.serverHasCover => posts'[q].pic = -1
      BY <1>5, <3>1 DEF Knows
    <3>5. next = "read" => posts'[q].pic = op.sent.pic
      <4>1. CASE op.sent.cover = "saved"
        BY <1>5, <3>1, <4>1 DEF Knows, Coherent
      <4>2. CASE op.sent.cover = "none"
        BY <1>10, <3>1, <3>4, <4>2 DEF Blog!RemovesCover, Coherent
      <4> QED BY <1>2, <1>3, <1>10, <4>1, <4>2
    <3> QED BY <1>2, <1>3, <1>4, <1>6, <2>2, <3>2, <3>3, <3>4, <3>5 DEF BlogKnows
  <2>3. CASE ~op.mine
    <3>1. blogEditor.id # 0 => blogEditor.id # q
      BY <1>2, <1>3, <1>5, <2>1, <2>3 DEF BlogSafe, BlogKnows, BlogAsked, Target, Knows
    <3>2. Knows(blogEditor)' /\ (~dirty => Settled(blogEditor)')
      BY <1>2, <1>3, <1>5, <2>1, <3>1 DEF Knows, Settled
    <3> QED BY <1>2, <1>4, <1>6, <1>7, <2>3, <3>1, <3>2 DEF BlogKnows
  <2> QED BY <2>2, <2>3
<1> QED BY <1>6, <1>8, <1>12, <1>13 DEF BlogSafe

LEMMA BlogCoverTaken ==
  ASSUME BlogSafe, Blog!CoverTaken
  PROVE  BlogSafe'
<1> USE BlogTypes, BlogFacts
<1>1. /\ op # Blog!Free /\ op.kind = "save" /\ op.step = "cover" /\ Blog!CoverWrite /\ Blog!Ages
      /\ op' = [op EXCEPT !.step = "read"]
      /\ UNCHANGED <<blogReading, blogList, blogEditor, dirty, confirm, me, restored, signIns, by,
                     blogBehind, blogCrossed, stray, unkept>>
  BY DEF Blog!CoverTaken, Blog!Sent, Blog!listing, Blog!form, Blog!notes
<1>2. BlogTyped /\ op \in BlogCall
  BY <1>1 DEF BlogSafe
<1>3. /\ op' \in BlogCall /\ op'.kind = "save" /\ op'.sent = op.sent /\ op'.mine = op.mine /\ op'.id = op.id
      /\ op'.step = "read"
  BY <1>1, <1>2 DEF BlogCall
<1>4. /\ posts' \in [Blog!Ids -> Blog!Post] /\ op.id \in Blog!Ids
      /\ posts'[op.id].text = posts[op.id].text /\ posts'[op.id].pic = op.sent.pic
      /\ posts'[op.id] # Blog!NoPost
      /\ \A p \in Blog!Ids \ {op.id} : posts'[p] = posts[p]
      /\ \A p \in Blog!Ids : posts'[p].text <= Len(by)
      /\ work' = work
  BY <1>1, BlogCoverWritten
<1>5. work' \in [Blog!Members -> Blog!Edits] /\ \A m \in Blog!Members : work'[m] \in {0, work[m]}
  BY <1>2, <1>4 DEF BlogTyped
<1>6. /\ BlogTyped' /\ BlogMine' /\ BlogForms' /\ BlogKeeps' /\ BlogTyping'
      /\ Coherent(op.sent)' /\ op' # Blog!Free
      /\ kept' = Blog!NoneKept \/ kept'.stale
  BY <1>1, <1>3, <1>4, <1>5, BlogTaken
<1>7. Writing' /\ Target' = op.id /\ Target = op.id
  BY <1>1, <1>3, <1>4, <1>6 DEF Writing, Target
<1>8. BlogListed'
  BY <1>1, <1>4, <1>7 DEF BlogSafe, BlogListed
<1>9. BlogAsked'
  BY <1>1, <1>2, <1>3, <1>4, <1>6 DEF BlogSafe, BlogAsked
<1>10. BlogKnows'
  <2> SUFFICES ASSUME blogEditor # Blog!Closed, ~blogCrossed, ~stray PROVE BlogKnows'
    BY <1>1, Zenon DEF BlogKnows
  <2>1. Knows(blogEditor) /\ (~dirty => Settled(blogEditor))
    BY <1>1 DEF BlogSafe, BlogKnows
  <2>2. CASE op.mine
    <3>1. dirty
      BY <1>1, <2>2, BlogPartialKnows
    <3> QED BY <1>1, <1>3, <1>4, <1>6, <2>2, <3>1 DEF BlogKnows
  <2>3. CASE ~op.mine
    <3>1. blogEditor.id # 0 => blogEditor.id # op.id
      BY <1>1, <1>7, <2>3 DEF BlogSafe, BlogKnows
    <3>2. Knows(blogEditor)' /\ (~dirty => Settled(blogEditor)')
      BY <1>1, <1>2, <1>4, <2>1, <3>1 DEF Knows, Settled
    <3> QED BY <1>1, <1>3, <1>6, <1>7, <2>3, <3>1, <3>2 DEF BlogKnows
  <2> QED BY <2>2, <2>3
<1> QED BY <1>6, <1>8, <1>9, <1>10 DEF BlogSafe

LEMMA BlogDeleteTaken ==
  ASSUME BlogSafe, Blog!DeleteTaken
  PROVE  BlogSafe'
<1> USE BlogTypes, BlogFacts
<1>1. /\ op # Blog!Free /\ op.kind = "delete" /\ op.step = "write" /\ Blog!DeleteWrite /\ Blog!Ages
      /\ op' = [op EXCEPT !.step = "read"]
      /\ UNCHANGED <<blogReading, blogList, blogEditor, dirty, confirm, me, restored, signIns, by,
                     blogBehind, blogCrossed, stray, unkept>>
  BY DEF Blog!DeleteTaken, Blog!Sent, Blog!listing, Blog!form, Blog!notes
<1>2. BlogTyped /\ op \in BlogCall /\ op.id = 0
  BY <1>1 DEF BlogSafe, BlogAsked
<1>3. /\ op' \in BlogCall /\ op'.kind = "delete" /\ op'.sent = op.sent /\ op'.mine = op.mine /\ op'.id = 0
      /\ op'.step = "read"
  BY <1>1, <1>2 DEF BlogCall
<1>4. /\ posts' \in [Blog!Ids -> Blog!Post] /\ op.sent.id \in Blog!Ids
      /\ posts'[op.sent.id] = Blog!NoPost
      /\ \A p \in Blog!Ids \ {op.sent.id} : posts'[p] = posts[p]
      /\ \A p \in Blog!Ids : posts'[p].text <= Len(by)
      /\ work' = work
  BY <1>1, BlogDeleteWritten
<1>5. work' \in [Blog!Members -> Blog!Edits] /\ \A m \in Blog!Members : work'[m] \in {0, work[m]}
  BY <1>2, <1>4 DEF BlogTyped
<1>6. /\ BlogTyped' /\ BlogMine' /\ BlogForms' /\ BlogKeeps' /\ BlogTyping'
      /\ Coherent(op.sent)' /\ op' # Blog!Free
      /\ kept' = Blog!NoneKept \/ kept'.stale
  BY <1>1, <1>3, <1>4, <1>5, BlogTaken
<1>7. Writing' /\ Target' = op.sent.id /\ Target = op.sent.id
  BY <1>1, <1>2, <1>3, <1>4, <1>6 DEF Writing, Target
<1>8. BlogListed'
  BY <1>1, <1>4, <1>7 DEF BlogSafe, BlogListed, Writing
<1>9. BlogAsked'
  BY <1>1, <1>2, <1>3, <1>4, <1>6 DEF BlogSafe, BlogAsked
<1>10. BlogKnows'
  <2> SUFFICES ASSUME blogEditor # Blog!Closed, ~blogCrossed, ~stray PROVE BlogKnows'
    BY <1>1, Zenon DEF BlogKnows
  <2>1. Knows(blogEditor) /\ (~dirty => Settled(blogEditor))
    BY <1>1 DEF BlogSafe, BlogKnows
  <2>2. CASE op.mine
    BY <1>1, <1>3, <1>4, <1>6, <2>2 DEF BlogKnows
  <2>3. CASE ~op.mine
    <3>1. blogEditor.id # 0 => blogEditor.id # op.sent.id
      BY <1>1, <1>7, <2>3 DEF BlogSafe, BlogKnows
    <3>2. Knows(blogEditor)' /\ (~dirty => Settled(blogEditor)')
      BY <1>1, <1>2, <1>4, <2>1, <3>1 DEF Knows, Settled
    <3> QED BY <1>1, <1>3, <1>6, <1>7, <2>3, <3>1, <3>2 DEF BlogKnows
  <2> QED BY <2>2, <2>3
<1> QED BY <1>6, <1>8, <1>9, <1>10 DEF BlogSafe

LEMMA BlogPinAnswered ==
  ASSUME BlogSafe, Blog!PinAnswered
  PROVE  BlogSafe'
<1> USE BlogTypes, BlogFacts
<1>1. /\ op # Blog!Free /\ op.kind = "pin" /\ op.step = "write" /\ op' = [op EXCEPT !.step = "read"]
      /\ UNCHANGED <<posts, blogReading, blogList, blogEditor, dirty, confirm, kept, me, restored, signIns, by, work,
                     blogBehind, blogCrossed, stray, unkept, signIns>>
  BY DEF Blog!PinAnswered, Blog!Sent, Blog!listing, Blog!form, Blog!session, Blog!notes
<1>2. BlogTyped /\ op \in BlogCall /\ op.mine = FALSE
  BY <1>1 DEF BlogSafe, BlogMine, BlogCall
<1>3. /\ op' \in BlogCall /\ op'.kind = "pin" /\ op'.sent = op.sent /\ op'.mine = FALSE /\ op'.id = op.id
      /\ op'.step = "read" /\ op' # Blog!Free
  BY <1>1, <1>2 DEF BlogCall, Blog!Free
<1>4. BlogTyped'
  BY <1>1, <1>2, <1>3 DEF BlogTyped
<1>5. BlogListed' /\ BlogAsked'
  BY <1>1, <1>3 DEF BlogSafe, BlogListed, BlogAsked, Writing, Coherent
<1>6. BlogMine' /\ BlogKnows'
  BY <1>1, <1>2, <1>3 DEF BlogSafe, BlogMine, BlogKnows, Knows, Settled
<1>7. BlogForms' /\ BlogKeeps' /\ BlogTyping'
  BY <1>1 DEF BlogSafe, BlogForms, BlogKeeps, BlogTyping, Coherent, Knows
<1> QED BY <1>4, <1>5, <1>6, <1>7 DEF BlogSafe

\* What is out is over, and was served or was not.
LEMMA BlogOver ==
  ASSUME BlogSafe, UNCHANGED <<posts, kept, work>> \/ (Blog!Served /\ Blog!Ages),
         UNCHANGED <<by, me, restored, unkept>>
  PROVE  /\ posts' \in [Blog!Ids -> Blog!Post] /\ \A q \in Blog!Ids : posts'[q].text <= Len(by)
         /\ work' \in [Blog!Members -> Blog!Edits] /\ \A m \in Blog!Members : work'[m] \in {0, work[m]}
         /\ kept' = Blog!NoneKept \/ kept' \in BlogKept
         /\ BlogKeeps'
         /\ kept' = Blog!NoneKept <=> kept = Blog!NoneKept
         /\ kept # Blog!NoneKept => kept'.owner = kept.owner /\ kept'.draft = kept.draft
<1> USE BlogTypes, BlogFacts
<1>1. BlogTyped
  BY DEF BlogSafe
<1>2. CASE UNCHANGED <<posts, kept, work>>
  <2>1. BlogKeeps'
    BY <1>2 DEF BlogSafe, BlogKeeps, Coherent, Knows
  <2> QED BY <1>1, <1>2, <2>1 DEF BlogSafe, BlogTyped, BlogListed
<1>3. CASE Blog!Served /\ Blog!Ages
  <2>1. /\ kept' = Blog!NoneKept <=> kept = Blog!NoneKept
        /\ kept # Blog!NoneKept =>
             kept' \in BlogKept /\ kept'.owner = kept.owner /\ kept'.draft = kept.draft /\ kept'.stale
    BY <1>1, <1>3, BlogAges DEF Blog!Ages
  <2>2. BlogKeeps'
    BY <2>1 DEF BlogSafe, BlogKeeps, Coherent
  <2> QED BY <1>3, <2>1, <2>2, BlogServes
<1> QED BY <1>2, <1>3

LEMMA BlogSaveFails ==
  ASSUME BlogSafe, Blog!SaveFails
  PROVE  BlogSafe'
<1> USE BlogTypes, BlogFacts
<1>1. /\ op # Blog!Free /\ op.kind = "save" /\ op.step = "write" /\ op' = Blog!Free
      /\ \/ UNCHANGED <<posts, kept, work, blogBehind>>
         \/ Blog!Served /\ Blog!Ages /\ blogBehind' = TRUE
      /\ confirm' \in {"none", confirm}
      /\ UNCHANGED <<blogReading, blogList, blogEditor, dirty, me, restored, signIns, by, blogCrossed, stray, unkept>>
  BY DEF Blog!SaveFails, Blog!Sent, Blog!listing
<1>2. BlogTyped /\ op \in BlogCall /\ op.id = 0
  BY <1>1 DEF BlogSafe, BlogAsked
<1>3. /\ posts' \in [Blog!Ids -> Blog!Post] /\ \A q \in Blog!Ids : posts'[q].text <= Len(by)
      /\ work' \in [Blog!Members -> Blog!Edits] /\ \A m \in Blog!Members : work'[m] \in {0, work[m]}
      /\ kept' = Blog!NoneKept \/ kept' \in BlogKept
      /\ BlogKeeps'
      /\ kept' = Blog!NoneKept <=> kept = Blog!NoneKept
      /\ kept # Blog!NoneKept => kept'.owner = kept.owner /\ kept'.draft = kept.draft
  BY <1>1, BlogOver
<1>4. BlogTyped'
  <2>1. blogBehind' \in BOOLEAN
    BY <1>1, <1>2, Zenon DEF BlogTyped
  <2>2. confirm' \in {"none", "leave", "delete"}
    BY <1>1, <1>2 DEF BlogTyped
  <2> QED BY <1>1, <1>2, <1>3, <2>1, <2>2, Zenon DEF BlogTyped
<1>5. BlogListed'
  BY <1>1, <1>3 DEF BlogSafe, BlogListed, Writing
<1>6. BlogAsked' /\ BlogMine'
  BY <1>1 DEF BlogAsked, BlogMine
<1>7. BlogForms' /\ BlogTyping'
  <2>1. BlogForms'
    BY <1>1, <1>2 DEF BlogSafe, BlogForms, Coherent
  <2>2. BlogTyping'
    BY <1>1, <1>2, <1>3 DEF BlogSafe, BlogTyping
  <2> QED BY <2>1, <2>2
<1>8. BlogKnows'
  <2> SUFFICES ASSUME blogEditor # Blog!Closed, ~blogCrossed, ~stray
               PROVE  Knows(blogEditor)' /\ (~dirty => Settled(blogEditor)')
    BY <1>1 DEF BlogKnows
  <2>1. Knows(blogEditor) /\ (~dirty => Settled(blogEditor))
    BY <1>1 DEF BlogSafe, BlogKnows
  <2>2. CASE UNCHANGED posts
    BY <1>1, <2>1, <2>2 DEF Knows, Settled
  <2>3. CASE Blog!Served
    <3>1. PICK q \in Blog!Ids : Blog!PostWrite(q)
      BY <1>1, <2>3 DEF Blog!Served, Blog!Sent
    <3>2. /\ posts'[q].text = op.sent.text /\ posts'[q].pic = posts[q].pic /\ posts'[q] # Blog!NoPost
          /\ \A p \in Blog!Ids \ {q} : posts'[p] = posts[p]
          /\ op.sent.id # 0 => q = op.sent.id /\ posts[q] # Blog!NoPost
          /\ op.sent.id = 0 => posts[q] = Blog!NoPost
      BY <1>1, <3>1, BlogPostWritten
    <3>3. CASE op.mine
      <4>1. blogEditor.id = op.sent.id /\ (dirty \/ blogEditor = op.sent)
        BY <1>1, <3>3 DEF BlogSafe, BlogMine
      <4> QED BY <1>1, <1>2, <2>1, <3>2, <4>1 DEF Knows, Settled
    <3>4. CASE ~op.mine
      <4>1. blogEditor.id # 0 => blogEditor.id # q
        BY <1>1, <1>2, <2>1, <3>2, <3>4 DEF BlogSafe, BlogKnows, Target, Knows
      <4> QED BY <1>1, <1>2, <2>1, <3>2, <4>1 DEF Knows, Settled
    <3> QED BY <3>3, <3>4
  <2> QED BY <1>1, <2>2, <2>3
<1> QED BY <1>3, <1>4, <1>5, <1>6, <1>7, <1>8 DEF BlogSafe

LEMMA BlogCoverFails ==
  ASSUME BlogSafe, Blog!CoverFails
  PROVE  BlogSafe'
<1> USE BlogTypes, BlogFacts
<1> DEFINE d == Blog!partialEditor(blogEditor.serverHasCover)
<1>1. /\ op # Blog!Free /\ op.kind = "save" /\ op.step = "cover" /\ op' = Blog!Free /\ blogBehind' = TRUE
      /\ blogEditor' = (IF op.mine THEN d ELSE blogEditor)
      /\ \/ UNCHANGED <<posts, kept, work, stray>>
         \/ /\ Blog!Served /\ Blog!Ages
            /\ stray' = (stray \/ (op.mine /\ ~Blog!RemovesCover /\ ~blogEditor.serverHasCover))
      /\ UNCHANGED <<blogReading, blogList, dirty, confirm, me, restored, signIns, by, blogCrossed, unkept>>
  BY DEF Blog!CoverFails, Blog!Sent, Blog!listing
<1>2. BlogTyped /\ op \in BlogCall /\ op.id \in Blog!Ids /\ posts[op.id] # Blog!NoPost
  BY <1>1 DEF BlogSafe, BlogAsked
<1>3. /\ posts' \in [Blog!Ids -> Blog!Post] /\ \A q \in Blog!Ids : posts'[q].text <= Len(by)
      /\ work' \in [Blog!Members -> Blog!Edits] /\ \A m \in Blog!Members : work'[m] \in {0, work[m]}
      /\ kept' = Blog!NoneKept \/ kept' \in BlogKept
      /\ BlogKeeps'
      /\ kept' = Blog!NoneKept <=> kept = Blog!NoneKept
      /\ kept # Blog!NoneKept => kept'.owner = kept.owner /\ kept'.draft = kept.draft
  BY <1>1, BlogOver
<1>4. op.mine =>
        /\ blogEditor # Blog!Closed /\ blogEditor.serverHasCover \in BOOLEAN
        /\ d \in Blog!Draft /\ d.id = op.id /\ d.text = blogEditor.text /\ d.cover = blogEditor.cover
        /\ d.pic = blogEditor.pic /\ d.serverHasCover = blogEditor.serverHasCover
        /\ Coherent(d) /\ ((~blogCrossed /\ ~stray) => Knows(d) /\ dirty)
  <2> SUFFICES ASSUME op.mine
               PROVE  /\ blogEditor # Blog!Closed /\ blogEditor.serverHasCover \in BOOLEAN
                      /\ d \in Blog!Draft /\ d.id = op.id /\ d.text = blogEditor.text /\ d.cover = blogEditor.cover
                      /\ d.pic = blogEditor.pic /\ d.serverHasCover = blogEditor.serverHasCover
                      /\ Coherent(d) /\ ((~blogCrossed /\ ~stray) => Knows(d) /\ dirty)
    OBVIOUS
  <2>1. blogEditor # Blog!Closed /\ blogEditor.serverHasCover \in BOOLEAN
    BY <1>1 DEF BlogSafe, BlogMine, Blog!Draft
  <2>2. /\ d \in Blog!Draft /\ d.id = op.id /\ d.text = blogEditor.text /\ d.cover = blogEditor.cover
        /\ d.pic = blogEditor.pic /\ d.serverHasCover = blogEditor.serverHasCover
    BY <1>1, <2>1, BlogPartial
  <2>3. Coherent(d) /\ ((~blogCrossed /\ ~stray) => Knows(d) /\ dirty)
    BY <1>1, BlogPartialKnows
  <2> QED BY <2>1, <2>2, <2>3
<1> HIDE DEF d
<1>5. stray' \in BOOLEAN /\ blogBehind' \in BOOLEAN /\ (stray => stray')
  BY <1>1, <1>2, Zenon DEF BlogTyped
<1>6. BlogTyped'
  <2>1. blogEditor' = Blog!Closed \/ blogEditor' \in Blog!Draft
    BY <1>1, <1>2, <1>4
  <2> QED BY <1>1, <1>2, <1>3, <1>5, <2>1, Zenon DEF BlogTyped
<1>7. BlogListed'
  BY <1>1, <1>3 DEF BlogSafe, BlogListed
<1>8. BlogAsked' /\ BlogMine'
  BY <1>1 DEF BlogAsked, BlogMine
<1>9. /\ blogEditor' = Blog!Closed <=> blogEditor = Blog!Closed
      /\ blogEditor # Blog!Closed =>
           /\ blogEditor'.text = blogEditor.text
           /\ blogEditor'.id # 0 \/ blogEditor' = blogEditor
           /\ blogEditor.id # 0 => blogEditor'.id # 0
           /\ Coherent(blogEditor)'
  BY <1>1, <1>2, <1>4 DEF BlogSafe, BlogForms, Coherent
<1>10. BlogForms' /\ BlogTyping'
  <2>1. BlogForms'
    BY <1>1, <1>2, <1>9 DEF BlogSafe, BlogForms
  <2>2. BlogTyping'
    BY <1>1, <1>2, <1>3, <1>9 DEF BlogSafe, BlogForms, BlogTyping
  <2> QED BY <2>1, <2>2
<1>11. BlogKnows'
  <2> SUFFICES ASSUME blogEditor # Blog!Closed, ~blogCrossed, ~stray, ~stray'
               PROVE  Knows(blogEditor)' /\ (~dirty => Settled(blogEditor)')
    BY <1>1, <1>5, <1>9 DEF BlogKnows
  <2>1. Knows(blogEditor) /\ (~dirty => Settled(blogEditor))
    BY <1>1 DEF BlogSafe, BlogKnows
  <2>2. CASE UNCHANGED posts
    BY <1>1, <1>4, <2>1, <2>2 DEF Knows, Settled
  <2>3. CASE Blog!Served /\ stray' = (stray \/ (op.mine /\ ~Blog!RemovesCover /\ ~blogEditor.serverHasCover))
    <3>1. Blog!CoverWrite
      BY <1>1, <2>3 DEF Blog!Served, Blog!Sent
    <3>2. /\ posts'[op.id].text = posts[op.id].text /\ posts'[op.id].pic = op.sent.pic
          /\ posts'[op.id] # Blog!NoPost
          /\ \A p \in Blog!Ids \ {op.id} : posts'[p] = posts[p]
      BY <1>1, <3>1, BlogCoverWritten
    <3>3. CASE op.mine
      <4>1. /\ blogEditor.serverHasCover <=> op.sent.serverHasCover
            /\ blogEditor.cover = "saved" => op.sent.cover = "saved"
            /\ op.sent.cover = "new" \/ Blog!RemovesCover
            /\ op.sent.cover = "none" => op.sent.pic = -1
        BY <1>1, <3>3 DEF BlogSafe, BlogMine, BlogAsked, Coherent
      <4>2. Blog!RemovesCover \/ blogEditor.serverHasCover
        BY <2>3, <3>3, Zenon
      <4>3. blogEditor.cover # "saved" /\ blogEditor.serverHasCover
        BY <4>1, <4>2 DEF Blog!RemovesCover
      <4> QED BY <1>1, <1>2, <1>4, <3>2, <3>3, <4>3 DEF Knows
    <3>4. CASE ~op.mine
      <4>1. blogEditor.id # 0 => blogEditor.id # op.id
        BY <1>1, <1>2, <3>4 DEF BlogSafe, BlogKnows, Target
      <4> QED BY <1>1, <1>2, <2>1, <3>2, <3>4, <4>1 DEF Knows, Settled
    <3> QED BY <3>3, <3>4
  <2> QED BY <1>1, <2>2, <2>3
<1> QED BY <1>3, <1>6, <1>7, <1>8, <1>10, <1>11 DEF BlogSafe

LEMMA BlogDeleteFails ==
  ASSUME BlogSafe, Blog!DeleteFails
  PROVE  BlogSafe'
<1> USE BlogTypes, BlogFacts
<1>1. /\ op # Blog!Free /\ op.kind = "delete" /\ op.step = "write" /\ op' = Blog!Free
      /\ \/ UNCHANGED <<posts, kept, work, blogBehind, stray>>
         \/ Blog!Served /\ Blog!Ages /\ blogBehind' = TRUE /\ stray' = (stray \/ op.mine)
      /\ confirm' \in {"none", confirm}
      /\ UNCHANGED <<blogReading, blogList, blogEditor, dirty, me, restored, signIns, by, blogCrossed, unkept>>
  BY DEF Blog!DeleteFails, Blog!Sent, Blog!listing
<1>2. BlogTyped /\ op \in BlogCall /\ op.id = 0
  BY <1>1 DEF BlogSafe, BlogAsked
<1>3. /\ posts' \in [Blog!Ids -> Blog!Post] /\ \A q \in Blog!Ids : posts'[q].text <= Len(by)
      /\ work' \in [Blog!Members -> Blog!Edits] /\ \A m \in Blog!Members : work'[m] \in {0, work[m]}
      /\ kept' = Blog!NoneKept \/ kept' \in BlogKept
      /\ BlogKeeps'
      /\ kept' = Blog!NoneKept <=> kept = Blog!NoneKept
      /\ kept # Blog!NoneKept => kept'.owner = kept.owner /\ kept'.draft = kept.draft
  BY <1>1, BlogOver
<1>4. BlogTyped'
  <2>1. blogBehind' \in BOOLEAN /\ stray' \in BOOLEAN
    BY <1>1, <1>2, Zenon DEF BlogTyped
  <2>2. confirm' \in {"none", "leave", "delete"}
    BY <1>1, <1>2 DEF BlogTyped
  <2> QED BY <1>1, <1>2, <1>3, <2>1, <2>2, Zenon DEF BlogTyped
<1>5. BlogListed'
  BY <1>1, <1>3 DEF BlogSafe, BlogListed, Writing
<1>6. BlogAsked' /\ BlogMine'
  BY <1>1 DEF BlogAsked, BlogMine
<1>7. BlogForms' /\ BlogTyping'
  <2>1. BlogForms'
    BY <1>1, <1>2 DEF BlogSafe, BlogForms, Coherent
  <2>2. BlogTyping'
    BY <1>1, <1>2, <1>3 DEF BlogSafe, BlogTyping
  <2> QED BY <2>1, <2>2
<1>8. BlogKnows'
  <2> SUFFICES ASSUME blogEditor # Blog!Closed, ~blogCrossed, ~stray'
               PROVE  Knows(blogEditor)' /\ (~dirty => Settled(blogEditor)')
    BY <1>1 DEF BlogKnows
  <2>1. ~stray
    BY <1>1, Zenon
  <2>2. Knows(blogEditor) /\ (~dirty => Settled(blogEditor))
    BY <1>1, <2>1 DEF BlogSafe, BlogKnows
  <2>3. CASE UNCHANGED posts
    BY <1>1, <2>2, <2>3 DEF Knows, Settled
  <2>4. CASE Blog!Served /\ ~op.mine
    <3>1. Blog!DeleteWrite
      BY <1>1, <2>4 DEF Blog!Served, Blog!Sent
    <3>2. \A p \in Blog!Ids \ {op.sent.id} : posts'[p] = posts[p]
      BY <1>1, <3>1, BlogDeleteWritten
    <3>3. blogEditor.id # 0 => blogEditor.id # op.sent.id
      BY <1>1, <1>2, <2>1, <2>4 DEF BlogSafe, BlogKnows, Target
    <3> QED BY <1>1, <1>2, <2>2, <3>2, <3>3 DEF Knows, Settled
  <2> QED BY <1>1, <2>3, <2>4
<1> QED BY <1>3, <1>4, <1>5, <1>6, <1>7, <1>8 DEF BlogSafe

LEMMA BlogSaveDone ==
  ASSUME BlogSafe, Blog!SaveDone
  PROVE  BlogSafe'
<1> USE BlogTypes, BlogFacts
<1>1. /\ op # Blog!Free /\ op.kind = "save" /\ op.step = "read" /\ op' = Blog!Free
      /\ \/ blogList' = posts /\ blogBehind' = FALSE
         \/ blogList' = blogList /\ blogBehind' = TRUE
      /\ UNCHANGED <<posts, blogReading, kept, me, restored, signIns, by, work, blogCrossed, stray, unkept>>
  BY DEF Blog!SaveDone, Blog!Sent, Blog!Reread, Blog!Refreshed, Blog!session
<1>2. /\ BlogTyped /\ op \in BlogCall /\ op.id \in Blog!Ids /\ op.id # 0 /\ Coherent(op.sent)
      /\ posts[op.id] # Blog!NoPost /\ posts[op.id].text = op.sent.text
      /\ \A m \in Blog!Members : work[m] = 0 \/ work[m] # op.sent.text
      /\ op.sent.id # 0 => op.id = op.sent.id
  BY <1>1 DEF BlogSafe, BlogAsked
<1>3. \/ UNCHANGED <<blogEditor, dirty, confirm>> /\ ~op.mine
      \/ /\ op.mine /\ blogEditor = op.sent /\ blogEditor' = Blog!savedEditor
         /\ dirty' = FALSE /\ confirm' = "none"
      \/ /\ op.mine /\ blogEditor # op.sent /\ blogEditor' = Blog!partialEditor(op.sent.cover # "none")
         /\ UNCHANGED <<dirty, confirm>>
  BY DEF Blog!SaveDone, Blog!applySave, Blog!form
<1>4. BlogListed'
  BY <1>1 DEF BlogSafe, BlogListed
<1>5. BlogAsked' /\ BlogMine' /\ BlogKeeps'
  BY <1>1 DEF BlogSafe, BlogAsked, BlogMine, BlogKeeps, Coherent, Knows
<1>6. blogList' \in [Blog!Ids -> Blog!Post] /\ blogBehind' \in BOOLEAN
  BY <1>1, <1>2 DEF BlogTyped
<1>7. CASE ~op.mine
  <2>1. UNCHANGED <<blogEditor, dirty, confirm>>
    BY <1>3, <1>7
  <2>2. BlogTyped'
    BY <1>1, <1>2, <1>6, <2>1, Zenon DEF BlogTyped
  <2>3. BlogKnows'
    BY <1>1, <1>7, <2>1 DEF BlogSafe, BlogKnows, Knows, Settled
  <2>4. BlogForms' /\ BlogTyping'
    BY <1>1, <2>1 DEF BlogSafe, BlogForms, BlogTyping, Coherent
  <2> QED BY <1>4, <1>5, <2>2, <2>3, <2>4 DEF BlogSafe
<1>8. CASE op.mine /\ blogEditor = op.sent
  <2>1. blogEditor' = Blog!savedEditor /\ dirty' = FALSE /\ confirm' = "none"
    BY <1>3, <1>8
  <2>2. blogEditor \in Blog!Draft /\ blogEditor # Blog!Closed /\ Coherent(blogEditor)
    BY <1>1, <1>2, <1>8
  <2> DEFINE cov == IF blogEditor.cover = "none" THEN "none" ELSE "saved"
             has == blogEditor.cover # "none"
  <2>3. blogEditor' = [blogEditor EXCEPT !.id = op.id, !.cover = cov, !.serverHasCover = has]
    BY <2>1 DEF Blog!savedEditor
  <2>4. /\ cov \in {"none", "saved", "new"} /\ has \in BOOLEAN /\ (cov = "none" <=> ~has) /\ cov # "new"
        /\ (cov = "none" <=> blogEditor.cover = "none")
    OBVIOUS
  <2> HIDE DEF cov, has
  <2>5. /\ blogEditor' \in Blog!Draft /\ blogEditor'.id = op.id /\ blogEditor'.text = blogEditor.text
        /\ blogEditor'.cover = cov /\ blogEditor'.pic = blogEditor.pic /\ (blogEditor'.serverHasCover <=> has)
    <3>1. blogEditor' \in Blog!Draft
      BY <1>2, <2>2, <2>3, <2>4 DEF Blog!Draft
    <3>2. /\ blogEditor'.id = op.id /\ blogEditor'.text = blogEditor.text
          /\ blogEditor'.cover = cov /\ blogEditor'.pic = blogEditor.pic /\ blogEditor'.serverHasCover = has
      BY <2>2, <2>3 DEF Blog!Draft
    <3> QED BY <3>1, <3>2
  <2>6. dirty' \in BOOLEAN /\ confirm' \in {"none", "leave", "delete"}
    BY <2>1, Zenon
  <2>7. BlogTyped'
    BY <1>1, <1>2, <1>6, <2>5, <2>6, Zenon DEF BlogTyped
  <2>8. Coherent(blogEditor)' /\ blogEditor' # Blog!Closed
    BY <1>1, <1>2, <2>2, <2>4, <2>5 DEF Coherent
  <2>9. BlogKnows'
    <3> SUFFICES ASSUME ~blogCrossed, ~stray PROVE Knows(blogEditor)' /\ Settled(blogEditor)'
      BY <1>1 DEF BlogKnows
    <3>1. posts[op.id].pic = op.sent.pic
      BY <1>1, <1>8, <2>2 DEF BlogSafe, BlogKnows
    <3>2. posts'[op.id] = posts[op.id] /\ blogEditor'.pic = op.sent.pic /\ blogEditor'.text = op.sent.text
      BY <1>1, <1>8, <2>5
    <3>3. ~blogEditor'.serverHasCover => op.sent.pic = -1
      BY <1>8, <2>2, <2>4, <2>5 DEF Coherent
    <3>4. Knows(blogEditor)'
      BY <1>2, <2>5, <3>1, <3>2, <3>3 DEF Knows
    <3>5. Settled(blogEditor)'
      BY <1>2, <2>4, <2>5, <3>1, <3>2 DEF Settled
    <3> QED BY <3>4, <3>5
  <2>10. BlogForms'
    BY <1>1, <1>2, <2>1, <2>2, <2>5, <2>8 DEF BlogSafe, BlogForms
  <2>11. BlogTyping'
    BY <1>1, <1>2, <1>8, <2>1 DEF BlogSafe, BlogTyping
  <2> QED BY <1>4, <1>5, <2>7, <2>9, <2>10, <2>11 DEF BlogSafe
<1>9. CASE op.mine /\ blogEditor # op.sent
  <2> DEFINE has == op.sent.cover # "none"
  <2>1. blogEditor' = Blog!partialEditor(has) /\ UNCHANGED <<dirty, confirm>>
    BY <1>3, <1>9
  <2>2. has \in BOOLEAN
    OBVIOUS
  <2>3. has <=> op.sent.cover # "none"
    OBVIOUS
  <2> HIDE DEF has
  <2>4. /\ blogEditor' \in Blog!Draft /\ blogEditor'.id = op.id /\ blogEditor'.text = blogEditor.text
        /\ blogEditor'.cover = blogEditor.cover
        /\ blogEditor'.pic = blogEditor.pic /\ blogEditor'.serverHasCover = has
        /\ blogEditor # Blog!Closed /\ Coherent(blogEditor)
    BY <1>1, <1>9, <2>1, <2>2, BlogPartial
  <2>5. /\ dirty
        /\ blogEditor.cover = "saved" => op.sent.cover = "saved" /\ blogEditor.pic = op.sent.pic
    BY <1>1, <1>9 DEF BlogSafe, BlogMine
  <2>6. BlogTyped'
    BY <1>1, <1>2, <1>6, <2>1, <2>4, Zenon DEF BlogTyped
  <2>7. Coherent(blogEditor)' /\ blogEditor' # Blog!Closed
    BY <1>1, <1>2, <2>3, <2>4, <2>5 DEF Coherent
  <2>8. BlogKnows'
    <3> SUFFICES ASSUME ~blogCrossed, ~stray PROVE Knows(blogEditor)'
      BY <1>1, <2>1, <2>5 DEF BlogKnows
    <3>1. posts[op.id].pic = op.sent.pic
      BY <1>1, <1>9, <2>4 DEF BlogSafe, BlogKnows
    <3> QED BY <1>1, <1>2, <2>3, <2>4, <2>5, <3>1 DEF Knows, Coherent
  <2>9. BlogForms'
    BY <1>1, <1>2, <2>1, <2>4, <2>5, <2>7 DEF BlogSafe, BlogForms
  <2>10. BlogTyping'
    BY <1>1, <2>1, <2>4 DEF BlogSafe, BlogTyping
  <2> QED BY <1>4, <1>5, <2>6, <2>8, <2>9, <2>10 DEF BlogSafe
<1> QED BY <1>7, <1>8, <1>9

LEMMA BlogDeleteDone ==
  ASSUME BlogSafe, Blog!DeleteDone
  PROVE  BlogSafe'
<1> USE BlogTypes, BlogFacts
<1>1. /\ op # Blog!Free /\ op.kind = "delete" /\ op.step = "read" /\ op' = Blog!Free
      /\ \/ blogList' = posts /\ blogBehind' = FALSE
         \/ blogList' = [blogList EXCEPT ![op.sent.id] = Blog!NoPost] /\ UNCHANGED blogBehind
      /\ \/ /\ op.mine /\ work' = [work EXCEPT ![me] = 0] /\ blogEditor' = Blog!Closed /\ dirty' = FALSE
            /\ confirm' = "none" /\ blogCrossed' = FALSE /\ stray' = FALSE
         \/ ~op.mine /\ UNCHANGED <<blogEditor, dirty, confirm, work, blogCrossed, stray>>
      /\ UNCHANGED <<posts, blogReading, kept, me, restored, signIns, by, unkept>>
  BY DEF Blog!DeleteDone, Blog!Sent, Blog!Refreshed, Blog!session, Blog!close, Blog!form
<1>2. /\ BlogTyped /\ op \in BlogCall /\ op.id = 0 /\ op.sent.id \in Blog!Ids
      /\ posts[op.sent.id] = Blog!NoPost /\ me \in Blog!Members
  BY <1>1 DEF BlogSafe, BlogAsked, BlogTyped
<1>3. /\ blogList' \in [Blog!Ids -> Blog!Post]
      /\ \A q \in Blog!Ids : blogList'[q] = posts[q] \/ (blogList'[q] = blogList[q] /\ q # op.sent.id)
  <2>1. posts \in [Blog!Ids -> Blog!Post] /\ blogList \in [Blog!Ids -> Blog!Post]
    BY <1>2 DEF BlogTyped
  <2>2. CASE blogList' = posts
    BY <2>1, <2>2
  <2>3. CASE blogList' = [blogList EXCEPT ![op.sent.id] = Blog!NoPost]
    BY <1>2, <2>1, <2>3
  <2> QED BY <1>1, <2>2, <2>3
<1>4. BlogListed'
  <2>1. Target = op.sent.id
    BY <1>2 DEF Target
  <2>2. \A q \in Blog!Ids : posts'[q].text <= Len(by') /\ blogList'[q].text <= Len(by')
    BY <1>1, <1>3 DEF BlogSafe, BlogListed
  <2>3. (blogReading = "ready" /\ ~blogBehind') => \A q \in Blog!Ids : blogList'[q] = posts[q]
    BY <1>1, <1>3, <2>1 DEF BlogSafe, BlogListed
  <2> QED BY <1>1, <2>2, <2>3 DEF BlogListed
<1>5. BlogAsked' /\ BlogMine' /\ BlogKeeps'
  BY <1>1 DEF BlogSafe, BlogAsked, BlogMine, BlogKeeps, Coherent, Knows
<1>6. CASE op.mine
  <2>1. /\ work' = [work EXCEPT ![me] = 0] /\ blogEditor' = Blog!Closed /\ dirty' = FALSE
        /\ confirm' = "none" /\ blogCrossed' = FALSE /\ stray' = FALSE
    BY <1>1, <1>6
  <2>2. /\ work' \in [Blog!Members -> Blog!Edits] /\ work'[me] = 0
        /\ \A m \in Blog!Members \ {me} : work'[m] = work[m]
    BY <1>2, <2>1 DEF BlogTyped, Blog!Edits
  <2>3. dirty' \in BOOLEAN /\ blogCrossed' \in BOOLEAN /\ stray' \in BOOLEAN /\ blogBehind' \in BOOLEAN
    BY <1>1, <1>2, <2>1, Zenon DEF BlogTyped
  <2>4. BlogTyped'
    BY <1>1, <1>2, <1>3, <2>1, <2>2, <2>3, Zenon DEF BlogTyped
  <2>5. BlogKnows' /\ BlogForms'
    BY <1>1, <2>1 DEF BlogSafe, BlogKnows, BlogForms
  <2>6. BlogTyping'
    BY <1>1, <1>2, <2>1, <2>2 DEF BlogSafe, BlogTyping
  <2> QED BY <1>4, <1>5, <2>4, <2>5, <2>6 DEF BlogSafe
<1>7. CASE ~op.mine
  <2>1. UNCHANGED <<blogEditor, dirty, confirm, work, blogCrossed, stray>>
    BY <1>1, <1>7
  <2>2. blogBehind' \in BOOLEAN
    BY <1>1, <1>2, Zenon DEF BlogTyped
  <2>3. BlogTyped'
    BY <1>1, <1>2, <1>3, <2>1, <2>2, Zenon DEF BlogTyped
  <2>4. BlogKnows'
    BY <1>1, <1>7, <2>1 DEF BlogSafe, BlogKnows, Knows, Settled
  <2>5. BlogForms' /\ BlogTyping'
    BY <1>1, <2>1 DEF BlogSafe, BlogForms, BlogTyping, Coherent
  <2> QED BY <1>4, <1>5, <2>3, <2>4, <2>5 DEF BlogSafe
<1> QED BY <1>6, <1>7

LEMMA BlogPinDone ==
  ASSUME BlogSafe, Blog!PinDone
  PROVE  BlogSafe'
<1> USE BlogTypes, BlogFacts
<1>1. /\ op # Blog!Free /\ op.kind = "pin" /\ op.step = "read" /\ op' = Blog!Free
      /\ \/ blogList' = posts /\ blogBehind' = FALSE /\ UNCHANGED blogReading
         \/ blogReading' = "error" /\ UNCHANGED <<blogList, blogBehind>>
      /\ UNCHANGED <<posts, blogEditor, dirty, confirm, kept, me, restored, signIns, by, work,
                     blogCrossed, stray, unkept>>
  BY DEF Blog!PinDone, Blog!Sent, Blog!Refreshed, Blog!session, Blog!form
<1>2. BlogTyped /\ ~op.mine /\ restored
  BY <1>1 DEF BlogSafe, BlogMine, BlogAsked
<1>3. blogBehind' \in BOOLEAN /\ blogReading' \in {"loading", "ready", "error"}
  <2>1. blogBehind' \in BOOLEAN
    BY <1>1, <1>2, Zenon DEF BlogTyped
  <2>2. blogReading' \in {"loading", "ready", "error"}
    BY <1>1, <1>2 DEF BlogTyped
  <2> QED BY <2>1, <2>2
<1>4. BlogTyped'
  BY <1>1, <1>2, <1>3, Zenon DEF BlogTyped
<1>5. BlogListed' /\ BlogAsked' /\ BlogMine'
  BY <1>1 DEF BlogSafe, BlogListed, BlogAsked, BlogMine
<1>6. BlogKnows'
  BY <1>1, <1>2 DEF BlogSafe, BlogKnows, Knows, Settled
<1>7. BlogForms' /\ BlogKeeps' /\ BlogTyping'
  BY <1>1, <1>2 DEF BlogSafe, BlogForms, BlogKeeps, BlogTyping, Coherent, Knows
<1> QED BY <1>4, <1>5, <1>6, <1>7 DEF BlogSafe

LEMMA BlogSafeNext ==
  ASSUME BlogSafe, Blog!Next
  PROVE  BlogSafe'
<1>1. CASE \E m \in Blog!Members : Blog!SignIn(m)
  BY <1>1, BlogSignsIn
<1>2. CASE \E q \in Blog!Ids : Blog!Open(q) \/ Blog!Pin(q)
  BY <1>2, BlogOpens, BlogPins
<1>3. CASE Blog!Load \/ Blog!Retry \/ Blog!New \/ Blog!Edit
  BY <1>3, BlogLoads, BlogRetries, BlogNews, BlogEdits
<1>4. CASE Blog!AskDelete \/ Blog!CancelConfirm
  BY <1>4, BlogAsksBar DEF Blog!AskDelete, Blog!CancelConfirm
<1>5. CASE Blog!Back
  <2>1. CASE Blog!Ask("leave")
    BY <2>1, BlogAsksBar
  <2>2. CASE Blog!Editing /\ ~dirty /\ Blog!Shuts /\ UNCHANGED work
    BY <2>2, BlogShuts DEF Blog!Editing
  <2> QED BY <1>5, <2>1, <2>2 DEF Blog!Back
<1>6. CASE Blog!Discard
  BY <1>6, BlogShuts DEF Blog!Discard, Blog!Editing
<1>7. CASE Blog!Save \/ Blog!Delete
  BY <1>7, BlogSaves
<1>8. CASE Blog!Answered
  BY <1>8, BlogSaveTaken, BlogCoverTaken, BlogSaveFails, BlogCoverFails, BlogSaveDone, BlogDeleteTaken,
     BlogDeleteFails, BlogDeleteDone, BlogPinAnswered, BlogPinDone DEF Blog!Answered
<1>9. CASE Blog!Expires
  BY <1>9, BlogReadExpires, BlogSaveExpires, BlogCoverExpires DEF Blog!Expires
<1> QED BY <1>1, <1>2, <1>3, <1>4, <1>5, <1>6, <1>7, <1>8, <1>9 DEF Blog!Next

LEMMA BlogSafeStays ==
  ASSUME BlogSafe, UNCHANGED blogVars
  PROVE  BlogSafe'
<1>1. BlogTyped' /\ BlogListed' /\ BlogAsked'
  BY DEF blogVars, BlogSafe, BlogTyped, BlogListed, BlogAsked, Writing, Target, Coherent, Blog!RemovesCover
<1>2. BlogMine' /\ BlogKnows'
  BY DEF blogVars, BlogSafe, BlogMine, BlogKnows, Knows, Settled, Target
<1>3. BlogForms' /\ BlogKeeps' /\ BlogTyping'
  BY DEF blogVars, BlogSafe, BlogForms, BlogKeeps, BlogTyping, Coherent, Knows
<1> QED BY <1>1, <1>2, <1>3 DEF BlogSafe

LEMMA BlogSettles == BlogSafe => Blog!SettledIsServed /\ Blog!NothingUndone /\ Blog!TypeOK
<1> SUFFICES ASSUME BlogSafe PROVE Blog!SettledIsServed /\ Blog!NothingUndone /\ Blog!TypeOK
  OBVIOUS
<1> USE BlogTypes, BlogFacts
<1>1. BlogTyped
  BY DEF BlogSafe
<1>2. (me # 0 /\ blogReading = "ready" /\ op = Blog!Free /\ ~blogBehind) => blogList = posts
  BY <1>1 DEF BlogSafe, BlogListed, Writing, BlogTyped
<1>3. (blogEditor # Blog!Closed /\ blogEditor.id # 0 /\ ~dirty /\ op = Blog!Free /\ ~blogCrossed /\ ~stray) =>
        /\ posts[blogEditor.id] = [text |-> blogEditor.text, pic |-> blogEditor.pic]
        /\ (blogEditor.cover = "none") = (blogEditor.pic = -1)
  <2> SUFFICES ASSUME blogEditor # Blog!Closed, blogEditor.id # 0, ~dirty, op = Blog!Free, ~blogCrossed, ~stray
               PROVE  /\ posts[blogEditor.id] = [text |-> blogEditor.text, pic |-> blogEditor.pic]
                      /\ (blogEditor.cover = "none") = (blogEditor.pic = -1)
    OBVIOUS
  <2>1. Knows(blogEditor) /\ Settled(blogEditor) /\ Coherent(blogEditor)
    BY DEF BlogSafe, BlogKnows, BlogForms
  <2>2. /\ posts[blogEditor.id] \in Blog!Post
        /\ posts[blogEditor.id].text = blogEditor.text /\ posts[blogEditor.id].pic = blogEditor.pic
    BY <1>1, <2>1 DEF Settled
  <2>3. posts[blogEditor.id] = [text |-> blogEditor.text, pic |-> blogEditor.pic]
    BY <2>2 DEF Blog!Post, Blog!NoPost
  <2> QED BY <2>1, <2>3 DEF Coherent
<1>4. Blog!NothingUndone
  BY DEF BlogSafe, BlogTyping, BlogForms, Blog!NothingUndone, Blog!Dirty
<1>5. Blog!TypeOK
  BY <1>1 DEF BlogTyped, Blog!TypeOK, BlogCall, BlogKept, Blog!clock, Blog!Edits
<1> QED BY <1>2, <1>3, <1>4, <1>5 DEF Blog!SettledIsServed

\* What is open keeps its id until it is closed.
LEMMA BlogKeepsId ==
  ASSUME BlogSafe, Blog!Next, ~Blog!SaveDone, ~Blog!CoverFails
  PROVE  blogEditor = Blog!Closed \/ blogEditor' = Blog!Closed \/ blogEditor'.id = blogEditor.id
<1> USE DEF Blog!listing, Blog!form, Blog!session, Blog!notes
<1>1. CASE Blog!Load
  BY <1>1 DEF BlogSafe, BlogForms, Blog!Load, Blog!takeKept
<1>2. CASE Blog!New \/ \E q \in Blog!Ids : Blog!Open(q)
  BY <1>2 DEF Blog!New, Blog!Open, Blog!Listed
<1>3. CASE Blog!AskDelete \/ Blog!CancelConfirm \/ Blog!Back \/ Blog!Discard
  BY <1>3 DEF Blog!AskDelete, Blog!CancelConfirm, Blog!Back, Blog!Discard, Blog!Ask, Blog!Shuts, Blog!close
<1>4. CASE Blog!Retry \/ (\E m \in Blog!Members : Blog!SignIn(m)) \/ (\E q \in Blog!Ids : Blog!Pin(q))
           \/ Blog!Save \/ Blog!Delete
  BY <1>4 DEF Blog!Retry, Blog!SignIn, Blog!Pin, Blog!Save, Blog!Delete, Blog!Sends
<1>5. CASE Blog!Edit
  <2>1. blogEditor = Blog!Closed \/ blogEditor \in Blog!Draft
    BY DEF BlogSafe, BlogTyped
  <2>2. PICK t, e : /\ blogEditor' = [e EXCEPT !.text = t]
                    /\ \/ e = blogEditor
                       \/ \E c : e = [blogEditor EXCEPT !.cover = "new", !.pic = c]
                       \/ e = [blogEditor EXCEPT !.cover = "none", !.pic = -1]
    BY <1>5, Zenon DEF Blog!Edit
  <2>3. CASE blogEditor \in Blog!Draft
    <3>1. DOMAIN e = DOMAIN blogEditor /\ e.id = blogEditor.id
      BY <2>2, <2>3 DEF Blog!Draft
    <3> QED BY <2>2, <2>3, <3>1 DEF Blog!Draft
  <2> QED BY <2>1, <2>3
<1>6. CASE Blog!Answered
  BY <1>6 DEF Blog!Answered, Blog!SaveTaken, Blog!CoverTaken, Blog!SaveFails, Blog!DeleteTaken, Blog!DeleteFails,
     Blog!DeleteDone, Blog!close, Blog!PinAnswered, Blog!PinDone
<1>7. CASE Blog!Expires
  BY <1>7 DEF Blog!Expires, Blog!LoadExpires, Blog!SaveExpires, Blog!PinExpires, Blog!CoverReadExpires,
     Blog!expireOnce, Blog!keepThenExpire, Blog!Leaves
<1> QED BY <1>1, <1>2, <1>3, <1>4, <1>5, <1>6, <1>7 DEF Blog!Next

\* The save that finds its editor has written the post that is open there, or
\* a new one for the draft that is.
LEMMA BlogSends ==
  ASSUME BlogSafe, Blog!Next
  PROVE  Blog!SendsWhatWasArmed
<1>1. CASE Blog!SaveDone \/ Blog!CoverFails
  <2> SUFFICES ASSUME blogEditor # Blog!Closed, blogEditor'.id # blogEditor.id
               PROVE  blogEditor.id = 0 /\ op.kind = "save" /\ op.sent.id = 0 /\ op.mine
    BY DEF Blog!SendsWhatWasArmed
  <2>1. op # Blog!Free /\ op.kind = "save" /\ op.step # "write"
    BY <1>1 DEF Blog!SaveDone, Blog!CoverFails, Blog!Sent
  <2>2. op.mine
    BY <1>1 DEF Blog!SaveDone, Blog!CoverFails, Blog!applySave, Blog!form
  <2>3. blogEditor \in Blog!Draft
    BY DEF BlogSafe, BlogTyped
  <2>4. blogEditor'.id = op.id
    BY <1>1, <2>2, <2>3 DEF Blog!SaveDone, Blog!CoverFails, Blog!applySave, Blog!savedEditor, Blog!partialEditor, Blog!Draft
  <2>5. blogEditor.id = op.sent.id /\ (op.sent.id # 0 => op.id = op.sent.id)
    BY <2>1, <2>2 DEF BlogSafe, BlogMine, BlogAsked
  <2> QED BY <2>1, <2>2, <2>4, <2>5
<1>2. CASE ~Blog!SaveDone /\ ~Blog!CoverFails
  BY <1>2, BlogKeepsId DEF Blog!SendsWhatWasArmed
<1> QED BY <1>1, <1>2
=============================================================================
