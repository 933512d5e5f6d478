---------------------------- MODULE MCRecordRules ----------------------------
(* Calls over a few taxa, names and references whose rows change while     *)
(* they run, calls that only look at the record, one for every value, and  *)
(* identifiers in which one character is wrong or two are swapped.         *)
EXTENDS RecordRules

CONSTANTS t1, t2, n1, r1

AllRecords == {t1, t2, n1, r1}
Tables == [x \in AllRecords |-> CASE x \in {t1, t2} -> "taxon" [] x = n1 -> "name" [] x = r1 -> "reference"]

-----------------------------------------------------------------------------
(* Values *)
(* A text that is no identifier is one token that no algorithm takes.      *)
Text(s, n) ==
  [str |-> s, num |-> NaN, scan |-> NaN, len |-> n, type |-> "text", tokens |-> <<<<Other>>>>]
Number(i, s, n) == [str |-> s, num |-> i, scan |-> i, len |-> n, type |-> "number"]
Identifier(tokens) == [Text("identifier", 8) EXCEPT !.tokens = tokens]

Empty == [Text("", 0) EXCEPT !.tokens = <<>>]
T1 == Text("t1", 2)
T2 == Text("t2", 2)
N1 == Text("n1", 2)
R1 == Text("r1", 2)
species == Text("species", 7)
genus == Text("genus", 5)
zoo == Text("zoo", 3)
bot == Text("bot", 3)
prefixed == [Text("12 pp", 5) EXCEPT !.scan = 12]
twelve == Number(12, "12", 2)
million == Number(1000000, "1000000", 7)
jsonMillion == Number(1000000, "1e+06", 5)
trueText == Text("true", 4)
trueBool == [str |-> "true", num |-> NaN, scan |-> NaN, len |-> 4, type |-> "bool"]
year == Text("current_year", 12)
yearPlus5 == [year EXCEPT !.str = "current_year + 5"]

Lit(v) == [kind |-> "literal", is |-> v]
List(vs) == [kind |-> "list", is |-> vs]
Pattern(strings) == [kind |-> "pattern", is |-> strings]
Own(f) == [kind |-> "field", is |-> f]

(* Conditions and rules *)
If(rel, f, op, w) == [relation |-> rel, field |-> f, operator |-> op, value |-> w]
IfOwn(f, op, w) == If(OwnRecord, f, op, w)

Rule0 == [active |-> TRUE, priority |-> 1, conditions |-> <<>>, validator |-> "absence",
          field |-> "v", relation |-> NoName, relatedField |-> "v", skip |-> TRUE,
          allowed |-> {}, min |-> NoBound, max |-> NoBound, algorithm |-> "luhn"]
Through(v, rel, f, theirs) ==
  [Rule0 EXCEPT !.validator = v, !.relation = rel, !.field = f, !.relatedField = theirs]
When(r, conditions) == [r EXCEPT !.conditions = conditions]

(* Relations *)
Step(from, fc, to, tc, alias, where) ==
  [from |-> from, fromColumn |-> fc, to |-> to, toColumn |-> tc, alias |-> alias, where |-> where]
One(target, alias, join) ==
  [targetTable |-> target, targetAlias |-> alias, cardinality |-> "one", join |-> join]
ToName == Step("taxon", "nameID", "name", "id", NoName, {})

TaxonRelations ==
  [name |-> One("name", NoName, <<ToName>>),
   animal |-> One("name", "m", <<Step("taxon", "nameID", "name", "id", "m",
                                      {[column |-> "code", equals |-> zoo]})>>),
   parent |-> One("taxon", "p", <<Step("taxon", "parentID", "taxon", "id", "p", {})>>),
   reference |-> One("reference", NoName,
                     <<ToName, Step("name", "refID", "reference", "id", NoName, {})>>),
   (* a self-join without an alias *)
   again |-> One("taxon", NoName, <<Step("taxon", "parentID", "taxon", "id", NoName, {})>>),
   (* its first join uses what its second brings in *)
   swapped |-> One("reference", NoName,
                   <<Step("name", "refID", "reference", "id", NoName, {}), ToName>>),
   (* its join uses what nothing brings in *)
   early |-> One("reference", NoName, <<Step("name", "refID", "reference", "id", NoName, {})>>),
   names |-> [One("name", NoName, <<ToName>>) EXCEPT !.cardinality = "many"]]
NameRelations ==
  [usage |-> One("taxon", NoName, <<Step("name", "id", "taxon", "nameID", NoName, {})>>)]

(* Rows *)
Taxon(id, name, parent, code) == [id |-> id, nameID |-> name, parentID |-> parent, code |-> code]
Name(id, rank, code, ref) == [id |-> id, rank |-> rank, code |-> code, refID |-> ref]
Ref(pages) == [id |-> R1, pages |-> pages]

Base ==
  [x \in AllRecords |->
     CASE x = t1 -> Taxon(T1, N1, T2, zoo)
       [] x = t2 -> Taxon(T2, N1, NULL, bot)
       [] x = n1 -> Name(N1, species, zoo, R1)
       [] x = r1 -> Ref(million)]
NoRows == [x \in AllRecords |-> {}]

Call == [record |-> t1, relations |-> TaxonRelations, rules |-> <<>>, databases |-> {Base},
         rows |-> NoRows, maxWrites |-> 0, maxFaults |-> 0, intended |-> <<>>]

-----------------------------------------------------------------------------
(* Gates on the name that exclude each other, the parent a foreign key.    *)
Gates ==
  [Call EXCEPT
     !.rules =
       <<When(Through("foreign_key_exists", "parent", "parentID", "id"),
              <<If("name", "rank", "equals", Lit(species))>>),
         [When(Through("related_field_equals", "name", "code", "code"),
               <<If("name", "rank", "not_equals", Lit(species))>>) EXCEPT !.priority = 0],
         [Through("related_field_equals", "again", "code", "code") EXCEPT !.active = FALSE],
         When(Through("related_field_not_equals", "parent", "code", "code"),
              <<If("animal", "code", "equals", Own("code")), IfOwn("parentID", "exists", Lit(NULL))>>)>>,
     !.rows =
       [NoRows EXCEPT ![n1] = {Absent, Name(N1, genus, bot, R1), Name(N1, species, zoo, R1)},
                      ![t2] = {Absent, Taxon(T2, N1, NULL, zoo)},
                      ![t1] = {Absent, Taxon(T1, NULL, T2, bot)}],
     !.maxWrites = 3, !.maxFaults = 1]

(* A chain of joins, rules that skip nothing, and a set of JSON numbers.   *)
Chain ==
  [Call EXCEPT
     !.rules =
       <<[Through("related_field_in_set", "reference", "pages", "pages")
            EXCEPT !.allowed = {jsonMillion, prefixed}],
         [When(Through("related_field_in_set", "swapped", "pages", "pages"),
               <<If("reference", "pages", "in", List({jsonMillion, twelve}))>>)
            EXCEPT !.allowed = {million}, !.skip = FALSE],
         [Through("related_field_equals", "reference", "pages", "pages") EXCEPT !.skip = FALSE],
         [Through("related_field_not_equals", "name", "parentID", "refID") EXCEPT !.skip = FALSE],
         Through("related_field_equals", "early", "missing", "pages")>>,
     !.rows =
       [NoRows EXCEPT ![r1] = {Absent, Ref(NULL), Ref(Empty), Ref(prefixed)},
                      ![n1] = {Name(N1, species, zoo, NULL), Name(N1, species, zoo, Empty)}],
     !.maxWrites = 3, !.maxFaults = 1]

(* Two taxa use one name: LIMIT 1 takes either.                            *)
Usage ==
  [Call EXCEPT
     !.record = n1, !.relations = NameRelations,
     !.rules =
       <<When(Through("related_field_equals", "usage", "code", "code"),
              <<If("usage", "parentID", "exists", Lit(NULL))>>),
         When(Through("related_field_not_equals", "usage", "code", "code"),
              <<If("usage", "parentID", "not_exists", Lit(NULL))>>)>>,
     !.rows =
       [NoRows EXCEPT ![t1] = {Absent, Taxon(T1, Text("n2", 2), T2, bot)},
                      ![t2] = {Absent, Taxon(T2, N1, T1, zoo)}],
     !.maxWrites = 3, !.maxFaults = 1]

(* Rules that cannot be evaluated, behind gates that may shut.             *)
Unready ==
  <<Through("related_field_equals", "again", "code", "code"),
    Through("related_field_in_set", "early", "code", "code"),
    Through("related_field_not_equals", "names", "code", "code"),
    Through("foreign_key_exists", "unheard", "code", "code"),
    [Rule0 EXCEPT !.validator = "range", !.field = "code"],
    [Rule0 EXCEPT !.validator = "length", !.field = "code", !.max = year],
    [Rule0 EXCEPT !.validator = "check_digit", !.field = "code", !.algorithm = NoName],
    [Rule0 EXCEPT !.validator = "unheard"],
    When(Rule0, <<If("unheard", "code", "exists", Lit(NULL)), IfOwn("code", "equals", Lit(bot))>>)>>
Refusal(rules) ==
  [Call EXCEPT !.rules = rules,
               !.rows = [NoRows EXCEPT ![n1] = {Name(N1, genus, zoo, R1)}, ![t1] = {Absent}],
               !.maxWrites = 1]
Gate1 == If("name", "rank", "equals", Lit(genus))
Refusals ==
  [k \in DOMAIN Unready |-> Refusal(<<Rule0, Unready[k]>>)]
  \o [k \in DOMAIN Unready |-> Refusal(<<[Unready[k] EXCEPT !.active = FALSE]>>)]
  \o [k \in DOMAIN Unready |-> Refusal(<<When(Unready[k], <<Gate1>> \o Unready[k].conditions)>>)]

(* Every operator on the record's own v, before every validator of it.     *)
OwnValues == {NULL, Empty, species, prefixed, twelve, million, trueText, trueBool, Identifier(<<>>)}
OwnConditions ==
  <<IfOwn("v", "exists", Lit(NULL)), IfOwn("v", "not_exists", Lit(NULL)),
    IfOwn("v", "equals", Lit(jsonMillion)), IfOwn("v", "not_equals", Lit(species)),
    IfOwn("v", "equals", List({species})), IfOwn("v", "in", List({species, jsonMillion})),
    IfOwn("v", "not_in", List({species, NULL})), IfOwn("v", "greater_than", Lit(twelve)),
    IfOwn("v", "less_than", Lit(million)), IfOwn("v", "contains", Pattern({"12", "12 pp"})),
    IfOwn("v", "matches", Pattern({"species", "<nil>"})), IfOwn("v", "equals", Own("w")),
    IfOwn("v", "equals", Lit(trueBool))>>
OwnRules ==
  <<Rule0,
    [Rule0 EXCEPT !.validator = "range", !.min = twelve, !.max = year],
    [Rule0 EXCEPT !.validator = "range", !.max = yearPlus5],
    [Rule0 EXCEPT !.validator = "length", !.min = twelve],
    [Rule0 EXCEPT !.validator = "length", !.max = prefixed],
    [Rule0 EXCEPT !.validator = "length", !.min = Number(3, "3", 1), !.max = Number(7, "7", 1)]>>
OwnDatabases == {[Base EXCEPT ![t1] = [v |-> v, w |-> twelve]] : v \in OwnValues}
                \cup {[Base EXCEPT ![t1] = [w |-> twelve]]}
Values ==
  [Call EXCEPT
     !.rules = OwnRules \o [k \in DOMAIN OwnConditions |-> When(Rule0, <<OwnConditions[k]>>)],
     !.databases = OwnDatabases]

(* What was meant, and what was typed.                                     *)
Known ==
  <<<<"orcid", <<0,0,0,0,0,0,0,2,1,8,2,5,0,0,9,7>>>>, <<"orcid", <<0,0,0,0,0,0,0,2,1,6,9,4,2,3,3,X>>>>,
   <<"issn", <<0,3,7,8,5,9,5,5>>>>, <<"issn", <<2,4,3,4,5,6,1,X>>>>,
   <<"isbn10", <<0,3,0,6,4,0,6,1,5,2>>>>, <<"isbn10", <<0,8,0,4,4,2,9,5,7,X>>>>,
   <<"isbn13", <<9,7,8,0,3,0,6,4,0,6,1,5,7>>>>, <<"isbn13", <<9,7,8,1,6,0,5,0,2,7,4,1,8>>>>,
   <<"rorid", <<0,5,13,29,22,25,0,5,5>>>>,
   <<"luhn", <<7,9,9,2,7,3,9,8,7,1,3>>>>, <<"luhn", <<1,0,9,9>>>>>>
Typed(algorithm, meant) ==
  [Call EXCEPT
     !.rules = <<[Rule0 EXCEPT !.validator = "check_digit", !.algorithm = algorithm]>>,
     !.databases = {[Base EXCEPT ![t1] = [v |-> Identifier(<<s>>)]] :
                      s \in Typings(meant)},
     !.intended = meant]
Typing == [k \in DOMAIN Known |-> Typed(Known[k][1], Known[k][2])]

Tokens == {<<>>, <<<<0,3,7,8,5,9,5,5>>, <<2,4,3,4,5,6,1,X>>>>, <<<<0,3,7,8,5,9,5,5>>, <<1>>>>}
(* Several identifiers in one field, and none where one is required; a     *)
(* text that is none, and a value that is no text.                         *)
ISSNs(skip) ==
  LET check == [Rule0 EXCEPT !.validator = "check_digit", !.algorithm = "issn", !.skip = skip]
  IN  [Call EXCEPT
         !.rules = <<check, [check EXCEPT !.algorithm = "unheard"]>>,
         !.databases = {[Base EXCEPT ![t1] = [v |-> v]] :
                          v \in {NULL, Empty, zoo, twelve} \cup {Identifier(ts) : ts \in Tokens}}]

AllSetups == <<Gates, Chain, Usage, Values, ISSNs(TRUE), ISSNs(FALSE)>> \o Refusals \o Typing
=============================================================================
