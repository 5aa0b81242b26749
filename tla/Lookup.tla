------------------------------- MODULE Lookup -------------------------------
(* The policy database (enforcer/lookup/lookup.go): policies are added to a set
   of tables, and Search looks the tags of a peer up in them.

   A policy is a sequence of clauses on a key; all of them must hold.  Search
   counts for each policy how many of its clauses were hit and returns the
   first policy whose count is complete.  Go ranges over a map in any order, so
   the next tag is any tag, and one step looks one tag up.

   Strings are abstracted to sequences of letters, since prefixes matter: a
   value of a clause is a string, or the prefix that stands before a star.     *)
EXTENDS Naturals, FiniteSets, Sequences, SequencesExt

CONSTANTS
    Keys,         \* keys of tags
    Strings,      \* strings: sequences of letters, closed under prefixes
    TagValues,    \* values of the tags of a peer
    Selectors,    \* the policies to choose from: sequences of clauses
    MaxPolicies   \* policies in the database (a bound)

ASSUME BoundAssumption == MaxPolicies \in Nat
ASSUME TagsAssumption == TagValues \subseteq Strings

VARIABLES
    policies,          \* the selectors added, by index, and the count of each
    equalPrefixes,     \* for each key the prefix lengths to try
    equalMapTable,     \* policies by key and value, or prefix
    notEqualMapTable,  \* policies by key and value
    notStarTable,      \* policies by key
    default,           \* defaultNotExistsPolicy, 0 when it is nil
    search             \* the search in progress or its result

tables == <<equalPrefixes, equalMapTable, notEqualMapTable, notStarTable, default>>
vars == <<policies, tables, search>>

(* Clauses: a sequence of values, each exact or a prefix (star). *)
Value(s, star) == [str |-> s, star |-> star]
Clause(key, op, values) == [key |-> key, op |-> op, values |-> values]

Idle == [state |-> "idle"]
TagMaps == UNION {[D -> TagValues] : D \in SUBSET Keys}
Indexes == 1 .. MaxPolicies

TypeOK ==
    /\ Len(policies) <= MaxPolicies
    /\ \A i \in DOMAIN policies : policies[i].clause \in Selectors /\ policies[i].count \in Nat
    /\ \A k \in Keys : equalPrefixes[k] \in Seq(Nat)
    /\ \A k \in Keys, s \in Strings :
          Range(equalMapTable[k][s]) \cup Range(notEqualMapTable[k][s]) \subseteq DOMAIN policies
    /\ \A k \in Keys : Range(notStarTable[k]) \subseteq DOMAIN policies
    /\ default \in Indexes \cup {0}
    /\ search.state \in {"idle", "busy", "found", "none"}

Init ==
    /\ policies = <<>>
    /\ equalPrefixes = [k \in Keys |-> <<>>]
    /\ equalMapTable = [k \in Keys |-> [s \in Strings |-> <<>>]]
    /\ notEqualMapTable = [k \in Keys |-> [s \in Strings |-> <<>>]]
    /\ notStarTable = [k \in Keys |-> <<>>]
    /\ default = 0
    /\ search = Idle

-----------------------------------------------------------------------------
(* AddPolicy *)

(* sort.Search: the binary search for the first element that is not larger. *)
FirstNotLarger(a, value) ==
    LET f[lo \in 0 .. Len(a), hi \in 0 .. Len(a)] ==
            IF lo >= hi THEN lo
            ELSE LET h == (lo + hi) \div 2
                 IN  IF a[h + 1] <= value THEN f[lo, h] ELSE f[h + 1, hi]
    IN  f[0, Len(a)]

(* The insertion in the middle appends to a slice of the array, which writes
   over the element that follows. *)
sortedInsert(a, value) ==
    LET i == FirstNotLarger(a, value)
        l == Len(a)
    IN  CASE l = 0 -> <<value>>
          [] l > 0 /\ i = 0 -> <<value>> \o a
          [] l > 0 /\ i # 0 /\ i = l - 1 -> Append(a, value)
          [] l > 0 /\ i # 0 /\ i = l -> Append(a, value)
          [] OTHER -> SubSeq(a, 1, i) \o <<value, value>> \o SubSeq(a, i + 2, l)

(* What one policy adds under a key: its clauses with that key and operator. *)
Of(sel, k, op) == SelectSeq(sel, LAMBDA c : c.key = k /\ c.op = op)
ValuesOf(sel, k, op) ==
    FlattenSeq([j \in DOMAIN Of(sel, k, op) |-> Of(sel, k, op)[j].values])
Hits(values, s) == SelectSeq(values, LAMBDA v : v.str = s)

(* n entries for the policy with index i *)
Entries(i, n) == [j \in 1 .. n |-> i]

(* The values under which KeyExists and Equal enter equalMapTable. *)
EqualValues(sel, k) ==
    FlattenSeq([j \in DOMAIN sel |->
        CASE sel[j].key = k /\ sel[j].op = "KeyExists" -> <<Value(<<>>, TRUE)>>
          [] sel[j].key = k /\ sel[j].op = "Equal"     -> sel[j].values
          [] OTHER                                     -> <<>>])

(* Bug: a clause with the operator KeyNotExists counts as well. *)
CountNotExists(sel) ==
    FoldLeft(LAMBDA n, c : n + (IF c.op = "NotEqual" THEN Len(c.values) ELSE 1), 0, sel)

(* The hits a policy needs: one for each clause that must be hit, but one for
   each value of NotEqual. *)
Count(sel) ==
    FoldLeft(LAMBDA n, c : n + (CASE c.op = "KeyNotExists" -> 0
                                  [] c.op = "NotEqual"     -> Len(c.values)
                                  [] OTHER                 -> 1), 0, sel)

AddPolicy(sel) ==
    LET i == Len(policies) + 1
        lengths(k) == LET stars == SelectSeq(EqualValues(sel, k), LAMBDA v : v.star)
                      IN  [j \in DOMAIN stars |-> Len(stars[j].str)]
    IN  /\ search = Idle /\ i <= MaxPolicies
        /\ policies' = Append(policies, [clause |-> sel, count |-> Count(sel)])
        /\ equalPrefixes' = [k \in Keys |-> FoldLeft(sortedInsert, equalPrefixes[k], lengths(k))]
        /\ equalMapTable' = [k \in Keys |-> [s \in Strings |->
              equalMapTable[k][s] \o Entries(i, Len(Hits(EqualValues(sel, k), s)))]]
        /\ notEqualMapTable' = [k \in Keys |-> [s \in Strings |->
              notEqualMapTable[k][s] \o Entries(i, Len(Hits(ValuesOf(sel, k, "NotEqual"), s)))]]
        /\ notStarTable' = [k \in Keys |->
              notStarTable[k] \o Entries(i, Len(Of(sel, k, "KeyNotExists")))]
        /\ default' = IF Len(sel) = 1 /\ sel[1].op = "KeyNotExists" THEN i ELSE default
        /\ UNCHANGED search

-----------------------------------------------------------------------------
(* Search *)

(* Bug: policies are not disabled by a key that must not exist. *)
SkippedNever(tags) == {}

(* The policies that a tag of the peer disables. *)
Skipped(tags) == UNION {Range(notStarTable[k]) : k \in DOMAIN tags}

Search(tags) ==
    /\ search = Idle
    /\ search' = [state |-> "busy", tags |-> tags, todo |-> DOMAIN tags,
                  count |-> [i \in DOMAIN policies |-> 0]]
    /\ UNCHANGED <<policies, tables>>

(* The policies that a tag hits, in the order of the loops: the value itself,
   its prefixes, and the values (in order ne) that it is not equal to. *)
HitList(k, v, ne) ==
    equalMapTable[k][v]
    \o FlattenSeq([j \in DOMAIN equalPrefixes[k] |->
          IF equalPrefixes[k][j] <= Len(v) THEN equalMapTable[k][SubSeq(v, 1, equalPrefixes[k][j])]
          ELSE <<>>])
    \o FlattenSeq([j \in DOMAIN ne |-> notEqualMapTable[k][ne[j]]])

(* searchInMapTabe over a list of policies: the counts so far, and the first
   policy whose count is complete. *)
searchInMapTabe(list, count, skip) ==
    FoldLeft(LAMBDA r, i :
               IF r.found # 0 \/ i \in skip THEN r
               ELSE [count |-> [r.count EXCEPT ![i] = @ + 1],
                     found |-> IF r.count[i] + 1 = policies[i].count THEN i ELSE 0],
             [count |-> count, found |-> 0], list)

SearchTag(k) ==
    /\ search.state = "busy" /\ k \in search.todo
    /\ LET v == search.tags[k]
           others == {s \in Strings : s # v /\ notEqualMapTable[k][s] # <<>>}
       IN  \E ne \in SetToSeqs(others) :
              LET r == searchInMapTabe(HitList(k, v, ne), search.count, Skipped(search.tags))
              IN  search' = IF r.found # 0
                            THEN [state |-> "found", tags |-> search.tags, index |-> r.found]
                            ELSE [search EXCEPT !.todo = @ \ {k}, !.count = r.count]
    /\ UNCHANGED <<policies, tables>>

SearchDefault ==
    /\ search.state = "busy" /\ search.todo = {}
    /\ search' = IF default # 0 /\ default \notin Skipped(search.tags)
                 THEN [state |-> "found", tags |-> search.tags, index |-> default]
                 ELSE [state |-> "none", tags |-> search.tags]
    /\ UNCHANGED <<policies, tables>>

Return ==
    /\ search.state \in {"found", "none"}
    /\ search' = Idle
    /\ UNCHANGED <<policies, tables>>

Next ==
    \/ \E sel \in Selectors : AddPolicy(sel)
    \/ \E tags \in TagMaps : Search(tags)
    \/ \E k \in Keys : SearchTag(k)
    \/ SearchDefault \/ Return

Spec == Init /\ [][Next]_vars

-----------------------------------------------------------------------------
(* Properties, against what docs/policy_design.md (93-188) says of a clause *)

Fits(v, s) == IF v.star THEN IsPrefix(v.str, s) ELSE v.str = s

Holds(c, tags) ==
    CASE c.op = "KeyExists"    -> c.key \in DOMAIN tags
      [] c.op = "KeyNotExists" -> c.key \notin DOMAIN tags
      [] c.op = "Equal"    -> c.key \in DOMAIN tags /\ \E v \in Range(c.values) : Fits(v, tags[c.key])
      [] c.op = "NotEqual" -> c.key \in DOMAIN tags =>
                                 \A v \in Range(c.values) : v.str # tags[c.key]

Matches(i, tags) == \A j \in DOMAIN policies[i].clause : Holds(policies[i].clause[j], tags)

(* "each clause inside the rule needs to be successfully matched"
   (policy_design.md:91): a policy that Search returns matches the tags, in
   whatever order the tags are looked up. *)
SearchIsSound == search.state = "found" => Matches(search.index, search.tags)

(* "The action of a Trireme policy is applied IF at least one of the Rules is
   matched successfully" (policy_design.md:90): when Search finds nothing, no
   policy matches the tags, but for one with NotEqual on a key that the peer
   does not have, which no table can count. *)
SearchIsComplete ==
    search.state = "none" => \A i \in DOMAIN policies : Matches(i, search.tags) =>
        \E c \in Range(policies[i].clause) : c.op = "NotEqual" /\ c.key \notin DOMAIN search.tags

(* The same without the exception: NotEqual "will return TRUE" for a peer that
   does not have the key (policy_design.md:133-137). *)
NotEqualIsComplete ==
    search.state = "none" => \A i \in DOMAIN policies : ~ Matches(i, search.tags)
=============================================================================
