----------------------------- MODULE RuleMatcher -----------------------------
(***************************************************************************)
(* Which rule a domain or an address meets (backend/utils/rule_matcher.py):*)
(* the index over the lines of a ruleset, its packed source lines and the  *)
(* ordered rules of a configuration, against the definition a line-by-line *)
(* scan gives.  A domain is the sequence of its labels, a keyword a label, *)
(* a regular expression the set of domains it finds; an address has        *)
(* AddressBits bits.                                                       *)
(***************************************************************************)
EXTENDS Integers, Sequences, SequencesExt, FiniteSetsExt

CONSTANTS
  Lines,        \* lines a ruleset may hold: [type, value, shared]; unsupported and broken ones included
  Queries,      \* what is looked up: [domain] or [address]
  AddressBits,
  MaxLines      \* bound: lines of a ruleset

VARIABLES
  ruleset,  \* the parsed lines of the ruleset
  enabled   \* whether the rule that stands before it in the configuration is enabled

matcherVars == <<ruleset, enabled>>

(***************************************************************************)
(* The reference: match_query on one line after the other.                 *)
(***************************************************************************)

HasSuffix(d, s) == IsSuffix(s, d)

\* match_domain
MatchDomain(d, type, value) ==
  CASE type = "DOMAIN" -> d = value
    [] type = "DOMAIN-SUFFIX" -> HasSuffix(d, value)
    [] type = "DOMAIN-KEYWORD" -> value \in ToSet(d)
    [] type = "SUBDOMAIN-ONLY" -> d # value /\ HasSuffix(d, value)
    [] type = "DIRECT-SUBDOMAIN" -> HasSuffix(d, value) /\ Len(d) = Len(value) + 1
    [] type = "REGEX" -> d \in value
    [] OTHER -> FALSE

Network(address, prefix) == address \div (2 ^ (AddressBits - prefix))

\* match_ip
MatchIp(a, type, value) ==
  CASE type = "IP" -> a = value
    [] type = "IP-CIDR" -> Network(a, value[2]) = Network(value[1], value[2])
    [] OTHER -> FALSE

MatchQuery(q, line) == IF "domain" \in DOMAIN q THEN MatchDomain(q.domain, line.type, line.value)
                       ELSE MatchIp(q.address, line.type, line.value)

FirstMatch(q) ==
  LET hits == {i \in DOMAIN ruleset : MatchQuery(q, ruleset[i])}
  IN IF hits = {} THEN <<>> ELSE <<ruleset[Min(hits)]>>

(***************************************************************************)
(* _RuleIndex: dictionaries from a key to a position in the retained lines.*)
(***************************************************************************)

Exact == {"DOMAIN", "DOMAIN-SUFFIX", "SUBDOMAIN-ONLY", "DIRECT-SUBDOMAIN", "IP", "IP-CIDR"}
Patterns == {"DOMAIN-KEYWORD", "REGEX"}

Key(line) == IF line.type = "IP-CIDR" THEN <<line.type, line.value[2], Network(line.value[1], line.value[2])>>
             ELSE <<line.type, line.value>>

\* __init__: a line whose key is known, or of a type without a dictionary, is not retained; patterns always are.
Keep(lines, i) ==
  \/ lines[i].type \in Patterns
  \/ lines[i].type \in Exact /\ \A j \in 1 .. i - 1 : Key(lines[j]) # Key(lines[i])
Retained(lines) ==
  LET kept[n \in 0 .. Len(lines)] ==
        IF n = 0 THEN <<>> ELSE IF Keep(lines, n) THEN Append(kept[n - 1], lines[n]) ELSE kept[n - 1]
  IN kept[Len(lines)]

\* _SourceLinesBuilder: a line goes to the packed buffer, or to the references when the dictionary already owns
\* its string; order says where, a negative number for a reference.
Packed(b, line) ==
  IF line.shared
  THEN [b EXCEPT !.references = Append(@, line), !.order = Append(@, -Len(b.references) - 1)]
  ELSE [b EXCEPT !.blob = Append(@, line), !.order = Append(@, Len(b.blob))]
Builder(lines) ==
  LET builder[n \in 0 .. Len(lines)] ==
        IF n = 0 THEN [blob |-> <<>>, references |-> <<>>, order |-> <<>>] ELSE Packed(builder[n - 1], lines[n])
  IN builder[Len(lines)]

\* finish and _PackedSourceLines.__getitem__ (positions from 1 here): without a packed line only references are
\* kept, without a reference no order is.
SourceLine(b, position) ==
  IF b.blob = <<>> THEN b.references[position]
  ELSE IF b.references = <<>> THEN b.blob[position]
  ELSE LET at == b.order[position]
       IN IF at < 0 THEN b.references[-at] ELSE b.blob[at + 1]

Lookup(lines, type, value) ==
  {i \in DOMAIN lines : lines[i].type = type /\ lines[i].value = value}

WithParents(d) == {SubSeq(d, i, Len(d)) : i \in DOMAIN d}

\* match_domain of the index: exact, every suffix, proper ones for subdomains, the parent, then the first pattern.
DomainHits(lines, d) ==
  Lookup(lines, "DOMAIN", d)
  \cup (UNION {Lookup(lines, "DOMAIN-SUFFIX", s) : s \in WithParents(d)})
  \cup (UNION {Lookup(lines, "SUBDOMAIN-ONLY", s) : s \in WithParents(d) \ {d}})
  \cup (IF Len(d) > 1 THEN Lookup(lines, "DIRECT-SUBDOMAIN", Tail(d)) ELSE {})

PatternHits(lines, d) == {i \in DOMAIN lines : lines[i].type \in Patterns /\ MatchDomain(d, lines[i].type, lines[i].value)}

\* match_ip of the index: the address, then one lookup for every prefix length in use.
AddressHits(lines, a) ==
  Lookup(lines, "IP", a) \cup
  {i \in DOMAIN lines : lines[i].type = "IP-CIDR" /\ Key(lines[i])[3] = Network(a, lines[i].value[2])}

IndexMatch(q) ==
  LET lines == Retained(ruleset)
      hits == IF "domain" \in DOMAIN q THEN DomainHits(lines, q.domain) \cup PatternHits(lines, q.domain)
              ELSE AddressHits(lines, q.address)
  IN IF hits = {} THEN <<>> ELSE <<SourceLine(Builder(lines), Min(hits))>>

(***************************************************************************)
(* RuleConfigMatcher: a direct rule, then the ruleset, then one that       *)
(* references the same library entry again.                                *)
(***************************************************************************)

DirectRule == CHOOSE l \in Lines : l.type \in {"DOMAIN-SUFFIX"}

\* match: disabled rules are passed over but keep their number; direct rules know no other types than match_domain.
Match(q) ==
  IF enabled /\ MatchQuery(q, DirectRule) THEN [priority |-> 1, line |-> <<DirectRule>>]
  ELSE IF IndexMatch(q) # <<>> THEN [priority |-> 2, line |-> IndexMatch(q)]
  ELSE [priority |-> 0, line |-> <<>>]

MatcherInit == ruleset = <<>> /\ enabled \in BOOLEAN

AddLine == /\ Len(ruleset) < MaxLines
           /\ \E l \in Lines : ruleset' = Append(ruleset, l)
           /\ UNCHANGED enabled

Toggle == enabled' = ~enabled /\ UNCHANGED ruleset

MatcherNext == AddLine \/ Toggle

MatcherSpec == MatcherInit /\ [][MatcherNext]_matcherVars

\* The index answers what the scan answers, with the line as it was written: dropping later lines with a known key,
\* stopping at the first pattern and packing the lines change neither the earliest match nor its text.
IndexIsFirstMatch ==
  \A q \in Queries :
    Match(q) = IF enabled /\ MatchQuery(q, DirectRule) THEN [priority |-> 1, line |-> <<DirectRule>>]
               ELSE [priority |-> IF FirstMatch(q) = <<>> THEN 0 ELSE 2, line |-> FirstMatch(q)]

==============================================================================
