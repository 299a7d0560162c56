-------------------------------- MODULE Seed --------------------------------
(***************************************************************************)
(* Group seeds: from a swarm's listeners to a text, and back on another    *)
(* machine after the text went through mail, QR codes and hands.           *)
(*                                                                         *)
(* A string is a sequence of characters, a text one of units: a character  *)
(* as it stands, or percent-escaped (written as one unit, which counts for *)
(* three bytes).  A '%' as it stands is one that no two digits follow.     *)
(* The word "p2p" in an address is the one character "p", the prefix       *)
(* citrate-cluster://seed? the one character "seed?".                      *)
(***************************************************************************)
EXTENDS Naturals, SequencesExt, FiniteSetsExt

CONSTANTS
  Groups,                  \* the group ids there are
  MAX_SEED_ADDRS, MAX_SEED_LEN, MAX_GROUP_LEN, MAX_ADDR_LEN,
  MaxListeners, MaxEdits   \* bounds

\* The code's limits are 8 addresses of 256 bytes in 2048; a listen address with
\* the name of its peer is six characters here.
ASSUME SeedAssumption ==
  /\ MAX_SEED_ADDRS \in Nat \ {0} /\ MAX_SEED_LEN \in Nat /\ MAX_GROUP_LEN \in Nat
  /\ MAX_ADDR_LEN \in Nat /\ MAX_ADDR_LEN >= 6
  /\ MaxListeners \in Nat /\ MaxEdits \in Nat

Alnum == {"a", "g", "p", "v", "x", "y", "1"}
Reserved == {"%", "&", "=", "#"}
Graphic == Alnum \cup Reserved \cup {"/", "seed?"}
\* "u" is any character past ASCII; "ff" a byte that is no part of a character.
Char == Graphic \cup {" ", "ctl", "u"}
Unit == [char : Char \cup {"ff"}, escaped : BOOLEAN]

Raw(c) == [char |-> c, escaped |-> FALSE]
RawText(s) == [i \in DOMAIN s |-> Raw(s[i])]
SEED_PREFIX == Raw("seed?")
SEED_VERSION == <<"1">>

ASSUME GroupAssumption == Groups \subseteq Seq(Char)

\* The pieces of a text between the units equal to e.
Split(text, e) ==
  LET pieces[t \in Seq(Unit)] ==
        IF t = <<>> THEN <<(<<>>)>>
        ELSE LET p == pieces[Front(t)] IN
             IF Last(t) = e THEN Append(p, <<>>)
             ELSE Append(Front(p), Append(Last(p), Last(t)))
  IN  pieces[text]

-----------------------------------------------------------------------------
(* Validation.                                                             *)

valid_group(g) == /\ \E i \in DOMAIN g : g[i] # " "
                  /\ Len(g) <= MAX_GROUP_LEN
                  /\ \A i \in DOMAIN g : g[i] # "ctl"

\* An absolute path without an empty segment, in which a peer is named.
valid_addr(a) ==
  /\ a # <<>> /\ Len(a) <= MAX_ADDR_LEN /\ Head(a) = "/"
  /\ \A i \in DOMAIN a : a[i] \in Graphic
  /\ LET parts == Split(RawText(Tail(a)), Raw("/")) IN
     /\ \A i \in DOMAIN parts : parts[i] # <<>>
     /\ \E i \in 1 .. Len(parts) - 1 :
          /\ parts[i] = RawText(<<"p">>)
          /\ \A j \in DOMAIN parts[i + 1] : parts[i + 1][j].char \in Alnum

validate(seed) == /\ valid_group(seed.group)
                  /\ Len(seed.addrs) \in 1 .. MAX_SEED_ADDRS
                  /\ \A i \in DOMAIN seed.addrs : valid_addr(seed.addrs[i])

-----------------------------------------------------------------------------
(* The text.                                                               *)

\* Mutation: only the '&' is escaped of the reserved characters.
pct_encode_few(s) ==
  [i \in DOMAIN s |-> [char |-> s[i], escaped |-> s[i] \notin Graphic \/ s[i] = "&"]]

pct_encode(s) ==
  [i \in DOMAIN s |-> [char |-> s[i], escaped |-> s[i] \notin Graphic \ Reserved]]

\* Not an escape, or not UTF-8.
BadEncoding(t) == \E i \in DOMAIN t : t[i] = Raw("%") \/ t[i].char = "ff"

pct_decode(t) == [i \in DOMAIN t |-> t[i].char]

Field(key, value) == RawText(<<"&", key, "=">>) \o value

encode(seed) ==
  LET out[addrs \in Seq(Seq(Char))] ==
        IF addrs = <<>>
        THEN <<SEED_PREFIX>> \o RawText(<<"v", "=">>) \o RawText(SEED_VERSION)
             \o Field("g", pct_encode(seed.group))
        ELSE out[Front(addrs)] \o Field("a", pct_encode(Last(addrs)))
  IN  out[seed.addrs]

\* In bytes.
len(text) ==
  LET bytes[t \in Seq(Unit)] ==
        IF t = <<>> THEN 0 ELSE bytes[Front(t)] + (IF Last(t).escaped THEN 3 ELSE 1)
  IN  bytes[text]

trim(t) == LET ink == {i \in DOMAIN t : t[i] # Raw(" ")}
           IN  IF ink = {} THEN <<>> ELSE SubSeq(t, Min(ink), Max(ink))

\* A pair's key, and the value after its first '='.
Key(pair) == Head(Split(pair, Raw("=")))
Value(pair) == SubSeq(pair, Len(Key(pair)) + 2, Len(pair))

\* The values of a key among the pairs, in order.
ValuesOf(pairs, key) ==
  LET of[ps \in Seq(Seq(Unit))] ==
        IF ps = <<>> THEN <<>>
        ELSE LET values == of[Front(ps)] IN
             IF Key(Last(ps)) = <<Raw(key)>> THEN Append(values, Value(Last(ps))) ELSE values
  IN  of[pairs]

Values(query, key) == ValuesOf(Split(query, Raw("&")), key)

Refused == [group |-> <<>>, addrs |-> <<>>]

\* Mutation: what the text says is not validated again.
decode_unchecked(text) ==
  LET t == trim(text)
      query == Tail(t)
      v == Values(query, "v")  g == Values(query, "g")  a == Values(query, "a")
  IN  IF /\ t # <<>> /\ len(t) <= MAX_SEED_LEN /\ Head(t) = SEED_PREFIX
         /\ \A x \in ToSet(v) \cup ToSet(g) \cup ToSet(a) : ~BadEncoding(x)
         /\ v # <<>> /\ pct_decode(Last(v)) = SEED_VERSION /\ Len(g) = 1
      THEN [group |-> pct_decode(g[1]), addrs |-> [i \in DOMAIN a |-> pct_decode(a[i])]]
      ELSE Refused

\* The last version given counts, the group is given once, unknown keys are
\* ignored.
decode(text) ==
  LET t == trim(text)
      query == Tail(t)
      v == Values(query, "v")  g == Values(query, "g")  a == Values(query, "a")
      seed == [group |-> pct_decode(g[1]), addrs |-> [i \in DOMAIN a |-> pct_decode(a[i])]]
  IN  IF /\ t # <<>> /\ len(t) <= MAX_SEED_LEN /\ Head(t) = SEED_PREFIX
         /\ \A x \in ToSet(v) \cup ToSet(g) \cup ToSet(a) : ~BadEncoding(x)
         /\ v # <<>> /\ pct_decode(Last(v)) = SEED_VERSION /\ Len(g) = 1
         /\ validate(seed)
      THEN seed ELSE Refused

-----------------------------------------------------------------------------
(* From the listeners to a seed.                                           *)

\* A listen address: what kind, which, and whether it names the peer already.
Listener == [class : {"routable", "loopback", "hidden"}, at : {"x", "y", "g"}, named : BOOLEAN]

\* The address with the peer's name.
WithId(l) == <<"/", l.at, "/", "p", "/", "x">>

\* The addresses of the listeners of a class, each once.
Offered(ls, class) ==
  LET of[l \in Seq(Listener)] ==
        IF l = <<>> THEN <<>>
        ELSE LET addrs == of[Front(l)] IN
             IF Last(l).class # class \/ WithId(Last(l)) \in ToSet(addrs) THEN addrs
             ELSE Append(addrs, WithId(Last(l)))
  IN  of[ls]

\* Mutation: all of them.
seed_addrs_from_all(ls) ==
  IF Offered(ls, "routable") = <<>> THEN Offered(ls, "loopback") ELSE Offered(ls, "routable")

\* The routable addresses, or the loopback ones if there is none, as many as a
\* seed holds; unspecified and link-local addresses are never offered.
seed_addrs_from(ls) ==
  LET out == IF Offered(ls, "routable") = <<>> THEN Offered(ls, "loopback")
             ELSE Offered(ls, "routable")
  IN  IF Len(out) <= MAX_SEED_ADDRS THEN out ELSE SubSeq(out, 1, MAX_SEED_ADDRS)

-----------------------------------------------------------------------------
VARIABLES
  listeners,               \* the listen addresses of the swarm that is asked
  sent,                    \* the seed, Refused before there is one
  text,                    \* its text, wherever it has got to
  edits                    \* how often it was tampered with

vars == <<listeners, sent, text, edits>>

Init == /\ listeners \in BoundedSeq(Listener, MaxListeners)
        /\ sent = Refused /\ text = <<>> /\ edits = 0

Share(g) == [group |-> g, addrs |-> seed_addrs_from(listeners)]

\* ClusterDaemon::seed for the group g.  The listeners are not looked at again.
GiveOut(g) ==
  /\ sent = Refused /\ Share(g).addrs # <<>> /\ validate(Share(g))
  /\ sent' = Share(g) /\ text' = encode(Share(g))
  /\ listeners' = <<>>
  /\ UNCHANGED edits

\* On its way the text loses a unit or gains one.
Lose(i) ==
  /\ edits < MaxEdits
  /\ text' = RemoveAt(text, i) /\ edits' = edits + 1
  /\ UNCHANGED <<listeners, sent>>

Gain(i, u) ==
  /\ sent # Refused /\ edits < MaxEdits
  /\ text' = InsertAt(text, i, u) /\ edits' = edits + 1
  /\ UNCHANGED <<listeners, sent>>

Next == \/ \E g \in Groups : GiveOut(g)
        \/ \E i \in DOMAIN text : Lose(i)
        \/ \E i \in 1 .. Len(text) + 1, u \in Unit : Gain(i, u)

Spec == Init /\ [][Next]_vars

-----------------------------------------------------------------------------
(* Properties.                                                             *)

\* The type of a seed, which is valid if there is one, and of its text.
TypeOK ==
  /\ listeners \in Seq(Listener)
  /\ sent \in [group : Seq(Char), addrs : Seq(Seq(Char))]
  /\ sent # Refused => validate(sent)
  /\ text \in Seq(Unit)
  /\ edits \in 0 .. MaxEdits

\* A machine that can be reached at all can give out a seed of any proper group,
\* however many interfaces it has, the same address on several of them included:
\* what seed_addrs_from leaves is what GroupSeed::new takes.
AnyMachineCanShare ==
  (\E i \in DOMAIN listeners : listeners[i].class # "hidden") =>
    \A g \in Groups : valid_group(g) => validate(Share(g))

\* A text nobody touched says what was given out, whatever the group id has in it:
\* nothing in a value is taken for the end of a field or a field of its own
\* (encode, decode).  It must not be longer than decode reads, which encode does
\* not look at.
TextSaysWhatWasSent ==
  edits = 0 /\ sent # Refused /\ len(text) <= MAX_SEED_LEN => decode(text) = sent

\* However a text was changed on its way, what is read from it is a valid seed,
\* that can be given out again, and read again as the same (decode).
ReadIsValid ==
  LET seed == decode(text) IN
  seed # Refused => /\ validate(seed)
                    /\ len(encode(seed)) <= MAX_SEED_LEN => decode(encode(seed)) = seed

\* A field of a later version, in front or at the end, changes nothing
\* (seed.rs:14-15), for as long as the text is short enough.
LaterFieldsIgnored ==
  LET field == Field("x", RawText(<<"y">>)) IN
  text # <<>> /\ Head(text) = SEED_PREFIX /\ len(text) + len(field) <= MAX_SEED_LEN =>
    /\ decode(<<SEED_PREFIX>> \o Tail(field) \o RawText(<<"&">>) \o Tail(text)) = decode(text)
    /\ Last(text) # Raw(" ") => decode(text \o field) = decode(text)

\* Whatever text arrives, decode takes valid seeds from it only, and the same one
\* with or without the fields of a later version.
DecodeIsSound == TypeOK /\ ReadIsValid /\ LaterFieldsIgnored
=============================================================================
