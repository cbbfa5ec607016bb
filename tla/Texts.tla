------------------------------- MODULE Texts --------------------------------
(* Functions on texts without state of their own: base64, base32 and base16, *)
(* url_encode and url_decode, argv_split, bsearch, and uri-parse.  The state *)
(* is the input of one of them, which grows: a sequence of octets, or for a  *)
(* URI and a query of characters, one for each kind the code tells apart.    *)
EXTENDS Integers, Sequences, SequencesExt, FiniteSetsExt

CONSTANTS Octets,                                \* of the texts that are encoded
          Characters,                            \* of the texts that are sent in a URL
          MaxLen, Rooms,
          Beginnings, UriCharacters, MaxMore,    \* the texts of a URI
          QueryCharacters, MaxQuery              \* those of a query

VARIABLES what, text,
          more        \* how far it has grown

vars == <<what, text, more>>

Pad == 61     \* '='
Space == 32
LOCAL At(s, i) == IF i <= Len(s) THEN s[i] ELSE Pad
LOCAL Indices(n) == [i \in 1..n |-> i]
LOCAL Concat(n, f(_)) == FoldLeft(LAMBDA a, i : a \o f(i), <<>>, Indices(n))

------------------------------------------------------------------------------
(* The tables: the character of a value, and the value of a character, where *)
(* one table reads both alphabets of base64 and whatever is in none is 0.    *)
s_base64_enc(v) == CASE v < 26 -> 65 + v [] v \in 26..51 -> 71 + v [] v \in 52..61 -> v - 4
                     [] v = 62 -> 43 [] v = 63 -> 47
s_base64_url(v) == CASE v = 62 -> 45 [] v = 63 -> 95 [] OTHER -> s_base64_enc(v)
s_base64_dec(c) == CASE c \in 65..90 -> c - 65 [] c \in 97..122 -> c - 71 [] c \in 48..57 -> c + 4
                     [] c \in {43, 45} -> 62 [] c \in {47, 95} -> 63 [] OTHER -> 0
s_base32_enc(v) == IF v < 26 THEN 65 + v ELSE 24 + v
s_base32_dec(c) == CASE c \in 65..90 -> c - 65 [] c \in 97..122 -> c - 97 [] c \in 50..55 -> c - 24 [] OTHER -> 0
s_base16_enc(v) == IF v < 10 THEN 48 + v ELSE 55 + v
s_base16_dec(c) == CASE c \in 48..57 -> c - 48 [] c \in 65..70 -> c - 55 [] c \in 97..102 -> c - 87 [] OTHER -> 0

(* Three octets make four characters; what is missing in the last group is   *)
(* filled with '='.                                                          *)
base64_encode_table(s, table(_)) ==
    Concat((Len(s) + 2) \div 3, LAMBDA g :
        LET i == 3 * g - 2
            a == s[i]
            b == IF i + 1 <= Len(s) THEN s[i + 1] ELSE 0
            c == IF i + 2 <= Len(s) THEN s[i + 2] ELSE 0
        IN <<table(a \div 4), table(((a % 4) * 16) + (b \div 16)),
             IF i + 1 > Len(s) THEN Pad ELSE table(((b % 16) * 4) + (c \div 64)),
             IF i + 2 > Len(s) THEN Pad ELSE table(c % 64)>>)
base64_encode(s) == base64_encode_table(s, s_base64_enc)
base64_encode_url(s) == base64_encode_table(s, s_base64_url)

(* Groups up to one that begins with '='; characters that are missing count  *)
(* as '='.  A slip: what is not padded is taken for complete.                *)
LOCAL Groups(s, n) ==
    LET ends == {g \in 0..((Len(s) + n - 1) \div n) : n * g + 1 > Len(s) \/ At(s, n * g + 1) = Pad}
    IN CHOOSE g \in ends : \A h \in ends : g <= h
base64_decode_Whole(s) ==
    Concat(Groups(s, 4), LAMBDA g :
        LET c(k) == At(s, 4 * g - 4 + k)
            v(k) == s_base64_dec(c(k))
        IN <<((v(1) * 4) + (v(2) \div 16)) % 256, ((v(2) * 16) + (v(3) \div 4)) % 256>>
           \o (IF c(4) = Pad THEN <<>> ELSE <<((v(3) * 64) + v(4)) % 256>>))
base64_decode(s) ==
    Concat(Groups(s, 4), LAMBDA g :
        LET c(k) == At(s, 4 * g - 4 + k)
            v(k) == s_base64_dec(c(k))
        IN <<((v(1) * 4) + (v(2) \div 16)) % 256>>
           \o (IF c(3) = Pad THEN <<>> ELSE <<((v(2) * 16) + (v(3) \div 4)) % 256>>)
           \o (IF c(4) = Pad THEN <<>> ELSE <<((v(3) * 64) + v(4)) % 256>>))

base16_encode(s) == Concat(Len(s), LAMBDA i : <<s_base16_enc(s[i] \div 16), s_base16_enc(s[i] % 16)>>)
base16_decode(s) ==
    [i \in 1..(Len(s) \div 2) |-> (s_base16_dec(s[2 * i - 1]) * 16) + s_base16_dec(s[2 * i])]

(* Five octets make eight characters; of the k characters of a last group    *)
(* the last one holds the low bits that are left.                            *)
base32_encode(s) ==
    Concat((Len(s) + 4) \div 5, LAMBDA g :
        LET i == 5 * g - 4
            o(k) == IF i + k <= Len(s) THEN s[i + k] ELSE 0
            v == <<o(0) \div 8, ((o(0) % 8) * 4) + (o(1) \div 64), (o(1) \div 2) % 32,
                   ((o(1) % 2) * 16) + (o(2) \div 16), ((o(2) % 16) * 2) + (o(3) \div 128),
                   (o(3) \div 4) % 32, ((o(3) % 4) * 8) + (o(4) \div 32), o(4) % 32>>
            used == CASE Len(s) - i = 0 -> 2 [] Len(s) - i = 1 -> 4 [] Len(s) - i = 2 -> 5
                      [] Len(s) - i = 3 -> 7 [] OTHER -> 8
        IN [k \in 1..8 |-> IF k <= used THEN s_base32_enc(v[k]) ELSE Pad])
base32_decode(s) ==
    Concat(Groups(s, 8), LAMBDA g :
        LET c(k) == At(s, 8 * g - 7 + k)
            v(k) == s_base32_dec(c(k))
            if(k, o) == IF c(k) = Pad THEN <<>> ELSE <<o % 256>>
        IN <<((v(0) * 8) + (v(1) \div 4)) % 256>>
           \o if(2, (v(1) * 64) + (v(2) * 2) + (v(3) \div 16)) \o if(4, (v(3) * 16) + (v(4) \div 2))
           \o if(5, (v(4) * 128) + (v(5) * 4) + (v(6) \div 8)) \o if(7, (v(6) * 32) + v(7)))

------------------------------------------------------------------------------
(* url_encode and url_decode, with the room of the target: a character that  *)
(* takes three places and has none left is an error; when the room is used   *)
(* up by the others the text ends there.                                     *)
Alnum == (48..57) \cup (65..90) \cup (97..122)
Hex == (48..57) \cup (65..70) \cup (97..102)
Unreserved == Alnum \cup {45, 95, 46, 126}
Percent == 37
Plus == 43

url_encode(s, room) ==
    FoldLeft(LAMBDA r, c :
               IF r.r < 0 \/ Len(r.out) >= room THEN r
               ELSE IF c \in Unreserved THEN [r EXCEPT !.out = Append(@, c)]
               ELSE IF c = Space THEN [r EXCEPT !.out = Append(@, Plus)]
               ELSE IF Len(r.out) + 2 >= room THEN [r EXCEPT !.r = -1]
               ELSE [r EXCEPT !.out = @ \o <<Percent, s_base16_enc(c \div 16), s_base16_enc(c % 16)>>],
             [r |-> 0, out |-> <<>>], s)

(* The skips p += 1 and p += 2 are the characters to be passed over.  A      *)
(* slip: "%%" is not known.                                                  *)
url_decode_NoTwice(s, room) ==
    FoldLeft(LAMBDA r, i :
               IF r.r < 0 \/ (Len(r.out) >= room /\ r.skip = 0) THEN r
               ELSE IF r.skip > 0 THEN [r EXCEPT !.skip = @ - 1]
               ELSE IF s[i] = Plus THEN [r EXCEPT !.out = Append(@, Space)]
               ELSE IF s[i] # Percent THEN [r EXCEPT !.out = Append(@, s[i])]
               ELSE IF i + 2 > Len(s) \/ ~({s[i + 1], s[i + 2]} \subseteq Hex) THEN [r EXCEPT !.r = -1]
               ELSE [r EXCEPT !.out = Append(@, (s_base16_dec(s[i + 1]) * 16) + s_base16_dec(s[i + 2])), !.skip = 2],
             [r |-> 0, out |-> <<>>, skip |-> 0], Indices(Len(s)))
url_decode(s, room) ==
    FoldLeft(LAMBDA r, i :
               IF r.r < 0 \/ (Len(r.out) >= room /\ r.skip = 0) THEN r
               ELSE IF r.skip > 0 THEN [r EXCEPT !.skip = @ - 1]
               ELSE IF s[i] = Plus THEN [r EXCEPT !.out = Append(@, Space)]
               ELSE IF s[i] # Percent THEN [r EXCEPT !.out = Append(@, s[i])]
               ELSE IF i + 1 <= Len(s) /\ s[i + 1] = Percent THEN [r EXCEPT !.out = Append(@, Percent), !.skip = 1]
               ELSE IF i + 2 > Len(s) \/ ~({s[i + 1], s[i + 2]} \subseteq Hex) THEN [r EXCEPT !.r = -1]
               ELSE [r EXCEPT !.out = Append(@, (s_base16_dec(s[i + 1]) * 16) + s_base16_dec(s[i + 2])), !.skip = 2],
             [r |-> 0, out |-> <<>>, skip |-> 0], Indices(Len(s)))

------------------------------------------------------------------------------
(* argv_split: spaces become ends of words; the table has room for the words *)
(* count_argc counts, for the text itself in front and for a final NULL.     *)
count_argc(s) ==
    FoldLeft(LAMBDA r, c : IF c = Space THEN [r EXCEPT !.was_space = TRUE]
                           ELSE IF r.was_space THEN [count |-> r.count + 1, was_space |-> FALSE] ELSE r,
             [count |-> 0, was_space |-> TRUE], s).count
LOCAL WordAt(s, i) ==
    LET ends == {j \in i..(Len(s) + 1) : j > Len(s) \/ s[j] = Space}
    IN SubSeq(s, i, (CHOOSE j \in ends : \A k \in ends : j <= k) - 1)
argv_split(s) ==
    FoldLeft(LAMBDA r, i : IF s[i] = Space THEN [r EXCEPT !.was_space = TRUE]
                           ELSE IF r.was_space THEN [argv |-> Append(r.argv, WordAt(s, i)), was_space |-> FALSE]
                           ELSE r,
             [argv |-> <<>>, was_space |-> TRUE], Indices(Len(s))).argv

(* bsearch: base and num are halved until the key is met.  A slip: the       *)
(* element that was compared is counted again.                               *)
bsearch_Again(key, s) ==
    LET search[num \in 0..Len(s), base \in 0..Len(s)] ==
          LET pivot == base + (num \div 2) + 1
          IN IF num = 0 THEN 0
             ELSE IF pivot > Len(s) THEN -1
             ELSE IF s[pivot] = key THEN pivot
             ELSE IF key > s[pivot] THEN search[num \div 2, pivot]
             ELSE search[num \div 2, base]
    IN search[Len(s), 0]
bsearch(key, s) ==
    LET search[num \in 0..Len(s), base \in 0..Len(s)] ==
          LET pivot == base + (num \div 2) + 1
          IN IF num = 0 THEN 0
             ELSE IF s[pivot] = key THEN pivot
             ELSE IF key > s[pivot] THEN search[(num - 1) \div 2, pivot]
             ELSE search[num \div 2, base]
    IN search[Len(s), 0]

------------------------------------------------------------------------------
(* uri-parse: the automaton that finds out which parts a URI has, the parser *)
(* that cuts them out, and uri_query, which cuts a query into fields.  A     *)
(* URI grows from one of a few beginnings and is followed by its final zero. *)
(* Parts are pairs <<first, last>> of places, None where there is none.      *)
None == <<>>
Allowed == {"a", "1", ":", "/", "?", "#", "@", "[", "]"}    \* s_characters
Ends == {"/", "?", "#"}

------------------------------------------------------------------------------
(* uri_check: a state of the automaton and the parts found so far; done is   *)
(* "" until it returns, with 0, -1, or by a failed assertion.                *)
LOCAL Return(q, r) == [q EXCEPT !.done = r]
LOCAL Scheme(q, c) ==
    CASE c = ":" -> [q EXCEPT !.state = "authority"]
      [] c = "@" -> [q EXCEPT !.state = "host", !.userinfo = TRUE]
      [] c \in Ends -> Return(q, "ok")
      [] OTHER -> q
LOCAL Start(q, c) ==
    CASE c = "/" -> Return(q, "ok")
      [] c = "[" -> [q EXCEPT !.state = "ipv6", !.host = TRUE]
      [] OTHER -> Scheme([q EXCEPT !.state = "scheme", !.host = TRUE], c)
LOCAL Authority(q, c, next) ==
    CASE c = "/" /\ next = "/" -> [q EXCEPT !.state = "host", !.scheme = TRUE, !.skip = TRUE]
      [] c = "/" /\ next # "/" -> [q EXCEPT !.port = TRUE, !.done = "ok"]
      [] OTHER -> [q EXCEPT !.port = TRUE, !.state = "port"]
LOCAL Host(q, c) ==
    CASE c = "]" -> Return(q, "abort")
      [] c = "@" -> [q EXCEPT !.userinfo = TRUE]
      [] c = "[" -> [q EXCEPT !.state = "ipv6"]
      [] c = ":" -> [q EXCEPT !.port = TRUE, !.state = "port"]
      [] c \in Ends -> Return(q, "ok")
      [] OTHER -> q
LOCAL Port(q, c) ==
    CASE c = "@" -> [q EXCEPT !.port = FALSE, !.userinfo = TRUE, !.state = "host"]
      [] c \in {"[", "]", ":"} -> Return(q, "bad")
      [] c \in Ends -> Return(q, "ok")
      [] OTHER -> q
LOCAL Ipv6(q, c) ==
    CASE c = "]" -> [q EXCEPT !.state = "host"]
      [] c \in {"@", "["} \cup Ends -> Return(q, "bad")
      [] OTHER -> q

(* A slip: a second '/' is not skipped.                                      *)
uri_check_Slashes(s) ==
    LET step(q, i) ==
          IF q.done # "" THEN q
          ELSE IF s[i] \notin Allowed THEN Return(q, "bad")
          ELSE CASE q.state = "start" -> Start(q, s[i])
                 [] q.state = "scheme" -> Scheme(q, s[i])
                 [] q.state = "authority" -> [Authority(q, s[i], IF i < Len(s) THEN s[i + 1] ELSE "") EXCEPT !.skip = FALSE]
                 [] q.state = "host" -> Host(q, s[i])
                 [] q.state = "port" -> Port(q, s[i])
                 [] q.state = "ipv6" -> Ipv6(q, s[i])
        q == FoldLeft(step, [state |-> "start", scheme |-> FALSE, userinfo |-> FALSE, host |-> FALSE,
                             port |-> FALSE, skip |-> FALSE, done |-> ""], [i \in DOMAIN s |-> i])
    IN IF q.done = "" THEN Return(q, "ok") ELSE q
uri_check(s) ==
    LET step(q, i) ==
          IF q.done # "" THEN q
          ELSE IF q.skip THEN [q EXCEPT !.skip = FALSE]
          ELSE IF s[i] \notin Allowed THEN Return(q, "bad")
          ELSE CASE q.state = "start" -> Start(q, s[i])
                 [] q.state = "scheme" -> Scheme(q, s[i])
                 [] q.state = "authority" -> Authority(q, s[i], IF i < Len(s) THEN s[i + 1] ELSE "")
                 [] q.state = "host" -> Host(q, s[i])
                 [] q.state = "port" -> Port(q, s[i])
                 [] q.state = "ipv6" -> Ipv6(q, s[i])
        q == FoldLeft(step, [state |-> "start", scheme |-> FALSE, userinfo |-> FALSE, host |-> FALSE,
                             port |-> FALSE, skip |-> FALSE, done |-> ""], [i \in DOMAIN s |-> i])
    IN IF q.done = "" THEN Return(q, "ok") ELSE q

------------------------------------------------------------------------------
(* uri_parse_complex.  at is the place str points to; room counts the bytes  *)
(* written behind struct uri_t.                                              *)
LOCAL UpTo(s, from, stop) ==     \* the last place before a character of stop
    LET ends == {i \in from..(Len(s) + 1) : i > Len(s) \/ s[i] \in stop}
    IN Min(ends) - 1
LOCAL Cut(u, part, s, from, stop, skip) ==
    LET last == UpTo(s, from, stop)
    IN [u EXCEPT ![part] = <<from, last>>, !.at = last + 1 + skip, !.room = @ + (last - from + 1) + 1]
LOCAL Fails(u) == [u EXCEPT !.r = "bad"]

(* Each cut is made if uri_check found the part and the cuts before it went  *)
(* well.  Behind a host in brackets and behind a port only some go on.       *)
LOCAL Cuts(found, u) == found /\ u.r = "ok"
LOCAL FollowedWell(u, s) == IF u.at <= Len(s) /\ s[u.at] \notin {":"} \cup Ends THEN Fails(u) ELSE u
LOCAL CutScheme(has, u, s) == IF Cuts(has.scheme, u) THEN Cut(u, "scheme", s, 1, {":"}, 3) ELSE u
LOCAL CutUserinfo(has, u, s) == IF Cuts(has.userinfo, u) THEN Cut(u, "userinfo", s, u.at, {"@"}, 1) ELSE u
LOCAL CutHost(has, u, s) ==
    IF ~Cuts(has.host, u) THEN u
    ELSE IF u.at > Len(s) THEN [u EXCEPT !.r = "abort"]
    ELSE IF s[u.at] # "[" THEN Cut(u, "host", s, u.at, {":"} \cup Ends, 0)
    ELSE FollowedWell(Cut(u, "host", s, u.at + 1, {"]"}, 1), s)
LOCAL CutPort(has, u, s) ==
    LET last == UpTo(s, u.at + 1, Allowed \ {"1"})
    IN IF ~Cuts(has.port, u) THEN u
       ELSE FollowedWell([u EXCEPT !.port = <<u.at + 1, last>>, !.at = last + 1], s)
LOCAL CutPath(u, s) ==
    IF u.r # "ok" THEN u
    ELSE IF u.at <= Len(s) /\ s[u.at] = "/" THEN Cut(u, "path", s, u.at, {"?", "#"}, 0)
    ELSE [u EXCEPT !.room = @ + 2]
LOCAL CutQuery(u, s) ==
    IF u.r = "ok" /\ u.at <= Len(s) /\ s[u.at] = "?" THEN Cut(u, "query", s, u.at + 1, {"#"}, 0) ELSE u
LOCAL CutFragment(u, s) ==
    IF u.r = "ok" /\ u.at <= Len(s) /\ s[u.at] = "#"
    THEN [u EXCEPT !.fragment = <<u.at + 1, Len(s)>>, !.room = @ + Len(s) - u.at + 1] ELSE u

LOCAL Uncut(r) ==
    [r |-> r, at |-> 1, room |-> 0, scheme |-> None, userinfo |-> None, host |-> None,
     port |-> None, path |-> None, query |-> None, fragment |-> None]
LOCAL CutAll(has, s) ==
    CutFragment(CutQuery(CutPath(
        CutPort(has, CutHost(has, CutUserinfo(has, CutScheme(has, Uncut(has.done), s), s), s), s), s), s), s)
uri_parse_complex(s) == CutAll(uri_check(s), s)

uri_parse(s) == IF s = <<>> THEN [r |-> "bad"] ELSE uri_parse_complex(s)

(* uri_path: the text of path, query and fragment, of which an empty query   *)
(* or fragment is left out.                                                  *)
LOCAL Of(s, part) == IF part = None THEN <<>> ELSE SubSeq(s, part[1], part[2])
uri_path(s, u, room) ==
    LET full(c, part) == IF Of(s, part) = <<>> THEN <<>> ELSE <<c>> \o Of(s, part)
        out == (IF u.path = None THEN <<"/">> ELSE Of(s, u.path)) \o full("?", u.query) \o full("#", u.fragment)
    IN IF Len(out) < room THEN [n |-> Len(out), out |-> out] ELSE [n |-> -1, out |-> <<>>]

(* uri_userinfo: the name up to the first ':', the password behind it.       *)
uri_userinfo(s, u) ==
    IF u.userinfo = None THEN [usr |-> <<>>, pwd |-> <<>>]
    ELSE LET sep == UpTo(s, u.userinfo[1], {":"}) + 1
         IN IF sep > u.userinfo[2] THEN [usr |-> Of(s, u.userinfo), pwd |-> <<>>]
            ELSE [usr |-> SubSeq(s, u.userinfo[1], sep - 1), pwd |-> SubSeq(s, sep + 1, u.userinfo[2])]

------------------------------------------------------------------------------
(* uri_query: names end at '&' or '=', values at '&'.  A name at the end of  *)
(* the query with neither behind it is not seen.  A slip: two '&' end it.    *)
LOCAL Field(s, name, value) == [name |-> SubSeq(s, name[1], name[2]), value |-> Of(s, value), has |-> value # None]
LOCAL QueryFrom(s, go) ==
    LET items[q \in 1..(Len(s) + 1)] ==
          LET p == UpTo(s, q, {"&", "="}) + 1
              end == UpTo(s, p + 1, {"&"}) + 1
              then(f, from) == IF from > Len(s) THEN <<f>> ELSE <<f>> \o items[from]
          IN IF p > Len(s) THEN <<>>
             ELSE IF p = q THEN IF s[p] = "=" THEN <<[name |-> <<>>]>> ELSE IF go THEN items[p + 1] ELSE <<>>
             ELSE IF s[p] = "&" THEN then(Field(s, <<q, p - 1>>, None), p + 1)
             ELSE then(Field(s, <<q, p - 1>>, <<p + 1, end - 1>>), end + 1)
    IN items[1]
LOCAL Answer(items) ==
    IF \E i \in DOMAIN items : items[i].name = <<>> THEN [count |-> -1, items |-> <<>>]
    ELSE [count |-> Len(items), items |-> items]
uri_query_Once(s) == Answer(QueryFrom(s, FALSE))
uri_query(s) == Answer(QueryFrom(s, TRUE))

------------------------------------------------------------------------------
Init ==
    \/ what \in {"octets", "url"} /\ text = <<>> /\ more = 0
    \/ what = "uri" /\ text \in Beginnings /\ more = 0
    \/ what = "query" /\ text = <<>> /\ more = 0
Next ==
    /\ \/ what = "octets" /\ more < MaxLen /\ \E o \in Octets : text' = Append(text, o)
       \/ what = "url" /\ more < MaxLen /\ \E c \in Characters : text' = Append(text, c)
       \/ what = "uri" /\ more < MaxMore /\ \E c \in UriCharacters : text' = Append(text, c)
       \/ what = "query" /\ more < MaxQuery /\ \E c \in QueryCharacters : text' = Append(text, c)
    /\ more' = more + 1
    /\ UNCHANGED what
Spec == Init /\ [][Next]_vars

TypeOK ==
    /\ what \in {"octets", "url", "uri", "query"} /\ more \in Nat
    /\ what \in {"octets", "url"} => text \in Seq(0..255)

(* What base64, base64 for URLs, base32 and base16 encode, their decoders    *)
(* give back, with the padding or without it, in the length that the headers *)
(* promise.                                                                  *)
CodesComeBack ==
    what = "octets" =>
        LET b64 == base64_encode(text)
            b32 == base32_encode(text)
            bare(s) == SelectSeq(s, LAMBDA c : c # Pad)
        IN /\ Len(b64) = ((Len(text) + 2) \div 3) * 4 /\ base64_decode(b64) = text
           /\ base64_decode(base64_encode_url(text)) = text
           /\ base64_decode(bare(b64)) = text
           /\ Len(b32) % 8 = 0 /\ base32_decode(b32) = text /\ base32_decode(bare(b32)) = text
           /\ base16_decode(base16_encode(text)) = text

(* A text that url_encode gave whole, url_decode reads as it was, and what   *)
(* it gives in any room fits there; a percent sign that was doubled is read  *)
(* as one.                                                                   *)
UrlComesBack ==
    what = "url" =>
        /\ \A room \in Rooms :
             LET e == url_encode(text, room)
             IN /\ Len(e.out) <= room
                /\ (e.r = 0 /\ Len(e.out) < room) =>
                      /\ url_decode(e.out, room).out = text
                      /\ \A c \in {e.out[i] : i \in DOMAIN e.out} : c \in Unreserved \cup {Percent, Plus}
                /\ Len(url_decode(text, room).out) <= room
        /\ LET twice == Concat(Len(text), LAMBDA i : IF text[i] = Percent THEN <<Percent, Percent>> ELSE <<text[i]>>)
               plain == [i \in DOMAIN text |-> IF text[i] = Plus THEN Space ELSE text[i]]
           IN url_decode(twice, 2 * MaxLen + 1) = [r |-> 0, out |-> plain, skip |-> 0]

(* The words of argv_split are the runs without spaces, as many as           *)
(* count_argc made room for; in a sorted text bsearch finds exactly what is  *)
(* there.                                                                    *)
WordsAndKeysFound ==
    /\ what = "url" =>
         LET argv == argv_split(text)
             starts == {i \in DOMAIN text : text[i] # Space /\ (i = 1 \/ text[i - 1] = Space)}
         IN /\ Len(argv) = count_argc(text)
            /\ Concat(Len(argv), LAMBDA i : argv[i]) = SelectSeq(text, LAMBDA c : c # Space)
            /\ \A i \in DOMAIN argv : argv[i] # <<>> /\ Space \notin {argv[i][j] : j \in DOMAIN argv[i]}
            /\ \A i \in starts : \E j \in DOMAIN argv : IsPrefix(argv[j], SubSeq(text, i, Len(text)))
    /\ (what = "octets" /\ \A i \in 1..(Len(text) - 1) : text[i] < text[i + 1]) =>
         \A key \in Octets : LET i == bsearch(key, text)
                             IN IF \E k \in DOMAIN text : text[k] = key THEN i > 0 /\ text[i] = key ELSE i = 0

(* The parts of text that u names, with their separators, are all of it.     *)
Tiled(u) ==
    LET of(part) == Of(text, part)
        opt(part, t) == IF part = None THEN <<>> ELSE t
        bracket == u.host # None /\ u.host[1] > 1 /\ text[u.host[1] - 1] = "["
        rest == of(u.path) \o opt(u.query, <<"?">> \o of(u.query)) \o opt(u.fragment, <<"#">> \o of(u.fragment))
        all == opt(u.scheme, of(u.scheme) \o <<":", "/", "/">>) \o opt(u.userinfo, of(u.userinfo) \o <<"@">>)
                 \o (IF bracket THEN <<"[">> \o of(u.host) \o <<"]">> ELSE of(u.host))
                 \o opt(u.port, <<":">> \o of(u.port)) \o rest
        path == uri_path(text, u, Len(text) + 3).out
        who == uri_userinfo(text, u)
        empty == \E part \in {u.query, u.fragment} : part # None /\ of(part) = <<>>
    IN /\ \/ text = all
          \/ bracket /\ Append(text, "]") = all
          \/ text = Append(all, ":")
          \/ rest = <<>> /\ IsPrefix(Append(all, ":"), text)
                /\ (IF u.port = None THEN \E i \in DOMAIN text : text[i] \in {"@", "["} ELSE of(u.port) = <<>>)
       /\ u.room <= Len(text) + 5
       /\ empty \/ path = (IF u.path = None THEN <<"/">> ELSE <<>>) \o rest
       /\ of(u.userinfo) \in {who.usr, who.usr \o <<":">> \o who.pwd}

(* The parts of a URI that uri_parse takes, put together with what separates *)
(* them, are the URI; passed over are only a missing ']', a ':' at the end,  *)
(* and a ':' with what follows it where there is another ':', an '@' or a    *)
(* '['.  The parts fit in the memory behind struct uri_t, and uri_path and   *)
(* uri_userinfo give the same text again, but for an empty query or fragment *)
(* (uri_check, uri_parse_complex).                                           *)
PartsTile ==
    LET parsed(u) == u.r = "ok" => Tiled(u)
    IN what = "uri" => parsed(uri_parse(text))

(* uri_query gives every field between '&' with its name up to the first '=' *)
(* and its value, in order, skips empty ones, refuses one without a name,    *)
(* and leaves out a last one that is a name alone.                           *)
FieldsFound ==
    what = "query" =>
        LET starts == SetToSortSeq({i \in DOMAIN text : text[i] # "&" /\ (i = 1 \/ text[i - 1] = "&")},
                                   LAMBDA a, b : a < b)
            end(i) == UpTo(text, i, {"&"})
            field(i) == SubSeq(text, i, end(i))
            seen == SelectSeq(starts, LAMBDA i : end(i) < Len(text) \/ "=" \in {text[j] : j \in i..end(i)})
            r == uri_query(text)
        IN IF \E i \in DOMAIN starts : text[starts[i]] = "=" THEN r.count = -1
           ELSE /\ r.count = Len(seen)
                /\ \A k \in DOMAIN seen :
                     LET f == r.items[k]
                     IN /\ field(seen[k]) = f.name \o (IF f.has THEN <<"=">> \o f.value ELSE <<>>)
                        /\ "=" \notin {f.name[i] : i \in DOMAIN f.name}
==============================================================================
