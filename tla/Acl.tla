--------------------------------- MODULE Acl ---------------------------------
(***************************************************************************)
(* The access control lists of acl/acl.c: an expression is parsed into        *)
(* patterns, and a keyword fetches a sample from the request for its match    *)
(* function. A URI is a sequence of tokens: the two separators, the name of   *)
(* the parameter asked for with its equals sign, and any other text. An       *)
(* address is a word of a few bytes, in the byte order the code has it in.    *)
(***************************************************************************)
EXTENDS Integers, Sequences, SequencesExt, Bitwise

CONSTANTS
    MaxUri,                \* tokens of the longest URI
    WordBytes, ByteBits,   \* bytes of an address and their bits: 4 and 8 in the code
    MaxPatterns            \* patterns that fit in memory

ASSUME AclAssumption ==
    /\ {WordBytes, ByteBits, MaxPatterns} \subseteq Nat \ {0}
    /\ MaxUri \in Nat

\* Four of the keywords; the others differ from path in what they fetch or in the
\* function that compares the texts.
Keywords == {"src", "path", "path_reg", "url_param"}

Tokens == {"?", "&", "name=", "text"}
Width == WordBytes * ByteBits
Word == 0..(2^Width - 1)

VARIABLES
    kw, uri,            \* the keyword; the request's URI
    net,                \* the argument of src: an address and what follows its slash
    args0,              \* what args[0] points to: the argument, or its empty rest
    patterns,           \* how many patterns the expression has
    ipv4,               \* its pattern of an address, in network byte order
    walk_at,            \* where fetch_url_param is in the URI; 0: not walking
    sample, acl_step    \* what was fetched; what comes next

aclVars == <<kw, uri, net, args0, patterns, ipv4, walk_at, sample, acl_step>>
None == <<"none">>
NoCidr == -1

AclInit ==
    /\ kw \in Keywords
    /\ uri \in IF kw \in {"path", "url_param"} THEN UNION {[1..n -> Tokens] : n \in 0..MaxUri}
               ELSE {<<>>}
    /\ net \in IF kw = "src" THEN [addr: Word, cidr: NoCidr..Width]
               ELSE {[addr |-> 0, cidr |-> NoCidr]}
    /\ args0 = "arg" /\ patterns = 0 /\ ipv4 = [addr |-> 0, mask |-> 0]
    /\ walk_at = 0 /\ sample = None /\ acl_step = "parse"

\* htonl and ntohl of the build: the bytes in the opposite order.
htonl(x) ==
    LET byte(i) == (x \div 2^(ByteBits * i)) % 2^ByteBits
    IN MapThenSumSet(LAMBDA i : byte(i) * 2^(ByteBits * (WordBytes - 1 - i)), 0..(WordBytes - 1))

\* What 1U << n may be. A shift by the width is undefined: the processor shifts
\* by n % Width, or nothing is left of the 1.
Shifted(n) == IF n < Width THEN {2^n} ELSE {1, 0}

\* Mutant: the mask stays in the byte order of the machine.
ParseHostOrder(text) ==
    {[addr |-> htonl(text.addr), mask |-> 2^Width - 1 - ((one - 1) % 2^Width)] :
        one \in Shifted(Width - text.cidr)}

\* pattern_parse_ip: the address as inet_pton stores it, and ~((1U << n) - 1) for
\* the n bits of a host, or no host bits when there is no slash.
pattern_parse_ip(text) ==
    IF text.cidr = NoCidr THEN {[addr |-> htonl(text.addr), mask |-> 2^Width - 1]}
    ELSE {[addr |-> htonl(text.addr), mask |-> htonl(2^Width - 1 - ((one - 1) % 2^Width))] :
             one \in Shifted(Width - text.cidr)}

\* acl_expr_parse: the keyword's parser moves args[0] past what it took, and args
\* itself never advances. Of addresses the empty rest is refused, which ends the
\* loop; of strings it is one more, empty pattern, until memory runs out. The
\* build has no library for regular expressions, and their parser refuses all.
acl_expr_parse ==
    /\ acl_step = "parse"
    /\ \/ /\ kw # "path_reg" /\ (kw = "src" => args0 = "arg") /\ patterns < MaxPatterns
          /\ patterns' = patterns + 1 /\ args0' = "rest"
          /\ ipv4' \in IF kw = "src" THEN pattern_parse_ip(net) ELSE {ipv4}
          /\ UNCHANGED acl_step
       \/ /\ kw = "path_reg" \/ (kw = "src" /\ args0 = "rest") \/ patterns = MaxPatterns
          /\ acl_step' = "fetch"
          /\ UNCHANGED <<patterns, args0, ipv4>>
    /\ UNCHANGED <<kw, uri, net, walk_at, sample>>

\* The first c at or after position i (strchr), and one past the end if none.
Find(c, i) ==
    LET at == {j \in i..Len(uri) : uri[j] = c}
    IN IF at = {} THEN Len(uri) + 1 ELSE Min(at)

\* The keyword's fetch function. fetch_path is the URI up to its query, and
\* fetch_url_param has no sample without a query.
AclFetch ==
    /\ acl_step = "fetch"
    /\ CASE kw = "src" -> acl_step' = "match" /\ UNCHANGED <<walk_at, sample>>
         [] kw = "url_param" /\ Find("?", 1) <= Len(uri) ->
              acl_step' = "walk" /\ walk_at' = Find("?", 1) + 1 /\ UNCHANGED sample
         [] kw = "url_param" /\ Find("?", 1) > Len(uri) ->
              acl_step' = "match" /\ UNCHANGED <<walk_at, sample>>
         [] OTHER ->
              acl_step' = "match" /\ sample' = SubSeq(uri, 1, Find("?", 1) - 1) /\ UNCHANGED walk_at
    /\ UNCHANGED <<kw, uri, net, args0, patterns, ipv4>>

\* The loop of fetch_url_param, one field a step: a field that starts with the name
\* ends it, the others are skipped up to the next &.
fetch_url_param ==
    /\ acl_step = "walk"
    /\ CASE walk_at <= Len(uri) /\ uri[walk_at] = "name=" ->
              /\ sample' = SubSeq(uri, walk_at + 1, Find("&", walk_at + 1) - 1)
              /\ acl_step' = "match" /\ UNCHANGED walk_at
         [] walk_at > Len(uri) \/ (uri[walk_at] # "name=" /\ Find("&", walk_at) > Len(uri)) ->
              acl_step' = "match" /\ UNCHANGED <<walk_at, sample>>
         [] OTHER -> walk_at' = Find("&", walk_at) + 1 /\ UNCHANGED <<acl_step, sample>>
    /\ UNCHANGED <<kw, uri, net, args0, patterns, ipv4>>

AclNext == acl_expr_parse \/ AclFetch \/ fetch_url_param

\* acl_match_ip, of a client's address in network byte order.
acl_match_ip(s_addr, pattern) ==
    (htonl(s_addr) & htonl(pattern.mask)) = (htonl(pattern.addr) & htonl(pattern.mask))

-----------------------------------------------------------------------------
AclTypeOK ==
    /\ patterns \in 0..MaxPatterns /\ walk_at \in 0..(Len(uri) + 1)
    /\ ipv4 \in [addr: Word, mask: Word]
    /\ acl_step \in {"parse", "fetch", "walk", "match"} /\ (walk_at # 0 => kw = "url_param")

\* What a query's fields say, without a walk: the fields are what stands between
\* the first ? and the &s, and the parameter's value is the rest of the first
\* field that starts with its name. fetch_url_param (acl.c:97) finds that one, also
\* when several fields have the name or when it occurs inside a field.
UrlParamFirst ==
    (acl_step = "match" /\ kw = "url_param") =>
        LET query == Find("?", 1)
            starts == {i \in DOMAIN uri : i > query /\ (i = query + 1 \/ uri[i - 1] = "&")}
            named == {i \in starts : uri[i] = "name="}
            rest == SubSeq(uri, Min(named) + 1, Len(uri))
        IN IF named = {} THEN sample = None
           ELSE /\ IsPrefix(sample, rest) /\ "&" \notin ToSet(sample)
                /\ sample # rest => rest[Len(sample) + 1] = "&"

\* The clients that the parsed pattern matches, through two changes of the byte
\* order (acl.c:175, acl.c:237), are the 2^(Width - cidr) addresses of the network;
\* without a slash it is the one address. A cidr of 0 shifts by the width of the
\* word: the pattern then matches every client or the one address, as the build
\* has it, and nothing between the two.
NetExact ==
    (kw = "src" /\ acl_step = "match") =>
        LET matched == {addr \in Word : acl_match_ip(htonl(addr), ipv4)}
            size == 2^(Width - net.cidr)
            base == net.addr - (net.addr % size)
        IN CASE net.cidr = NoCidr -> matched = {net.addr}
             [] net.cidr = 0 -> matched \in {Word, {net.addr}}
             [] OTHER -> matched = base..(base + size - 1)

\* What the loop and the masks of acl.c compute is what definitions without loops
\* and masks say: the parameter of a query and the networks.
AclExact == UrlParamFirst /\ NetExact
=============================================================================
