--------------------------------- MODULE Ipv4 ---------------------------------
(***************************************************************************)
(* farm/core/ipv4.cpp: the ranges a sweep goes through and the order of     *)
(* the device list.  An octet has OctetBits bits (8 in the code) and all     *)
(* arithmetic is modulo the size of the address space, as on quint32.        *)
(*                                                                         *)
(* What an operator types is a record: `cidr` is base/prefix, `dash` has a   *)
(* second address or, as `octet`, only its last number, which may be too     *)
(* large; `single` is one address.  A port that follows an address is        *)
(* dropped (hostOf), and text that is no address is refused (parse).         *)
(***************************************************************************)
EXTENDS Integers, FiniteSets, Sequences

CONSTANT OctetBits

Octet     == 0..(2^OctetBits - 1)
Bits      == 4 * OctetBits
Space     == 2^Bits
Addresses == 0..(Space - 1)

Cidr(base, prefix)     == [kind |-> "cidr", base |-> base, prefix |-> prefix]
Dash(first, last)      == [kind |-> "dash", first |-> first, last |-> last]
DashOctet(first, last) == [kind |-> "octet", first |-> first, last |-> last]
Single(host)           == [kind |-> "single", host |-> host]

\* A range; Invalid is what the parsers answer with false.
Range(first, last) == [first |-> first, last |-> last]
Invalid == Range(1, 0)
IsValid(r) == r.last >= r.first
-----------------------------------------------------------------------------
\* parseCidr: the mask and the broadcast address by bits; a block of at least four
\* addresses loses its first and its last.
ParseCidr(base, prefix) ==
    LET size      == 2^(Bits - prefix)
        network   == base - (base % size)
        broadcast == network + size - 1
    IN  CASE prefix \notin 0..Bits -> Invalid
          [] prefix \in 0..Bits /\ prefix >= Bits - 1 -> Range(network, broadcast)
          [] prefix \in 0..Bits /\ prefix < Bits - 1 ->
                Range((network + 1) % Space, (broadcast - 1) % Space)

\* The two forms of a range with a dash; a range that runs backwards is refused.
Ordered(first, last) == IF last < first THEN Invalid ELSE Range(first, last)

ParseRange(text) ==
    CASE text.kind = "cidr"   -> ParseCidr(text.base, text.prefix)
      [] text.kind = "single" -> Range(text.host, text.host)
      [] text.kind = "dash"   -> Ordered(text.first, text.last)
      [] text.kind = "octet"  ->
            IF text.last \notin Octet THEN Invalid
            ELSE Ordered(text.first, text.first - (text.first % 2^OctetBits) + text.last)

\* Range::count, which wraps for the whole space.
Count(r) == IF IsValid(r) THEN (r.last - r.first + 1) % Space ELSE 0

Expand(r, maxHosts) ==
    LET count == IF Count(r) <= maxHosts THEN Count(r) ELSE maxHosts
    IN  IF ~IsValid(r) \/ maxHosts <= 0 THEN <<>>
        ELSE [i \in 1..count |-> r.first + i - 1]

\* lessThan: endpoints by address and port, before the USB serials, which are in
\* alphabetical order.  A serial is [ip |-> FALSE, name |-> its place in the alphabet].
LessThan(a, b) ==
    IF a.ip # b.ip THEN a.ip
    ELSE IF ~a.ip THEN a.name < b.name
    ELSE a.address < b.address \/ (a.address = b.address /\ a.port < b.port)
-----------------------------------------------------------------------------
(* What they promise *)

\* The hosts of a CIDR block: the addresses that share its prefix, all of them if there
\* are at most two, and otherwise without the first and the last.
Usable(base, prefix) ==
    LET block == {a \in Addresses : a \div 2^(Bits - prefix) = base \div 2^(Bits - prefix)}
    IN  IF Cardinality(block) <= 2 THEN block
        ELSE {a \in block : (\E b \in block : b < a) /\ (\E b \in block : b > a)}

\* The addresses a text stands for.
Meant(text) ==
    CASE text.kind = "cidr"   -> IF text.prefix \in 0..Bits THEN Usable(text.base, text.prefix) ELSE {}
      [] text.kind = "single" -> {text.host}
      [] text.kind = "dash"   -> {a \in Addresses : text.first <= a /\ a <= text.last}
      [] text.kind = "octet"  ->
            IF text.last \notin Octet THEN {}
            ELSE {a \in Addresses : /\ a \div 2^OctetBits = text.first \div 2^OctetBits
                                    /\ text.first <= a /\ a % 2^OctetBits <= text.last}

\* ipv4.h:42-57: a sweep tries the addresses meant, from the lowest up, each once, and
\* as many as it may.  (The range of all addresses is left out: its count is 0.)
ExpandsAsMeant(text, maxHosts) ==
    LET hosts == Expand(ParseRange(text), maxHosts)
        tried == {hosts[i] : i \in DOMAIN hosts}
    IN  Meant(text) # Addresses =>
            /\ tried \subseteq Meant(text)
            /\ \A a \in Meant(text) \ tried : \A b \in tried : b < a
            /\ Len(hosts) = Cardinality(tried)
            /\ Cardinality(tried) < maxHosts => tried = Meant(text)

\* std::sort and the device table need a strict weak order.
IsStrictWeakOrder(S) ==
    /\ \A a \in S : ~LessThan(a, a)
    /\ \A a, b, c \in S :
           /\ LessThan(a, b) /\ LessThan(b, c) => LessThan(a, c)
           /\ ~LessThan(a, b) /\ ~LessThan(b, c) => ~LessThan(a, c)
=============================================================================
