------------------------------- MODULE Address -------------------------------
(***************************************************************************)
(* net::socket::address and its classes ipv4, ipv6 and local (socket.h,    *)
(* socket.cpp): parsing, formatting, comparison and assignment of socket   *)
(* addresses, on the memory of a sockaddr_storage.                         *)
(*                                                                         *)
(* That memory is a sequence of cells, which are the pieces that the three *)
(* kinds of addresses put different members into:                          *)
(*                                                                         *)
(*   cell        1        2      3          4      5        6        7   8 *)
(*   AF_INET     family   port   sin_addr   zero                           *)
(*   AF_INET6    family   port   flowinfo   sin6_addr       scope_id       *)
(*   AF_UNIX     family   path ...................................         *)
(*                                                                         *)
(* A text is a sequence of tokens: brackets, colons, decimal digits, a     *)
(* dotted quad ("quad"), and runs of other characters.                     *)
(***************************************************************************)
EXTENDS Integers, Sequences, SequencesExt, TLC

CONSTANTS
  Object,    \* objects of class address
  TextSets,  \* sets of texts that callers build addresses of
  Ports,     \* ports that callers give beside a host
  Sizes,     \* sizes of the buffers given to to_string()
  MaxOps     \* bound on the operations

MaxPort == 65535

ASSUME AddressAssumption ==
  /\ \A texts \in TextSets : texts \subseteq Seq(STRING)
  /\ Ports \subseteq 0..MaxPort
  /\ Sizes \subseteq Nat

Digits == <<"0", "1", "2", "3", "4", "5", "6", "7", "8", "9">>
Digit  == [c \in ToSet(Digits) |-> CHOOSE d \in 0..9 : Digits[d + 1] = c]

(* Characters of the tokens that have more than one. *)
Characters ==
  [c \in {"::", "quad", "name45", "name46", "name107", "name108"} |->
     CASE c = "::"     -> 2   [] c = "quad"    -> 9    [] c = "name45" -> 45
       [] c = "name46" -> 46  [] c = "name107" -> 107  [] c = "name108" -> 108]

HostSize == 46    \* INET6_ADDRSTRLEN
PathSize == 108   \* sizeof(sun_path)

(* strlen(). *)
Length(t) ==
  FoldLeft(LAMBDA n, c : n + IF c \in DOMAIN Characters THEN Characters[c] ELSE 1,
           0, t)

Nothing == <<"nothing">>

-----------------------------------------------------------------------------
(* parse_port() and extract_ip_port().                                     *)

(* Mutant of ParsePort: the number wraps around like an in_port_t. *)
ParsePortWraps(t) ==
  LET n == FoldLeft(LAMBDA m, c : IF m = -1 \/ c \notin DOMAIN Digit THEN -1
                                  ELSE (m * 10 + Digit[c]) % (MaxPort + 1),
                    0, t)
  IN IF n > 0 THEN n ELSE -1

(* The port, or -1: digits, as long as the number is not too large; not 0. *)
ParsePort(t) ==
  LET Step(m, c) == IF \/ m = -1 \/ c \notin DOMAIN Digit
                       \/ m * 10 + Digit[c] > MaxPort
                    THEN -1 ELSE m * 10 + Digit[c]
      n == FoldLeft(Step, 0, t)
  IN IF n > 0 THEN n ELSE -1

Colons(t) == {i \in DOMAIN t : t[i] \in {":", "::"}}

(* Host and port: what is before and behind the last colon (half of a      *)
(* "::" belongs to the host).  A host that begins with a bracket must end  *)
(* with one, and have something between them.                              *)
ExtractIpPort(t) ==
  IF Colons(t) = {} THEN Nothing
  ELSE LET colon  == CHOOSE i \in Colons(t) : \A j \in Colons(t) : i >= j
           before == SubSeq(t, 1, colon - 1)
                       \o (IF t[colon] = "::" THEN <<":">> ELSE <<>>)
           open   == before # <<>> /\ before[1] = "["
           host   == IF open THEN SubSeq(before, 2, Len(before) - 1) ELSE before
           port   == ParsePort(SubSeq(t, colon + 1, Len(t)))
       IN IF \/ before = <<>> \/ port = -1
             \/ open /\ (Length(before) <= 2 \/ Last(before) # "]")
             \/ Length(host) >= HostSize
          THEN Nothing ELSE <<host, port>>

(* inet_pton(): the address that a text stands for, here its usual text;   *)
(* inet_ntop() gives that back.                                            *)
Ipv4 == [host \in {<<"quad">>} |-> host]
Ipv6 == [host \in {<<"::">>, <<"0", "::">>, <<"::", "7">>, <<"7", "::", "7">>} |->
           IF host = <<"0", "::">> THEN <<"::">> ELSE host]

-----------------------------------------------------------------------------
(* Memory.                                                                 *)

Storage == 8   \* cells of a sockaddr_storage
SizeOf  == [AF_INET |-> 4, AF_INET6 |-> 6, AF_UNIX |-> 7]

Zero == <<"zero", "zero">>
Junk == <<"junk", "junk">>   \* what was never written

VARIABLES
  texts,   \* the texts that callers have
  mem,     \* mem[a]: _M_addr
  len,     \* len[a]: _M_addrlen, in cells
  from,    \* history: where a has its content from
  typed,   \* typed[f]: _M_addr of an object of class ipv4, ipv6 or local
  origin,  \* history: where typed[f] has its content from
  basis,   \* history: what the last build() of typed[f] was given
  ops      \* operations done

vars == <<texts, mem, len, from, typed, origin, basis, ops>>

Family(m) == m[1][2]

(* What the bytes m become when n cells of c are written over their start. *)
Over(m, c, n) == [i \in DOMAIN m |-> IF i <= n /\ i <= Len(c) THEN c[i] ELSE m[i]]

(* ipv4::build() and ipv6::build() write the address and the port only. *)
WriteIp(m, f, ip, port) ==
  IF f = "AF_INET" THEN [m EXCEPT ![2] = <<"port", port>>, ![3] = <<"ip", ip>>]
  ELSE [m EXCEPT ![2] = <<"port", port>>, ![4] = <<"ip", ip>>, ![5] = <<"ip", ip>>]

Build4(m, host, port) ==
  WriteIp([m EXCEPT ![1] = <<"family", "AF_INET">>, ![4] = Zero], "AF_INET",
          Ipv4[host], port)

Build6(m, host, port) ==
  WriteIp([m EXCEPT ![1] = <<"family", "AF_INET6">>, ![3] = Zero, ![6] = Zero],
          "AF_INET6", Ipv6[host], port)

(* The path fills the member with zeros. *)
BuildPath(m, path) ==
  Over(m, <<<<"family", "AF_UNIX">>, <<"path", path>>, Zero, Zero, Zero, Zero, Zero>>, 7)

(* build() with a host and a port: the memory it leaves, or nothing. *)
BuildIp(m, host, port) ==
  CASE host \in DOMAIN Ipv4 -> Build4(m, host, port)
    [] host \in DOMAIN Ipv6 -> Build6(m, host, port)
    [] OTHER -> Nothing

(* What a build() was given: a text, and a port or none.                   *)
NoPort == -1

IsPath(t) == Length(t) \in 1..(PathSize - 1)

(* build() with a text only: if it has the form of host and port it is no  *)
(* path, even if the host is none.                                         *)
Build(m, t) ==
  LET ip == ExtractIpPort(t)
  IN CASE ip # Nothing             -> BuildIp(m, ip[1], ip[2])
       [] ip = Nothing /\ IsPath(t) -> BuildPath(m, t)
       [] OTHER                    -> Nothing

(* build() of address with a text only, or with a host and a port. *)
BuildGiven(m, given) == IF given[2] = NoPort THEN Build(m, given[1])
                        ELSE BuildIp(m, given[1], given[2])

(* build() of the classes for IP with a host and a port. *)
BuildTypedIp(m, f, host, port) ==
  LET Pton == IF f = "AF_INET" THEN Ipv4 ELSE Ipv6
  IN IF host \in DOMAIN Pton THEN WriteIp(m, f, Pton[host], port) ELSE Nothing

(* build() of the class for family f with a text only. *)
BuildTyped(m, f, t) ==
  LET ip == ExtractIpPort(t)
  IN IF f = "AF_UNIX" THEN IF IsPath(t) THEN BuildPath(m, t) ELSE Nothing
     ELSE IF ip # Nothing THEN BuildTypedIp(m, f, ip[1], ip[2]) ELSE Nothing

(* Mutant of Construct: the scope keeps what was there. *)
ConstructUnscoped(f) ==
  [i \in 1..SizeOf[f] |->
     CASE i = 1 -> <<"family", f>>
       [] <<f, i>> \in {<<"AF_INET", 4>>, <<"AF_INET6", 3>>} -> Zero
       [] OTHER -> Junk]

(* The constructors: the address (the path) and the port have no value. *)
Construct(f) ==
  [i \in 1..SizeOf[f] |->
     CASE i = 1 -> <<"family", f>>
       [] <<f, i>> \in {<<"AF_INET", 4>>, <<"AF_INET6", 3>>, <<"AF_INET6", 6>>} -> Zero
       [] OTHER -> Junk]

-----------------------------------------------------------------------------
(* to_string().                                                            *)

(* snprintf() of a port. *)
Decimal[n \in 0..MaxPort] ==
  LET digit == Digits[(n % 10) + 1]
  IN IF n < 10 THEN <<digit>> ELSE Append(Decimal[n \div 10], digit)

(* Mutant of Port: the bytes stay in the order of the network. *)
PortSwapped(m) == Decimal[(m[2][2] % 256) * 256 + m[2][2] \div 256]

Port(m) == Decimal[m[2][2]]

(* Mutant of Fits: no place for the terminator. *)
FitsExactly(t, left) == Length(t) <= left

(* inet_ntop() and snprintf() need place for the terminator. *)
Fits(t, left) == Length(t) < left

(* An abstract name, whose first byte is zero. *)
IsAbstract(path) == path # <<>> /\ path[1] = "nul"

(* The text of the address in m, of which so many cells are valid, written *)
(* to a buffer of size characters; or nothing.  Of an abstract name the    *)
(* code copies all of sun_path, with what is behind the name; the text is  *)
(* the name here, and only the place that it needs is that of the copy.    *)
ToText(m, valid, size) ==
  CASE Family(m) = "AF_INET" ->
         LET ip   == m[3][2]
             port == <<":">> \o Port(m)
         IN IF Fits(ip, size) /\ Fits(port, size - Length(ip))
            THEN ip \o port ELSE Nothing
    [] Family(m) = "AF_INET6" ->
         LET ip   == m[4][2]
             port == <<"]", ":">> \o Port(m)
         IN IF size > 1 /\ Fits(ip, size - 1) /\ Fits(port, size - (1 + Length(ip)))
            THEN <<"[">> \o ip \o port ELSE Nothing
    [] Family(m) = "AF_UNIX" /\ valid > 1 ->
         LET path == m[2][2]
         IN IF IF IsAbstract(path) THEN PathSize <= size ELSE Fits(path, size)
            THEN path ELSE Nothing
    [] OTHER -> Nothing

-----------------------------------------------------------------------------
(* Comparison.                                                             *)

(* Mutant of Same: the whole storage is compared. *)
SameStorage(a, b) == len[a] = len[b] /\ mem[a] = mem[b]

(* operator== of two addresses: memcmp(). *)
Same(a, b) == /\ len[a] = len[b]
              /\ \A i \in 1..len[a] : mem[a][i] = mem[b][i]

(* operator== with a sockaddr, and of the classes: member by member. *)
Equal(m1, m2) ==
  /\ m1[1] = m2[1]
  /\ CASE Family(m1) = "AF_INET"  -> m1[2] = m2[2] /\ m1[3] = m2[3]
       [] Family(m1) = "AF_INET6" -> m1[2] = m2[2] /\ m1[4] = m2[4] /\ m1[5] = m2[5]
       [] Family(m1) = "AF_UNIX"  -> /\ m1[2] = m2[2]
                                     /\ \/ m1[2][1] = "path" /\ ~IsAbstract(m1[2][2])
                                        \/ \A i \in 3..7 : m1[i] = m2[i]
       [] OTHER -> FALSE

-----------------------------------------------------------------------------
(* What callers do.                                                        *)

Does == ops < MaxOps /\ ops' = ops + 1

Set(a, m, n, source) == /\ mem' = [mem EXCEPT ![a] = m]
                        /\ len' = [len EXCEPT ![a] = n]
                        /\ from' = [from EXCEPT ![a] = source]
                        /\ UNCHANGED <<texts, typed, origin, basis>>

(* build() of a; an object keeps its content when it fails. *)
BuildAddress(a, given) ==
  LET m == BuildGiven(mem[a], given)
  IN Does /\ m # Nothing /\ Set(a, m, SizeOf[Family(m)], "text")

BuildText(a, t) == BuildAddress(a, <<t, NoPort>>)

(* build() with a host and a port, which start() of net::sender calls too: *)
(* any port, also 0.                                                       *)
BuildHostPort(a, host, port) == BuildAddress(a, <<host, port>>)

(* operator= copies as many bytes as the other has. *)
Assign(a, b) ==
  Does /\ Set(a, Over(mem[a], mem[b], len[b]), len[b], from[b])

(* What the kernel gives for a peer: an IPv6 address with a scope, an      *)
(* unnamed local socket, names that fill the path or a part of it only     *)
(* (not the name of 108 bytes, whose terminator is behind the sockaddr_un).*)
Peers ==
  { <<<<"family", "AF_INET">>, <<"port", 7>>, <<"ip", <<"quad">>>>, Zero>>,
    <<<<"family", "AF_INET6">>, <<"port", 7>>, Zero, <<"ip", <<"::", "7">>>>,
      <<"ip", <<"::", "7">>>>, <<"scope", 1>>>>,
    <<<<"family", "AF_UNIX">>>>,
    <<<<"family", "AF_UNIX">>, <<"path", <<"p">>>>>>,
    <<<<"family", "AF_UNIX">>, <<"path", <<"nul", "p">>>>>>,
    <<<<"family", "AF_UNIX">>, <<"path", <<"name107">>>>, Zero, Zero, Zero, Zero,
      Zero>> }

Whole(peer) == Len(peer) = SizeOf[Family(peer)]

(* operator= of a sockaddr copies a structure of its family. *)
AssignSockaddr(a, peer) ==
  Does /\ Whole(peer) /\ Set(a, Over(mem[a], peer, Len(peer)), Len(peer), "sockaddr")

(* One object for all the peers of a listening socket for IP. *)
AcceptsAgain(a, peer) ==
  from[a] = "peer" /\ Family(mem[a]) = Family(peer) /\ Family(peer) # "AF_UNIX"

(* Mutant of Accept: the length is not returned. *)
AcceptKeepsLength(a, peer) ==
  Does /\ Set(a, Over(mem[a], peer, len[a]), len[a],
              IF from[a] = "none" \/ AcceptsAgain(a, peer) THEN "peer" ELSE "reused")

(* socket::accept() stores as much of the peer's address as the length of  *)
(* the object allows, and then the full length: an object that held a      *)
(* shorter address is left with a part of its old content.                 *)
Accept(a, peer) ==
  Does /\ Set(a, Over(mem[a], peer, len[a]), Len(peer),
              IF from[a] = "none" \/ AcceptsAgain(a, peer) THEN "peer" ELSE "reused")

SetTyped(f, m, source, given) ==
  /\ typed' = [typed EXCEPT ![f] = m]
  /\ origin' = [origin EXCEPT ![f] = source]
  /\ basis' = [basis EXCEPT ![f] = given]
  /\ UNCHANGED <<texts, mem, len, from>>

(* What a sockaddr left in the object and build() or port() does not write *)
(* stays.                                                                  *)
Mixes(f, source) == IF origin[f] \in {"sockaddr", "mixed"} THEN "mixed" ELSE source

(* build() of the class for f with a text, and with a host and a port. *)
BuildTypedText(f, t) ==
  LET m == BuildTyped(typed[f], f, t)
  IN Does /\ m # Nothing /\ SetTyped(f, m, Mixes(f, "text"), <<t, NoPort>>)

BuildTypedHostPort(f, host, port) ==
  LET m == BuildTypedIp(typed[f], f, host, port)
  IN /\ Does /\ f # "AF_UNIX" /\ m # Nothing
     /\ SetTyped(f, m, Mixes(f, "text"), <<host, port>>)

(* local::build() of bytes, which may fill the path up to its last one. *)
BuildTypedBytes(t) ==
  /\ Does /\ Length(t) \in 1..PathSize
  /\ SetTyped("AF_UNIX", BuildPath(typed["AF_UNIX"], t), "text", <<t, NoPort>>)

(* port() of the classes for IP. *)
SetPort(f, port) ==
  /\ Does /\ f # "AF_UNIX"
  /\ SetTyped(f, [typed[f] EXCEPT ![2] = <<"port", port>>], Mixes(f, "port"), basis[f])

(* The constructor for a sockaddr copies all of it; operator= copies the   *)
(* members, which are all but the family and, in AF_INET, what follows.    *)
Assigned(m, peer) ==
  [i \in DOMAIN m |->
     IF i = 1 \/ (i = 4 /\ Family(peer) = "AF_INET") THEN m[i] ELSE peer[i]]

AssignTyped(peer) ==
  LET f == Family(peer)
  IN /\ Does /\ Whole(peer)
     /\ \E m \in {peer, Assigned(typed[f], peer)} :
          SetTyped(f, m, "sockaddr", basis[f])

Init ==
  /\ texts \in TextSets
  /\ mem = [a \in Object |-> [i \in 1..Storage |-> Junk]]
  /\ len = [a \in Object |-> Storage]
  /\ from = [a \in Object |-> "none"]
  /\ typed = [f \in DOMAIN SizeOf |-> Construct(f)]
  /\ origin = [f \in DOMAIN SizeOf |-> "none"]
  /\ basis = [f \in DOMAIN SizeOf |-> <<Nothing, NoPort>>]
  /\ ops = 0

Next == \/ \E a \in Object :
             \/ \E t \in texts : \/ BuildText(a, t)
                                 \/ \E port \in Ports : BuildHostPort(a, t, port)
             \/ \E b \in Object \ {a} : Assign(a, b)
             \/ \E peer \in Peers : AssignSockaddr(a, peer) \/ Accept(a, peer)
        \/ \E f \in DOMAIN SizeOf, t \in texts :
             \/ BuildTypedText(f, t)
             \/ \E port \in Ports : BuildTypedHostPort(f, t, port)
        \/ \E f \in DOMAIN SizeOf, port \in Ports : SetPort(f, port)
        \/ \E t \in texts : BuildTypedBytes(t)
        \/ \E peer \in Peers : AssignTyped(peer)

Spec == Init /\ [][Next]_vars

-----------------------------------------------------------------------------
(* Properties.                                                             *)

(* The number that digits stand for, of any size; -1 if there is another. *)
Number(t) ==
  IF t = <<>> \/ \E i \in DOMAIN t : t[i] \notin DOMAIN Digit THEN -1
  ELSE FoldLeft(LAMBDA n, c : n * 10 + Digit[c], 0, t)

(* The hosts and ports that t is the usual text of, with or without        *)
(* brackets around the host.                                               *)
Denoted(t) ==
  {hp \in (DOMAIN Ipv4 \cup DOMAIN Ipv6) \X {SubSeq(t, i, Len(t)) : i \in DOMAIN t} :
     /\ Number(hp[2]) \in 1..MaxPort
     /\ t \in {hp[1] \o <<":">> \o hp[2], <<"[">> \o hp[1] \o <<"]", ":">> \o hp[2]}}

(* What build() must leave for a host and a port. *)
Expected(host, port) ==
  IF host \in DOMAIN Ipv4
  THEN <<<<"family", "AF_INET">>, <<"port", port>>, <<"ip", Ipv4[host]>>, Zero>>
  ELSE <<<<"family", "AF_INET6">>, <<"port", port>>, Zero, <<"ip", Ipv6[host]>>,
         <<"ip", Ipv6[host]>>, Zero>>

(* build() (socket.cpp) accepts every text of an IP address with a port in *)
(* 1..65535 and stores exactly it, whatever the object held before; every  *)
(* other text that it accepts it stores as the path, uncut.                *)
BuildsDenoted ==
  \A a \in Object, t \in texts :
    LET m == Build(mem[a], t)
    IN IF Denoted(t) # {}
       THEN \E hp \in Denoted(t) :
              LET c == Expected(hp[1], Number(hp[2]))
              IN m # Nothing /\ SubSeq(m, 1, Len(c)) = c /\ SizeOf[Family(m)] = Len(c)
       ELSE m # Nothing => /\ Family(m) = "AF_UNIX" /\ m[2] = <<"path", t>>
                           /\ \A i \in 3..7 : m[i] = Zero
                           /\ Length(t) < PathSize

(* The memory of a new object. *)
New == [i \in 1..Storage |-> Junk]

HasPortZero(m) == Family(m) # "AF_UNIX" /\ m[2][2] = 0

(* An address can be read back: to_string() of an address that build()     *)
(* made, of a text or of a host and a port, gives, if the buffer is large  *)
(* enough, a text of which build() makes the same bytes - in any object,   *)
(* after any assignments.  The one exception is port 0, which build() with *)
(* a host and a port accepts and to_string() writes: build() with a text   *)
(* takes that text for a path.                                             *)
RoundTrip ==
  \A a \in Object, n \in Sizes :
    LET s == ToText(mem[a], len[a], n)
        m == Build(New, s)
    IN from[a] = "text" /\ s # Nothing
         => IF HasPortZero(mem[a])
            THEN m # Nothing /\ Family(m) = "AF_UNIX"
            ELSE m # Nothing /\ SubSeq(m, 1, len[a]) = SubSeq(mem[a], 1, len[a])

(* to_string() never writes beyond the buffer: what it returns has place   *)
(* for the terminator, and it only refuses what has not (or is unnamed).   *)
FormatFits ==
  \A a \in Object : from[a] \notin {"none", "reused"} =>
    LET s == ToText(mem[a], len[a], 2 * PathSize)
    IN \A n \in Sizes :
         ToText(mem[a], len[a], n) =
           IF s = Nothing \/ n < (IF IsAbstract(s) THEN PathSize ELSE Length(s) + 1)
           THEN Nothing ELSE s

(* The length covers what equal() compares.  It does not for an unnamed    *)
(* local socket, nor for an abstract name that the kernel gave with a      *)
(* length of its own: equal() of two sockaddr_un compares all of sun_path  *)
(* when the first byte is zero (socket.h, 652-660), memcmp() only addrlen  *)
(* bytes, and what is behind them is left of earlier content.              *)
Covered(a) ==
  \/ Family(mem[a]) # "AF_UNIX"
  \/ len[a] = SizeOf["AF_UNIX"]
  \/ len[a] > 1 /\ ~IsAbstract(mem[a][2][2])

(* The two comparisons agree: addresses with the same bytes (memcmp() of   *)
(* operator==) have equal members, if their length covers these; and of    *)
(* addresses that build() made, of whatever texts, hosts and ports, those  *)
(* with equal members have the same bytes, whatever is left of earlier     *)
(* content behind them.                                                    *)
EqualityAgrees ==
  \A a, b \in Object :
    /\ (/\ {from[a], from[b]} \cap {"none", "reused"} = {}
        /\ Covered(a) /\ Same(a, b))
         => Equal(mem[a], mem[b])
    /\ from[a] = "text" /\ from[b] = "text" /\ Equal(mem[a], mem[b]) => Same(a, b)

(* accept() (socket.h) into a new object, or again into one that served    *)
(* for a peer of the same listening socket for IP, leaves the peer's       *)
(* address and its length, and a copy of that object has both.             *)
AcceptedIsPeer ==
  \A a \in Object : from[a] = "peer" =>
    \E peer \in Peers : SubSeq(mem[a], 1, len[a]) = peer

(* An object of class ipv4, ipv6 or local that build() filled after its    *)
(* constructor has the bytes that build() of class address gives for the   *)
(* same text, or host and port: neither garbage nor a part missing.        *)
TypedAgrees ==
  \A f \in DOMAIN SizeOf :
    LET m == BuildGiven(New, basis[f])
    IN origin[f] = "text" /\ m # Nothing /\ Family(m) = f
         => SubSeq(m, 1, SizeOf[f]) = typed[f]
=============================================================================
