-------------------------------- MODULE Addr --------------------------------
(***************************************************************************)
(* class addr of system/addr.h: an address is 32 bytes, its family and 31  *)
(* bytes of data.  The data is cut where the code cuts it: bytes 0-1 hold  *)
(* the port, 2-5 what an IPv4 address needs, 6-17 the rest of an IPv6 one, *)
(* 18-30 the rest of a path.  Each part is a number, its first byte the    *)
(* most significant, so that bytes compare as the numbers do.              *)
(*                                                                         *)
(* Operations return the address after them; set_port() throws, and with   *)
(* it init(), for a unix domain socket.                                    *)
(***************************************************************************)
EXTENDS Naturals, Sequences

family_v4  == 0
family_v6  == 1
family_uds == 2

AddrType == [family : 0..255, port : Nat, quad : Nat, dozen : Nat, tail : Nat]
Valid(a) == a.family \in {family_v4, family_v6, family_uds}

\* addr(): the family is whatever was there.
NewAddr(garbage) ==
    [family |-> garbage, port |-> 0, quad |-> 0, dozen |-> 0, tail |-> 0]

SetPortThrows(a) == a.family = family_uds
SetPort(a, p)    == IF SetPortThrows(a) THEN a ELSE [a EXCEPT !.port = p]

\* init() from a sockaddr_in, a sockaddr_in6 and a sockaddr_un: what it throws it
\* throws after the family and before the data is set.
WithFamily(a, fam)   == [a EXCEPT !.family = fam]
InitThrows(a, fam)   == SetPortThrows(WithFamily(a, fam))
InitV4(a, fam, p, q) ==
    IF InitThrows(a, fam) THEN WithFamily(a, fam)
    ELSE [SetPort(WithFamily(a, fam), p) EXCEPT !.quad = q]
InitV6(a, fam, p, q, d) ==
    IF InitThrows(a, fam) THEN WithFamily(a, fam)
    ELSE [SetPort(WithFamily(a, fam), p) EXCEPT !.quad = q, !.dozen = d]
InitUds(a, fam, p, path) ==
    IF InitThrows(a, fam) THEN WithFamily(a, fam)
    ELSE [a EXCEPT !.family = fam, !.port = path[1], !.quad = path[2],
                   !.dozen = path[3], !.tail = path[4]]

\* resolv(): the first result of getaddrinfo, of either family, in the address of
\* the request.
ResolvedV4(a, p, q)    == InitV4(a, family_v4, p, q)
ResolvedV6(a, p, q, d) == InitV6(a, family_v4, p, q, d)

\* What operator== and addrcmp compare.
Compared(a) ==
    CASE a.family = family_v4  -> <<a.port, a.quad>>
      [] a.family = family_v6  -> <<a.port, a.quad, a.dozen>>
      [] a.family = family_uds -> <<a.port, a.quad, a.dozen, a.tail>>

Equal(a, b) == a.family = b.family /\ Compared(a) = Compared(b)

\* addrcmp
Less(a, b) ==
    \/ a.family < b.family
    \/ /\ a.family = b.family
       /\ \E i \in 1..4 :
              /\ i \in DOMAIN Compared(a)
              /\ Compared(a)[i] < Compared(b)[i]
              /\ \A j \in 1..4 : j < i => Compared(a)[j] = Compared(b)[j]

\* to_posix(), as a list of what the sockaddr holds.
ToPosix(a) ==
    CASE a.family = family_v4  -> <<"PF_INET", a.port, a.quad>>
      [] a.family = family_v6  -> <<"PF_INET6", a.port, a.quad, a.dozen>>
      [] a.family = family_uds -> <<"PF_UNIX", a.port, a.quad, a.dozen, a.tail>>

\* str(), which std::hash<addr> takes: the 32 bytes.
Str(a) == <<a.family, a.port, a.quad, a.dozen, a.tail>>
=============================================================================
