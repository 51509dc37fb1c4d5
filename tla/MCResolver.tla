---------------------------- MODULE MCResolver -----------------------------
(* Small instances of Resolver for TLC, and of what is proved of the        *)
(* addresses that a resolution returns.                                      *)
EXTENDS Resolver, Addr

CONSTANTS s1, s2, a1, a2, n1, n2, t1, t2, p1

SmallAddrs == [family : 0..2, port : 0..1, quad : 0..1, dozen : 0..1, tail : 0..1]

\* addrcmp orders addresses, and operator== agrees with it.
ASSUME AddressesAreOrdered ==
    \A a, b \in SmallAddrs :
        /\ Less(a, b) \/ Less(b, a) <=> ~Equal(a, b)
        /\ Less(a, b) => \A c \in SmallAddrs : Less(b, c) => Less(a, c)

\* init() and to_posix() of an address that has been used before.
ASSUME AddressesConvertBack ==
    \A a \in SmallAddrs, p, q, d \in 2..3 :
        /\ ToPosix(InitV4(a, family_v4, p, q)) = <<"PF_INET", p, q>>
        /\ ToPosix(InitV6(a, family_v6, p, q, d)) = <<"PF_INET6", p, q, d>>

\* No path is ever set, and an IPv6 host becomes an IPv4 one.
ASSUME AddressesAreLimited ==
    /\ \A a \in SmallAddrs : InitUds(a, family_uds, 0, <<2, 2, 2, 2>>) = WithFamily(a, family_uds)
    /\ Equal(ResolvedV6(NewAddr(0), 2, 2, 2), ResolvedV6(NewAddr(0), 2, 2, 3))
    /\ Equal(ResolvedV6(NewAddr(0), 2, 2, 2), ResolvedV4(NewAddr(1), 2, 2))
=============================================================================
