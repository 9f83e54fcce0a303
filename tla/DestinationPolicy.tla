-------------------------- MODULE DestinationPolicy --------------------------
(***************************************************************************)
(* Where upstream requests may go: DestinationPolicy and its helpers       *)
(* (src/src/egress.rs).                                                    *)
(*                                                                         *)
(* A host is the sequence of the labels between its dots, so a trailing    *)
(* dot is a last label that is empty.  A policy is a record of allowlist   *)
(* entries, which are hosts too, and whether private networks are allowed. *)
(***************************************************************************)
EXTENDS Naturals, Sequences

CONSTANTS
    Lower,      \* to_ascii_lowercase, label by label
    Starred,    \* the labels with a '*' somewhere in them
    Literal,    \* the hosts that are IP addresses, and the address of each
    Unsafe      \* private, loopback, link-local and other refused addresses

Star == "*"
Localhost == "localhost"

ASSUME StarAssumption == Star \in Starred

is_unsafe_ip(address) == address \in Unsafe

is_unsafe_host(host) ==
    \/ host[Len(host)] = Localhost
    \/ host \in DOMAIN Literal /\ is_unsafe_ip(Literal[host])

\* The host is without the dots at its end: trim_end_matches('.').
IsTrimmed(host) == Len(host) = 1 \/ host[Len(host)] # ""

Trimmed(host) ==
    SubSeq(host, 1, CHOOSE n \in 1 .. Len(host) :
                        /\ IsTrimmed(SubSeq(host, 1, n))
                        /\ \A i \in n + 1 .. Len(host) : host[i] = "")

Normal(host) ==
    LET trimmed == Trimmed(host)
    IN  [i \in 1 .. Len(trimmed) |-> Lower[trimmed[i]]]

HasStar(labels) == \E i \in 1 .. Len(labels) : labels[i] \in Starred

label_wildcard_matches(host, configured) ==
    /\ Len(host) = Len(configured)
    /\ \A i \in 1 .. Len(host) :
        configured[i] = Star \/ host[i] = configured[i]

IsSubdomain(host, suffix) ==
    /\ Len(host) > Len(suffix)
    /\ SubSeq(host, Len(host) - Len(suffix) + 1, Len(host)) = suffix

\* The entry is "*." and a suffix without a star.
IsSuffixEntry(c) == Len(c) > 1 /\ c[1] = Star /\ ~ HasStar(Tail(c))

\* host_matches, of two normal hosts.
NormalMatches(host, c) ==
    IF IsSuffixEntry(c) THEN IsSubdomain(host, Tail(c))
    ELSE IF HasStar(c) THEN label_wildcard_matches(host, c)
    ELSE host = c

host_matches(host, configured) == NormalMatches(host, Normal(configured))

authorize(policy, destination) ==
    LET host == Normal(destination)
    IN  /\ policy.private \/ ~ is_unsafe_host(host)
        /\ \E entry \in policy.allowlist : host_matches(host, entry)

\* The addresses to connect to, none if the destination is refused or not
\* found.  The answer is what the resolver says.
resolve_authorized(policy, destination, answer) ==
    LET addresses == IF destination \in DOMAIN Literal
                     THEN {Literal[destination]} ELSE answer
    IN  IF /\ authorize(policy, destination)
           /\ policy.private \/ \A a \in addresses : ~ is_unsafe_ip(a)
        THEN addresses ELSE {}
-----------------------------------------------------------------------------
\* What an entry stands for: aligned at their ends, every label of the entry
\* is a star or the host's label, and only a leading star that is the entry's
\* one star stands for more than one label.
Covers(entry, host) ==
    LET shift == Len(host) - Len(entry)
    IN  /\ Len(host) >= Len(entry)
        /\ \A i \in 1 .. Len(entry) :
            entry[i] = Star \/ entry[i] = host[i + shift]
        /\ Len(host) > Len(entry) => IsSuffixEntry(entry)
=============================================================================
