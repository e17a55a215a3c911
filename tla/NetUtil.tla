------------------------------ MODULE NetUtil -------------------------------
(***************************************************************************)
(* What the net command of the command line (cli/cmd_net.c) accepts, and   *)
(* what the parsers it rests on (net/util.c) make of it: the parts of the  *)
(* server's URL, which the websocket client takes when it starts, the MAC  *)
(* address that is stored, and the address to ping.  A text is a sequence  *)
(* of characters of a small alphabet.                                      *)
(*                                                                         *)
(* net   the command: its kind, its argument, whether it was accepted, and *)
(*       the MAC address or the number that was stored.                    *)
(***************************************************************************)
EXTENDS Integers, Sequences, SequencesExt, FiniteSetsExt

CONSTANTS
    MaxRest,    \* bound: characters of a URL after "://"
    PartSize,   \* URL_MAXLEN, the buffers for the parts of a URL
    PortBits,   \* the width of uint16_t
    IntBits,    \* the width of int
    MacLen,     \* MAC_ADDR_LEN
    Groups      \* the texts between the dots of an address, as digits

ASSUME NetUtilAssumption ==
    {MaxRest, PartSize, PortBits, IntBits, MacLen} \subseteq Nat \ {0}

VARIABLE net

Idle == [kind |-> "none", arg |-> <<>>, ok |-> FALSE, stored |-> <<>>]

Schemes == {"http", "https", "ws", "wss", "mqtt", "mqtts", "ftp", "ftps", "sftp"}
UrlChars == {"h", "8", ":", "/"}
MacChars == {"1", "f", ":", "g"}
DigitOf == [c \in {"1", "8", "f"} |-> CASE c = "1" -> 1 [] c = "8" -> 8 [] c = "f" -> 15]

\* Of a text: the place of the first c, as strchr(), or 0; what is before
\* place k (all when k = 0); the characters of set at its front.
strchr(s, c) == IF \E k \in DOMAIN s : s[k] = c THEN Min({k \in DOMAIN s : s[k] = c}) ELSE 0
Before(s, k) == IF k = 0 THEN s ELSE SubSeq(s, 1, k - 1)
Leading(s, set) ==
    SubSeq(s, 1, Max({n \in 0..Len(s) : \A k \in 1..n : s[k] \in set}))
strtol(s, digits, base) ==
    FoldLeft(LAMBDA n, c : n * base + DigitOf[c], 0, Leading(s, digits))
Copied(s) == SubSeq(s, 1, Min({Len(s), PartSize - 1}))

-----------------------------------------------------------------------------
net_get_default_port(proto) ==
    CASE proto \in {"http", "ws"} -> 80
      [] proto \in {"https", "wss"} -> 443
      [] proto = "mqtt" -> 1883
      [] proto = "mqtts" -> 8883
      [] proto = "ftp" -> 21
      [] proto = "ftps" -> 990
      [] proto = "sftp" -> 22
      [] OTHER -> 0

net_get_protocol_from_url(url) ==
    IF url.sep = "://" /\ url.scheme \in Schemes THEN url.scheme ELSE "unknown"

(* The digits after the first colon of all that follows "://". *)
net_get_port_from_url(url) ==
    LET end == strchr(url.rest, ":")
    IN IF end = 0 THEN net_get_default_port(net_get_protocol_from_url(url))
       ELSE strtol(SubSeq(url.rest, end + 1, Len(url.rest)), {"8"}, 10) % (2 ^ PortBits)

net_get_path_from_url(url) ==
    LET p == strchr(url.rest, "/")
    IN IF p = 0 THEN <<"/">> ELSE Copied(SubSeq(url.rest, p, Len(url.rest)))

net_get_host_from_url(url) ==
    LET colon == strchr(url.rest, ":")
    IN Copied(Before(url.rest, IF colon # 0 THEN colon ELSE strchr(url.rest, "/")))

(* The address as its groups; num is an int that may run over. *)
Num(group) ==
    LET n == FoldLeft(LAMBDA m, d : (m * 10 + d) % (2 ^ IntBits), 0, group)
    IN IF n < 2 ^ (IntBits - 1) THEN n ELSE n - 2 ^ IntBits

net_is_ipv4_str_valid(groups) ==
    Len(groups) = 4 /\ \A i \in DOMAIN groups : Num(groups[i]) \in 0..255

is_hex(c) == c \in {"1", "f"}

Hex(s) == strtol(s, {"1", "f"}, 16) % 256

\* Mutant: reads pairs as if there were no colons.
MacBytes_Stride(s, stride) == [i \in 1..MacLen |-> Hex(SubSeq(s, 2 * i - 1, 2 * i))]

(* The bytes at every stride-th character; a colon ends a number. *)
MacBytes(s, stride) ==
    [i \in 1..MacLen |-> Hex(SubSeq(s, stride * (i - 1) + 1, stride * (i - 1) + 2))]

(* <<>> when the text is refused *)
net_get_mac_from_str(s) ==
    IF /\ Len(s) = 3 * MacLen - 1
       /\ \A i \in DOMAIN s : IF i % 3 = 0 THEN s[i] = ":" ELSE is_hex(s[i])
    THEN MacBytes(s, 3)
    ELSE IF Len(s) = 2 * MacLen /\ \A i \in DOMAIN s : is_hex(s[i])
    THEN MacBytes(s, 2)
    ELSE <<>>

-----------------------------------------------------------------------------
Urls == [scheme : {"ws", "wss", "other"}, sep : {"://", ":/"},
         rest : BoundedSeq(UrlChars, MaxRest)]
Macs == UNION {[1..n -> MacChars] : n \in (2 * MacLen - 1)..(3 * MacLen)}
Addresses == UNION {[1..n -> Groups] : n \in 3..5}

is_url_valid(url) == net_get_protocol_from_url(url) # "unknown"

Least == [key \in {"health", "ws.ping"} |-> IF key = "health" THEN 1000 ELSE 60]

\* is_health_interval_valid(), is_ping_interval_valid()
is_interval_valid(key, n) == n = 0 \/ n >= Least[key]

(* update_cfg(), with the check of its command *)
update_cfg ==
    \/ \E url \in Urls :
         net' = [kind |-> "url", arg |-> url, ok |-> is_url_valid(url), stored |-> <<>>]
    \/ \E s \in Macs : \E mac \in {net_get_mac_from_str(s)} :
         net' = [kind |-> "mac", arg |-> s, ok |-> mac # <<>>, stored |-> mac]
    \/ \E key \in DOMAIN Least : \E n \in {0, 1, Least[key]} :
         net' = [kind |-> key, arg |-> <<n>>, ok |-> is_interval_valid(key, n),
                 stored |-> IF is_interval_valid(key, n) THEN <<n>> ELSE <<>>]

ping_cmd ==
    \E a \in Addresses :
        net' = [kind |-> "ping", arg |-> a, ok |-> net_is_ipv4_str_valid(a), stored |-> <<>>]

NetInit == net = Idle

NetUtilNext == net = Idle /\ (update_cfg \/ ping_cmd)

NetUtilSpec == NetInit /\ [][NetUtilNext]_net

-----------------------------------------------------------------------------
(* The variable keeps its type. *)
NetUtilTypeOK ==
    /\ net.kind \in {"none", "url", "mac", "ping"} \union DOMAIN Least
    /\ net.ok \in BOOLEAN

\* A URL read as it is meant: the authority ends at the first slash, and has
\* a host and perhaps a colon and a number.
Authority(url) == Before(url.rest, strchr(url.rest, "/"))
HostOf(url) == Before(Authority(url), strchr(Authority(url), ":"))
PortText(url) ==
    LET colon == strchr(Authority(url), ":")
    IN IF colon = 0 THEN <<>> ELSE SubSeq(Authority(url), colon + 1, Len(Authority(url)))
PathOf(url) ==
    LET p == strchr(url.rest, "/")
    IN IF p = 0 THEN <<"/">> ELSE SubSeq(url.rest, p, Len(url.rest))
WellFormed(url) ==
    /\ HostOf(url) # <<>>
    /\ strchr(Authority(url), ":") # 0 => PortText(url) # <<>>
    /\ Leading(PortText(url), {"8"}) = PortText(url)

(* Of a URL that is accepted and well formed, the charger connects to the  *)
(* host, the port and the path it names, except in these three cases: it   *)
(* names no port and there is a colon in its path, which is taken for the  *)
(* one before the port; the port does not fit; a part does not fit.        *)
UrlPartsRight ==
    net.kind = "url" /\ net.ok /\ WellFormed(net.arg) =>
        LET url == net.arg
            port == strtol(PortText(url), {"8"}, 10)
        IN \/ /\ net_get_host_from_url(url) = HostOf(url)
              /\ net_get_path_from_url(url) = PathOf(url)
              /\ net_get_port_from_url(url) =
                   IF PortText(url) = <<>> THEN net_get_default_port(url.scheme) ELSE port
           \/ PortText(url) = <<>> /\ strchr(PathOf(url), ":") # 0
           \/ port >= 2 ^ PortBits
           \/ Max({Len(HostOf(url)), Len(PathOf(url))}) >= PartSize

(* A MAC address is stored exactly when the text is pairs of hex digits,   *)
(* all with a colon between or none, and it is those pairs.                *)
MacRight ==
    net.kind = "mac" =>
        LET pairs(stride) ==
                [i \in 1..MacLen |-> SubSeq(net.arg, stride * i - stride + 1,
                                            stride * i - stride + 2)]
            joined(p, sep) == FlattenSeq([i \in 1..MacLen |->
                                  IF i = 1 THEN p[i] ELSE sep \o p[i]])
            right(stride, sep) ==
                /\ Len(net.arg) = stride * MacLen - (stride - 2)
                /\ joined(pairs(stride), sep) = net.arg
                /\ \A i \in 1..MacLen : \A c \in Range(pairs(stride)[i]) : is_hex(c)
            byte(p) == 16 * DigitOf[p[1]] + DigitOf[p[2]]
        IN /\ net.ok <=> right(3, <<":">>) \/ right(2, <<>>)
           /\ net.ok => net.stored = [i \in 1..MacLen |->
                byte(pairs(IF Len(net.arg) = 2 * MacLen THEN 2 ELSE 3)[i])]

(* An address is pinged when it has four groups of at most 255, where an   *)
(* empty one counts as 0, and otherwise only if a group is so long that    *)
(* the int it is read into runs over.                                      *)
AddressRight ==
    net.kind = "ping" =>
        LET number(g) == FoldLeft(LAMBDA n, d : n * 10 + d, 0, g)
            right == Len(net.arg) = 4 /\ \A i \in DOMAIN net.arg : number(net.arg[i]) <= 255
        IN /\ right => net.ok
           /\ net.ok => right \/ \E i \in DOMAIN net.arg :
                                    number(net.arg[i]) >= 2 ^ (IntBits - 1)

\* The parsers of util.c give the parts and accept the texts that a plain
\* reading of their formats gives and accepts, but for the cases named above.
ParsedRight == NetUtilTypeOK /\ UrlPartsRight /\ MacRight /\ AddressRight
=============================================================================
