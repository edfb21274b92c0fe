------------------------------- MODULE PwWire -------------------------------
(***************************************************************************)
(* The datagram that carries the password from the UDP listener            *)
(* (pw_daemon.c: xorString, setup_vars) to the guest (winres.c:            *)
(* udpReceived): a two byte length prefix, then the encrypted password.    *)
(* A password is represented by its length, and by whose keys encrypt it.  *)
(***************************************************************************)
EXTENDS Integers

RecvBuf == 200       \* uint8_t buffer[200] in udpReceived
Byte(n) == n % 256   \* (uint8_t)n

\* The two prefix bytes.  The cast binds tighter than the shift, so the high
\* byte is the low byte of len & 0xff00 shifted right by eight.
PrefixHigh(len) == Byte((len % 65536) - (len % 256)) \div 256
PrefixLow(len)  == Byte(len % 256)

\* xorString and passwordLen: what the listener sends for a password of
\* length len, encrypted with key2 of the daemon k.
Encrypted(len, k) ==
    [size |-> len + 2, high |-> PrefixHigh(len), low |-> PrefixLow(len), key |-> k]

\* udpReceived: recv() fails with WSAEMSGSIZE on a datagram that does not fit,
\* and the length prefix has to agree with what was received.
Accepted(dg) ==
    /\ dg.size <= RecvBuf
    /\ dg.size >= 2
    /\ dg.size - 2 = dg.high * 256 + dg.low

\* The longest password that reaches a guest.
MaxPassword == RecvBuf - 2
=============================================================================
