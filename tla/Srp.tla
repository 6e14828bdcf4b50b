-------------------------------- MODULE Srp --------------------------------
(***************************************************************************)
(* The arithmetic of the SRP client (rsfbclient-rust/src/srp.rs), over the *)
(* group of the integers modulo N with generator G, and the server's side  *)
(* of the exchange, which the client must agree with.                      *)
(*                                                                         *)
(* Abstraction: a digest of parts is the tuple of the parts; a digest that *)
(* is used as a number is an operator over a small range (XHash, UHash,    *)
(* and the constant K of the group).                                       *)
(***************************************************************************)
EXTENDS Integers, Sequences

CONSTANTS
  N, G,       \* SrpGroup: the modulus and the generator
  K,          \* compute_k: H(N | G) as a number
  MaxHash     \* digests used as numbers are below it

\* A digest is far shorter than the modulus (160 bits to 1024), so that the
\* product of two of them is below it: calc_key reduces that product modulo N.
ASSUME GroupAssumption == N \in Nat /\ G \in 1 .. N - 1 /\ K \in 1 .. N - 1
ASSUME HashAssumption == MaxHash \in Nat \ {0, 1} /\ (MaxHash - 1) * (MaxHash - 1) < N

Passwords == {"right", "wrong"}
Salt == "salt"


\* powm: square and multiply, from the lowest bit of the exponent.
powm(base, exp, modulus) ==
  LET Below == 0 .. modulus - 1
      Loop[s \in (0 .. exp) \X Below \X Below] ==
        LET e == s[1]  b == s[2]  result == s[3] IN
        IF e = 0 THEN result
        ELSE Loop[<<e \div 2, (b * b) % modulus,
                    IF e % 2 = 1 THEN (result * b) % modulus ELSE result>>]
  IN Loop[<<exp, base % modulus, 1>>]

\* srp_private_key: H(salt | H(user : password)), and H(A | B) of process_reply.
XHash(password) == IF password = "right" THEN MaxHash - 2 ELSE MaxHash - 1
UHash(A, B) == ((A + (3 * B)) % (MaxHash - 1)) + 1

\* Mutant of calc_key: the difference is not brought back above zero.
calc_keyNegative(a, B, x, u) ==
  LET interm == (K * powm(G, x, N)) % N
  IN powm(IF B > interm THEN B - interm ELSE interm - B, a + ((u * x) % N), N)

\* SrpClient::calc_key: (B - K g^x) ^ (a + u x), without going below zero.
calc_key(a, B, x, u) ==
  LET interm == (K * powm(G, x, N)) % N
      v == IF B > interm THEN (B - interm) % N ELSE (N + B - interm) % N
  IN powm(v, a + ((u * x) % N), N)

\* process_reply: what the client hashes into the proof M.
Proof(digest, A, B, key) == <<digest, Salt, A, B, key>>

---------------------------------------------------------------------------
(* The server, from the protocol the client's comments cite (RFC 5054).    *)

Power(b, e) ==
  LET To[k \in 0 .. e] == IF k = 0 THEN 1 ELSE (b * To[k - 1]) % N
  IN To[e]

Verifier == Power(G, XHash("right"))
ServerPublic(b) == (K * Verifier + Power(G, b)) % N
ServerKey(b, A) == Power(A * Power(Verifier, UHash(A, ServerPublic(b))), b)

\* A public key travels as its hexadecimal digits, without leading zeros.
HexOf(n) ==
  LET Digits[k \in 0 .. n] == IF k < 16 THEN <<k>> ELSE Append(Digits[k \div 16], k % 16)
  IN Digits[n]

\* Mutant of PublicFromHex: an odd number of digits is padded behind.
PublicFromHexPadsBehind(digits) ==
  LET even == IF Len(digits) % 2 # 0 THEN Append(digits, 0) ELSE digits
      Value[i \in 0 .. Len(even)] == IF i = 0 THEN 0 ELSE 16 * Value[i - 1] + even[i]
  IN Value[Len(even)]

\* parse_srp_auth_data: an odd number of digits gets a zero in front, as a
\* byte takes two of them.
PublicFromHex(digits) ==
  LET even == IF Len(digits) % 2 # 0 THEN <<0>> \o digits ELSE digits
      Value[i \in 0 .. Len(even)] == IF i = 0 THEN 0 ELSE 16 * Value[i - 1] + even[i]
  IN Value[Len(even)]
===========================================================================
