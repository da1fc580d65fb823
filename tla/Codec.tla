------------------------------- MODULE Codec -------------------------------
(***************************************************************************)
(* The pure primitives the secure protocol is built from:                 *)
(*   calculate_checksum   src/common/protocol.c                            *)
(*   rc4_crypt            src/common/net_wrapper.c                         *)
(*   power_mod, calculate_public_key, calculate_shared_secret,             *)
(*   derive_session_key   src/common/dh_crypto.c                           *)
(* Byte buffers are sequences of naturals in 0..255; a C string (the      *)
(* session key) is the sequence of its character codes, without the NUL. *)
(***************************************************************************)
EXTENDS Integers, SequencesExt, Bitwise

CONSTANTS DH_PRIME, DH_GENERATOR

\* The one element of a singleton set.  Binding a value with x \in {e}
\* makes TLC compute e once: an operator argument or a LET is evaluated
\* lazily, and where TLC does not cache it (when it checks fairness) it is
\* recomputed at every use, which is exponential in a recursion.  The
\* byte-level operators below bind their arguments this way.
Only(set) == CHOOSE x \in set : TRUE

-----------------------------------------------------------------------------
(* calculate_checksum                                                      *)

\* sum += *ptr++ over the whole buffer (a uint32 accumulator: at most 1024
\* bytes are ever summed, 261120 < 2^32, so it never wraps).  SumUpTo(n)
\* is the sum of the first n bytes; it is written as a plain recursion on
\* n rather than with FoldLeft, whose set-based recursion is exponential
\* where TLC does not cache (see Only).
RECURSIVE SumUpTo(_, _)
SumUpTo(data, n) == IF n = 0 THEN 0 ELSE SumUpTo(data, n - 1) + data[n]

ByteSum(data) == SumUpTo(data, Len(data))

\* Mutant: the fold is done once (if) instead of until no carry is left.
FoldOnce(sum) == (sum % 65536) + (sum \div 65536)

\* while (sum >> 16) sum = (sum & 0xFFFF) + (sum >> 16);
RECURSIVE Fold16(_)
Fold16(sum) ==
    IF sum \div 65536 = 0 THEN sum
    ELSE Fold16((sum % 65536) + (sum \div 65536))

\* (uint16_t)~sum: sum is below 2^16 after the fold, so the low 16 bits of
\* its complement are 65535 - sum.
Complement16(sum) == 65535 - (sum % 65536)

calculate_checksum(data) == Only({ Complement16(Fold16(ByteSum(d))) : d \in {data} })

-----------------------------------------------------------------------------
(* rc4_crypt                                                               *)

\* Swap S[a] and S[b] (through temp).
Swap(S, a, b) == [S EXCEPT ![a] = S[b], ![b] = S[a]]

\* KSA: for (i = 0; i < 256; i++) { j = (j + S[i] + key[i % key_len]) % 256;
\* swap S[i], S[j] }
\* KsaSteps runs iterations i..stop-1 and returns the table and j; KsaLoop
\* runs them 16 at a time, which keeps TLC's evaluation shallow.
RECURSIVE KsaSteps(_, _, _, _, _)
KsaSteps(S, i, j, key, stop) ==
    IF i = stop THEN <<S, j>>
    ELSE Only({ KsaSteps(T, i + 1, j2, key, stop) :
                  j2 \in {(j + S[i] + key[(i % Len(key)) + 1]) % 256},
                  T \in {Swap(S, i, (j + S[i] + key[(i % Len(key)) + 1]) % 256)} })

RECURSIVE KsaLoop(_, _, _, _)
KsaLoop(S, i, j, key) ==
    IF i = 256 THEN S
    ELSE Only({ KsaLoop(r[1], i + 16, r[2], key) :
                  r \in {KsaSteps(S, i, j, key, i + 16)} })

Ksa(key) == Only({ KsaLoop([x \in 0..255 |-> x], 0, 0, k) : k \in {key} })

\* Mutant: the PRGA uses S[i] before the swap (no swap in the loop).
RECURSIVE PrgaNoSwap(_, _, _, _)
PrgaNoSwap(S, i, j, data) ==
    IF data = <<>> THEN <<>>
    ELSE LET i2 == (i + 1) % 256 IN
         Only({ <<Head(data) ^^ T[(T[i2] + T[j2]) % 256]>>
                \o PrgaNoSwap(T, i2, j2, Tail(data)) :
                  j2 \in {(j + S[i2]) % 256}, T \in {S} })

\* PRGA: i = (i+1) % 256; j = (j + S[i]) % 256; swap; data[n] ^= the
\* keystream byte S[(S[i] + S[j]) % 256].
RECURSIVE Prga(_, _, _, _)
Prga(S, i, j, data) ==
    IF data = <<>> THEN <<>>
    ELSE LET i2 == (i + 1) % 256 IN
         Only({ <<Head(data) ^^ T[(T[i2] + T[j2]) % 256]>>
                \o Prga(T, i2, j2, Tail(data)) :
                  j2 \in {(j + S[i2]) % 256},
                  T \in {Swap(S, i2, (j + S[i2]) % 256)} })

\* Every call starts from a freshly scheduled table: the cipher keeps no
\* state between messages.
rc4_crypt(data, key) ==
    Only({ Prga(S, 0, 0, d) : S \in {Ksa(key)}, d \in {data} })

-----------------------------------------------------------------------------
(* Diffie-Hellman                                                          *)

\* C's % on long long truncates toward zero: the remainder has the sign of
\* the dividend.
CRem(a, m) == IF a >= 0 THEN a % m ELSE -((-a) % m)

\* Mutant: the base is squared before the odd bit is multiplied in.
RECURSIVE PowLoopSquareFirst(_, _, _, _)
PowLoopSquareFirst(res, base, exp, mod) ==
    IF exp <= 0 THEN res
    ELSE LET b2 == CRem(base * base, mod)
         IN  PowLoopSquareFirst(IF exp % 2 = 1 THEN CRem(res * b2, mod) ELSE res,
                                b2, exp \div 2, mod)

\* Mutant: the odd-bit multiplication is not reduced mod mod.
RECURSIVE PowLoopUnreduced(_, _, _, _)
PowLoopUnreduced(res, base, exp, mod) ==
    IF exp <= 0 THEN res
    ELSE PowLoopUnreduced(IF exp % 2 = 1 THEN res * base ELSE res,
                          CRem(base * base, mod), exp \div 2, mod)

\* while (exp > 0) { if (exp % 2 == 1) res = (res * base) % mod;
\*                   exp = exp >> 1; base = (base * base) % mod; }
RECURSIVE PowLoop(_, _, _, _)
PowLoop(res, base, exp, mod) ==
    IF exp <= 0 THEN res
    ELSE PowLoop(IF exp % 2 = 1 THEN CRem(res * base, mod) ELSE res,
                 CRem(base * base, mod), exp \div 2, mod)

power_mod(base, exp, mod) == PowLoop(1, CRem(base, mod), exp, mod)

\* generate_private_key: (rand() % 100000) + 1
PrivateKeyRange == 1..100000

calculate_public_key(priv) == power_mod(DH_GENERATOR, priv, DH_PRIME)

\* Mutant: base and exponent swapped in the call to power_mod.
calculate_shared_secret_swapped(other_pub, my_priv) ==
    power_mod(my_priv, other_pub, DH_PRIME)

calculate_shared_secret(other_pub, my_priv) ==
    power_mod(other_pub, my_priv, DH_PRIME)

\* The decimal digits of n >= 0, as character codes ('0' is 48).
RECURSIVE Digits(_)
Digits(n) ==
    IF n < 10 THEN <<48 + n>> ELSE Digits(n \div 10) \o <<48 + (n % 10)>>

\* snprintf(out, 64, "KEY_%lld_SECURE", secret); at most 31 characters, so
\* the 64-byte buffer never truncates.
derive_session_key(secret) ==
    <<75, 69, 89, 95>>                                       \* "KEY_"
    \o (IF secret < 0 THEN <<45>> \o Digits(-secret) ELSE Digits(secret))
    \o <<95, 83, 69, 67, 85, 82, 69>>                        \* "_SECURE"

=============================================================================
