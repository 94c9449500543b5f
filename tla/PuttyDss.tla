------------------------------- MODULE PuttyDss -------------------------------
(***************************************************************************)
(* The DSA ("ssh-dss") key algorithm of PuTTY (src/src/putty/sshdss.c):    *)
(* loading a public key, a private key in PuTTY's format and in OpenSSH's  *)
(* format, signing and verifying.  Numbers are small: the group (p, q, g)  *)
(* comes from Groups, with q prime and g of order q, so that every        *)
(* residue class of the arithmetic is reached.                             *)
(*                                                                         *)
(* The SHA-1 digest of the data is the number h (mp_from_bytes_be of the  *)
(* 20 digest bytes); it is not reduced modulo q, so Hashes exceeds q.     *)
(* rfc6979 derives the nonce k from x and the data; it is not in src/ and *)
(* is abstracted to a choice of k in 1..q-1, the range it returns.  r and *)
(* s are written as 20 bytes each, big-endian (mp_get_byte), and read back *)
(* by mp_from_bytes_be; for numbers below 2^160 that is the identity, so   *)
(* the blob holds the numbers.  The caller holds one key at a time (key), *)
(* and each call returns its result in out.                                *)
(***************************************************************************)
EXTENDS Integers

CONSTANTS
    Groups,    \* candidate <<p, q, g>>
    YValues,   \* public values y a key blob may carry
    XValues,   \* private exponents x a key blob may carry
    Hashes,    \* digests of the data, as numbers
    NoX,       \* dss->x = NULL (a public key)
    NoKey      \* a load returned NULL, or nothing loaded yet

VARIABLES key, call, out

vars == <<key, call, out>>

\* The forms a signature blob takes: PuTTY's and OpenSSH's (the string
\* "ssh-dss" and a 40-byte string), Commercial SSH's bare 40 bytes, a blob
\* with another algorithm name, and one whose inner string is not 40 bytes.
BlobForms == {"ssh2", "bare", "othertype", "badlen"}

RECURSIVE ModPow(_, _, _)
\* mp_modpow: b^e mod m.
ModPow(b, e, m) == IF e = 0 THEN 1 % m ELSE (b * ModPow(b, e - 1, m)) % m

\* mp_invert: the inverse of a modulo m (m prime here).
ModInv(a, m) == CHOOSE i \in 1..m - 1 : (a * i) % m = 1

-----------------------------------------------------------------------------
(* The key loaders                                                         *)

\* dss_new_pub (lines 15-40): the algorithm name must be "ssh-dss"; a
\* truncated blob (err) or p = 0 or q = 0 gives NULL.
NewPub(name, grp, y, err) ==
    IF name # "ssh-dss" \/ err \/ grp[1] = 0 \/ grp[2] = 0 THEN NoKey
    ELSE [p |-> grp[1], q |-> grp[2], g |-> grp[3], y |-> y, x |-> NoX]

\* dss_new_priv (lines 234-283): the public part, then x; the obsolete
\* 20-byte hash of p, q, g, when present, must match; and g^x mod p = y.
NewPriv(grp, y, x, err, hash) ==
    LET k == NewPub("ssh-dss", grp, y, FALSE)
    IN IF k = NoKey \/ err \/ hash = "mismatch" THEN NoKey
       ELSE IF ModPow(k.g, x, k.p) # k.y THEN NoKey
       ELSE [k EXCEPT !.x = x]

\* dss_new_priv_openssh (lines 285-307): p, q, g, y, x with only the
\* checks for a truncated blob and p, q # 0.
NewPrivOpenssh(grp, y, x, err) ==
    IF err \/ grp[1] = 0 \/ grp[2] = 0 THEN NoKey
    ELSE [p |-> grp[1], q |-> grp[2], g |-> grp[3], y |-> y, x |-> x]

-----------------------------------------------------------------------------
(* Signing and verifying                                                   *)

\* dss_sign (lines 337-376): r = (g^k mod p) mod q and
\* s = k^-1 (h + x r) mod q, written in the "ssh-dss" form.
DssSign(k, h, nonce) ==
    LET r == ModPow(k.g, nonce, k.p) % k.q
    IN [form |-> "ssh2", r |-> r,
        s |-> (ModInv(nonce, k.q) * (k.x * r + h)) % k.q]

\* dss_verify (lines 111-214): the blob's form, the range checks
\* 0 < r, s < q, then w = s^-1, u1 = h w, u2 = r w (mod q) and
\* v = (g^u1 y^u2 mod p) mod q, which must equal r.
DssVerify(k, sig, h) ==
    /\ sig.form \in {"ssh2", "bare"}
    /\ 0 < sig.r /\ sig.r < k.q /\ 0 < sig.s /\ sig.s < k.q
    /\ LET w  == ModInv(sig.s, k.q)
           u1 == (h * w) % k.q
           u2 == (sig.r * w) % k.q
       IN ((ModPow(k.g, u1, k.p) * ModPow(k.y, u2, k.p)) % k.p) % k.q = sig.r

-----------------------------------------------------------------------------
(* Calls                                                                   *)

Init == key = NoKey /\ call = [op |-> "none"] /\ out = [kind |-> "none"]

LoadPub ==
    /\ call.op = "none"
    /\ \E name \in {"ssh-dss", "ssh-rsa"}, grp \in Groups, y \in YValues,
          err \in BOOLEAN :
         key' = NewPub(name, grp, y, err)
    /\ call' = [op |-> "load"] /\ out' = [kind |-> "key"]

LoadPriv ==
    /\ call.op = "none"
    /\ \E grp \in Groups, y \in YValues, x \in XValues, err \in BOOLEAN,
          hash \in {"none", "match", "mismatch"} :
         key' = NewPriv(grp, y, x, err, hash)
    /\ call' = [op |-> "load"] /\ out' = [kind |-> "key"]

LoadPrivOpenssh ==
    /\ call.op = "none"
    /\ \E grp \in Groups, y \in YValues, x \in XValues, err \in BOOLEAN :
         key' = NewPrivOpenssh(grp, y, x, err)
    /\ call' = [op |-> "load"] /\ out' = [kind |-> "key"]

\* Signing needs a private key (ssh_key_sign is called only on one).
Sign ==
    /\ call.op = "none"
    /\ key # NoKey /\ key.x # NoX
    /\ \E h \in Hashes, nonce \in 1..key.q - 1 :
         /\ call' = [op |-> "sign", h |-> h]
         /\ out' = [kind |-> "sig", sig |-> DssSign(key, h, nonce)]
    /\ UNCHANGED key

Verify ==
    /\ call.op = "none"
    /\ key # NoKey
    /\ \E h \in Hashes, form \in BlobForms, r \in 0..key.q, s \in 0..key.q :
         LET sig == [form |-> form, r |-> r, s |-> s]
         IN /\ call' = [op |-> "verify", h |-> h, sig |-> sig]
            /\ out' = [kind |-> "ok", ok |-> DssVerify(key, sig, h)]
    /\ UNCHANGED key

Return ==
    /\ call.op # "none"
    /\ call' = [op |-> "none"] /\ out' = [kind |-> "none"]
    /\ UNCHANGED key

Next == LoadPub \/ LoadPriv \/ LoadPrivOpenssh \/ Sign \/ Verify \/ Return

Spec == Init /\ [][Next]_vars

-----------------------------------------------------------------------------
(* Properties                                                              *)

Key == [p : Nat, q : Nat, g : Nat, y : Nat, x : Nat \cup {NoX}]
Sig == [form : BlobForms, r : Nat, s : Nat]

TypeOK ==
    /\ key \in Key \cup {NoKey}
    /\ call.op \in {"none", "load", "sign", "verify"}
    /\ out.kind \in {"none", "key", "sig", "ok"}
    /\ out.kind = "sig" => out.sig \in Sig

\* The private exponents of key: the x with g^x mod p = y.
DiscreteLogs(k) == {x \in 0..k.q - 1 : ModPow(k.g, x, k.p) = k.y}

\* The reference definition of a DSA signature of h: a well-formed blob whose
\* r = (g^n mod p) mod q and s n = h + x r (mod q), for a private exponent x
\* of the key and a nonce n.  n = 0 is the degenerate case r = 1,
\* h + x = 0 (mod q), which the algebra of verification accepts and dss_sign
\* never produces.
Explained(k, sig, h) ==
    /\ sig.form \in {"ssh2", "bare"}
    /\ 0 < sig.r /\ sig.r < k.q /\ 0 < sig.s /\ sig.s < k.q
    /\ \E x \in DiscreteLogs(k), n \in 0..k.q - 1 :
         /\ sig.r = ModPow(k.g, n, k.p) % k.q
         /\ (sig.s * n) % k.q = (h + x * sig.r) % k.q

\* dss_verify accepts a signature blob exactly when it is a DSA signature of
\* the data under the key, for every key whose y lies in the group g
\* generates (every key dss_new_priv accepts does): the Commercial-SSH bare
\* form and the RFC 4253 form alike, nothing with r or s out of range.
VerifyExplained ==
    call.op = "verify" /\ DiscreteLogs(key) # {} =>
        (out.ok <=> Explained(key, call.sig, call.h))

\* A signature dss_sign writes is accepted by dss_verify with the same key
\* and data (what the server checks of the signature PuTTY sends).
SignatureVerifies ==
    out.kind = "sig" => DssVerify(key, out.sig, call.h)

\* A private key that loads is consistent: y = g^x mod p (dss_new_priv
\* checks it at lines 274-280).
PrivateKeyConsistent ==
    key # NoKey /\ key.x # NoX => ModPow(key.g, key.x, key.p) = key.y

=============================================================================
