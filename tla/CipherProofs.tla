------------------------------ MODULE CipherProofs ------------------------------
(***************************************************************************)
(* Credentials of any length, over any number of requests, arrive whenever *)
(* no call of CryptoAPI has failed.                                        *)
(***************************************************************************)
EXTENDS SessionCipher, Loops

(* The key and the buffer of w that a loop works on. *)
Loop(w) == [rb : [w -> Value], chain : Value]

(* The blocks of c are those of p in CBC. *)
Before(c, i) == IF i = 1 THEN IV ELSE c[i - 1]
Ciphered(c, p) == \A i \in Struct : c[i] = Aes(Mix(p[i], Before(c, i)))

-------------------------------------------------------------------------------
(* The toy block cipher is a permutation, and the addition can be undone. *)
LEMMA Permutation ==
  ASSUME NEW x \in Value
  PROVE  Aes(x) \in Value /\ AesInv(Aes(x)) = x
<1>1. Aes(x) \in Value
  BY ValuesAssumption DEF Aes, Value
<1>2. ASSUME NEW y \in Value, Aes(y) = Aes(x) PROVE y = x
  <2>1. CASE Values = 3
    BY <1>2, <2>1 DEF Aes, Value
  <2>2. CASE Values = 5
    BY <1>2, <2>2 DEF Aes, Value
  <2>3. CASE Values = 7
    BY <1>2, <2>3 DEF Aes, Value
  <2>4. QED
    BY <2>1, <2>2, <2>3, ValuesAssumption
<1>3. AesInv(Aes(x)) \in Value /\ Aes(AesInv(Aes(x))) = Aes(x)
  BY DEF AesInv
<1>4. QED
  BY <1>1, <1>2, <1>3

LEMMA InverseTyped ==
  ASSUME NEW y \in Value
  PROVE  AesInv(y) \in Value
<1>1. \E x \in Value : Aes(x) = y
  <2>1. CASE Values = 3
    BY <2>1 DEF Aes, Value
  <2>2. CASE Values = 5
    BY <2>2 DEF Aes, Value
  <2>3. CASE Values = 7
    BY <2>3 DEF Aes, Value
  <2>4. QED
    BY <2>1, <2>2, <2>3, ValuesAssumption
<1>2. QED
  BY <1>1 DEF AesInv

LEMMA Mixing ==
  ASSUME NEW x \in Value, NEW y \in Value
  PROVE  Mix(x, y) \in Value /\ Unmix(x, y) \in Value /\ Unmix(Mix(x, y), y) = x
<1>1. CASE Values = 3
  BY <1>1 DEF Mix, Unmix, Value
<1>2. CASE Values = 5
  BY <1>2 DEF Mix, Unmix, Value
<1>3. CASE Values = 7
  BY <1>3 DEF Mix, Unmix, Value
<1>4. QED
  BY <1>1, <1>2, <1>3, ValuesAssumption

-------------------------------------------------------------------------------
(* Encrypt and Decrypt are their loops. *)
LEMMA EncryptPass ==
  ASSUME NEW k \in Loop(Wire), NEW t \in Struct, NEW final \in BOOLEAN
  PROVE  CryptEncrypt(k, t, final) \in Loop(Wire)
<1> DEFINE c == Aes(Mix(k.rb[t], k.chain))
<1>1. /\ k.rb \in [Wire -> Value] /\ k.chain \in Value
      /\ t \in Wire /\ IV \in Value /\ Padding \in Value
  BY BlocksAssumption, ValuesAssumption DEF Loop, Struct, Wire, Value, IV, Padding
<1>2. c \in Value /\ Aes(Mix(Padding, c)) \in Value
  BY <1>1, Mixing, Permutation
<1>3. [k.rb EXCEPT ![t] = c, ![t + 1] = IF final THEN Aes(Mix(Padding, c)) ELSE @] \in [Wire -> Value]
  <2> HIDE DEF c
  <2>1. QED
    BY <1>1, <1>2
<1>4. QED
  BY <1>1, <1>2, <1>3 DEF CryptEncrypt, Loop

LEMMA EncryptLoop ==
  ASSUME NEW b \in [Wire -> Value]
  PROVE  /\ Encrypt(b) \in [0 .. Blocks -> Loop(Wire)]
         /\ Encrypt(b)[0] = [rb |-> b, chain |-> IV]
         /\ \A t \in Struct : Encrypt(b)[t] = CryptEncrypt(Encrypt(b)[t - 1], t, t = Blocks)
<1> DEFINE S == Loop(Wire)
           base == [rb |-> b, chain |-> IV]
           step == [t \in 1 .. Blocks |-> [k \in Loop(Wire) |-> CryptEncrypt(k, t, t = Blocks)]]
<1>1. base \in S /\ Blocks \in Nat
  BY BlocksAssumption, ValuesAssumption DEF Loop, Value, IV
<1>2. step \in [1 .. Blocks -> [S -> S]]
  BY EncryptPass DEF Struct
<1>3. PICK f \in [0 .. Blocks -> S] : Goes(f, Blocks, base, step)
  <2> HIDE DEF base, step, S
  <2>1. QED
    BY <1>1, <1>2, LoopValues
<1>4. f = [t \in 0 .. Blocks |-> IF t = 0 THEN base ELSE CryptEncrypt(f[t - 1], t, t = Blocks)]
  <2>1. \A t \in 1 .. Blocks : f[t - 1] \in S
    <3>1. \A t \in 1 .. Blocks : t - 1 \in 0 .. Blocks
      BY <1>1
    <3> HIDE DEF base, step, S
    <3>2. QED
      BY <3>1
  <2>2. \A t \in 1 .. Blocks : step[t][f[t - 1]] = CryptEncrypt(f[t - 1], t, t = Blocks)
    BY <2>1
  <2>3. \A t \in 0 .. Blocks : f[t] = IF t = 0 THEN base ELSE CryptEncrypt(f[t - 1], t, t = Blocks)
    <3>1. \A t \in 0 .. Blocks : t = 0 \/ t \in 1 .. Blocks
      BY <1>1
    <3> HIDE DEF step, base, S
    <3>2. QED
      BY <1>3, <2>2, <3>1 DEF Goes
  <2>4. QED
    BY <2>3
<1>5. Encrypt(b) = [t \in 0 .. Blocks |->
                      IF t = 0 THEN base ELSE CryptEncrypt(Encrypt(b)[t - 1], t, t = Blocks)]
  BY <1>4, Zenon DEF Encrypt
<1>6. /\ Encrypt(b)[0] = base
      /\ \A t \in Struct : Encrypt(b)[t] = CryptEncrypt(Encrypt(b)[t - 1], t, t = Blocks)
  <2> DEFINE e == Encrypt(b)
  <2>1. e = [t \in 0 .. Blocks |-> IF t = 0 THEN base ELSE CryptEncrypt(e[t - 1], t, t = Blocks)]
    BY <1>5
  <2> HIDE DEF e, base
  <2>2. 0 \in 0 .. Blocks /\ \A t \in Struct : t \in 0 .. Blocks /\ t # 0
    BY <1>1 DEF Struct
  <2>3. e[0] = base /\ \A t \in Struct : e[t] = CryptEncrypt(e[t - 1], t, t = Blocks)
    BY <2>1, <2>2
  <2>4. QED
    BY <2>3 DEF e
<1>7. Encrypt(b) \in [0 .. Blocks -> S]
  <2> DEFINE G == {t \in 0 .. Blocks : Encrypt(b)[t] \in S}
  <2>1. 0 \in G
    BY <1>1, <1>6
  <2>2. ASSUME NEW t \in 1 .. Blocks, t - 1 \in G PROVE t \in G
    <3>1. t \in Struct /\ (t = Blocks) \in BOOLEAN
      BY DEF Struct
    <3>2. CryptEncrypt(Encrypt(b)[t - 1], t, t = Blocks) \in S
      BY <2>2, <3>1, EncryptPass, Zenon
    <3>3. QED
      BY <1>1, <1>6, <3>1, <3>2
  <2>3. 0 .. Blocks \subseteq G
    <3> HIDE DEF G
    <3>1. QED
      BY <1>1, <2>1, <2>2, PassByPass
  <2>4. \A t \in 0 .. Blocks : Encrypt(b)[t] \in S
    BY <2>3
  <2>5. QED
    BY <1>5, <2>4, Zenon
<1>8. QED
  BY <1>6, <1>7

LEMMA DecryptPass ==
  ASSUME NEW k \in Loop(Struct), NEW t \in Struct
  PROVE  CryptDecrypt(k, t) \in Loop(Struct)
<1>1. k.rb \in [Struct -> Value] /\ k.chain \in Value /\ k.rb[t] \in Value
  BY DEF Loop
<1>2. Unmix(AesInv(k.rb[t]), k.chain) \in Value
  BY <1>1, InverseTyped, Mixing
<1>3. [k.rb EXCEPT ![t] = Unmix(AesInv(@), k.chain)] \in [Struct -> Value]
  BY <1>1, <1>2
<1>4. QED
  BY <1>1, <1>3 DEF CryptDecrypt, Loop

LEMMA DecryptLoop ==
  ASSUME NEW b \in [Struct -> Value]
  PROVE  /\ Decrypt(b) \in [0 .. Blocks -> Loop(Struct)]
         /\ Decrypt(b)[0] = [rb |-> b, chain |-> IV]
         /\ \A t \in Struct : Decrypt(b)[t] = CryptDecrypt(Decrypt(b)[t - 1], t)
<1> DEFINE S == Loop(Struct)
           base == [rb |-> b, chain |-> IV]
           step == [t \in 1 .. Blocks |-> [k \in Loop(Struct) |-> CryptDecrypt(k, t)]]
<1>1. base \in S /\ Blocks \in Nat
  BY BlocksAssumption, ValuesAssumption DEF Loop, Value, IV
<1>2. step \in [1 .. Blocks -> [S -> S]]
  BY DecryptPass DEF Struct
<1>3. PICK f \in [0 .. Blocks -> S] : Goes(f, Blocks, base, step)
  <2> HIDE DEF base, step, S
  <2>1. QED
    BY <1>1, <1>2, LoopValues
<1>4. f = [t \in 0 .. Blocks |-> IF t = 0 THEN base ELSE CryptDecrypt(f[t - 1], t)]
  <2>1. \A t \in 1 .. Blocks : f[t - 1] \in S
    <3>1. \A t \in 1 .. Blocks : t - 1 \in 0 .. Blocks
      BY <1>1
    <3> HIDE DEF base, step, S
    <3>2. QED
      BY <3>1
  <2>2. \A t \in 1 .. Blocks : step[t][f[t - 1]] = CryptDecrypt(f[t - 1], t)
    BY <2>1
  <2>3. \A t \in 0 .. Blocks : f[t] = IF t = 0 THEN base ELSE CryptDecrypt(f[t - 1], t)
    <3>1. \A t \in 0 .. Blocks : t = 0 \/ t \in 1 .. Blocks
      BY <1>1
    <3> HIDE DEF step, base, S
    <3>2. QED
      BY <1>3, <2>2, <3>1 DEF Goes
  <2>4. QED
    BY <2>3
<1>5. Decrypt(b) = [t \in 0 .. Blocks |-> IF t = 0 THEN base ELSE CryptDecrypt(Decrypt(b)[t - 1], t)]
  BY <1>4, Zenon DEF Decrypt
<1>6. Decrypt(b)[0] = base /\ \A t \in Struct : Decrypt(b)[t] = CryptDecrypt(Decrypt(b)[t - 1], t)
  <2> DEFINE e == Decrypt(b)
  <2>1. e = [t \in 0 .. Blocks |-> IF t = 0 THEN base ELSE CryptDecrypt(e[t - 1], t)]
    BY <1>5
  <2> HIDE DEF e, base
  <2>2. 0 \in 0 .. Blocks /\ \A t \in Struct : t \in 0 .. Blocks /\ t # 0
    BY <1>1 DEF Struct
  <2>3. e[0] = base /\ \A t \in Struct : e[t] = CryptDecrypt(e[t - 1], t)
    BY <2>1, <2>2
  <2>4. QED
    BY <2>3 DEF e
<1>7. Decrypt(b) \in [0 .. Blocks -> S]
  <2> DEFINE G == {t \in 0 .. Blocks : Decrypt(b)[t] \in S}
  <2>1. 0 \in G
    BY <1>1, <1>6
  <2>2. ASSUME NEW t \in 1 .. Blocks, t - 1 \in G PROVE t \in G
    BY <1>6, <2>2, DecryptPass DEF Struct
  <2>3. 0 .. Blocks \subseteq G
    <3> HIDE DEF G
    <3>1. QED
      BY <1>1, <2>1, <2>2, PassByPass
  <2>4. \A t \in 0 .. Blocks : Decrypt(b)[t] \in S
    BY <2>3
  <2>5. QED
    BY <1>5, <2>4, Zenon
<1>8. QED
  BY <1>6, <1>7

-------------------------------------------------------------------------------
(* The blocks that the client's loop has passed are ciphered, the others are
   as they were, and the key carries the last ciphered block.                *)
LEMMA EncryptCiphers ==
  ASSUME NEW b \in [Wire -> Value]
  PROVE  Ciphered(Encrypt(b)[Blocks].rb, b)
<1> DEFINE e == Encrypt(b)
           Done(t) == /\ \A i \in 1 .. t : e[t].rb[i] = Aes(Mix(b[i], Before(e[t].rb, i)))
                      /\ \A i \in (t + 1) .. Blocks : e[t].rb[i] = b[i]
                      /\ t < Blocks => e[t].chain = IF t = 0 THEN IV ELSE e[t].rb[t]
           G == {t \in 0 .. Blocks : Done(t)}
<1>1. /\ e \in [0 .. Blocks -> Loop(Wire)] /\ e[0] = [rb |-> b, chain |-> IV]
      /\ \A t \in Struct : e[t] = CryptEncrypt(e[t - 1], t, t = Blocks)
      /\ Blocks \in Nat
  BY EncryptLoop, BlocksAssumption
<1> HIDE DEF e
<1>2. 0 \in G
  BY <1>1
<1>3. ASSUME NEW t \in 1 .. Blocks, t - 1 \in G PROVE t \in G
  <2> DEFINE k == e[t - 1]
             c == Aes(Mix(k.rb[t], k.chain))
             pad == Aes(Mix(Padding, c))
  <2>1. Done(t - 1)
    BY <1>3
  <2>2. k.rb \in [Wire -> Value]
    BY <1>1 DEF Loop
  <2>3. /\ e[t].rb = [k.rb EXCEPT ![t] = c, ![t + 1] = IF t = Blocks THEN pad ELSE @]
        /\ e[t].chain = IF t = Blocks THEN IV ELSE c
    <3>1. e[t] = CryptEncrypt(k, t, t = Blocks)
      BY <1>1 DEF Struct
    <3> HIDE DEF k
    <3>2. QED
      BY <3>1 DEF CryptEncrypt
  <2>4. k.rb[t] = b[t] /\ k.chain = IF t = 1 THEN IV ELSE k.rb[t - 1]
    BY <2>1, <1>1
  <2> HIDE DEF c, pad
  <2>5. /\ e[t].rb[t] = c
        /\ \A i \in 1 .. (t - 1) : e[t].rb[i] = k.rb[i]
        /\ \A i \in (t + 1) .. Blocks : e[t].rb[i] = k.rb[i]
    BY <1>1, <2>2, <2>3 DEF Wire
  <2>6. e[t].rb[t] = Aes(Mix(b[t], Before(e[t].rb, t)))
    BY <2>4, <2>5 DEF c, Before
  <2>7. ASSUME NEW i \in 1 .. (t - 1) PROVE e[t].rb[i] = Aes(Mix(b[i], Before(e[t].rb, i)))
    BY <2>1, <2>5 DEF Before
  <2>8. Done(t)
    <3>1. \A i \in 1 .. t : e[t].rb[i] = Aes(Mix(b[i], Before(e[t].rb, i)))
      <4>1. \A i \in 1 .. t : i = t \/ i \in 1 .. (t - 1)
        OBVIOUS
      <4>2. QED
        BY <2>6, <2>7, <4>1
    <3>2. \A i \in (t + 1) .. Blocks : e[t].rb[i] = b[i]
      <4>1. \A i \in (t + 1) .. Blocks : i \in ((t - 1) + 1) .. Blocks
        BY <1>1
      <4>2. QED
        BY <2>1, <2>5, <4>1
    <3>3. t < Blocks => e[t].chain = IF t = 0 THEN IV ELSE e[t].rb[t]
      BY <1>1, <2>3, <2>5
    <3>4. QED
      BY <3>1, <3>2, <3>3
  <2>9. QED
    BY <2>8
<1>4. Blocks \in G
  <2> HIDE DEF G
  <2>1. 0 .. Blocks \subseteq G
    BY <1>1, <1>2, <1>3, PassByPass
  <2>2. QED
    BY <1>1, <2>1
<1>5. QED
  BY <1>4 DEF Ciphered, Struct, e

(* The blocks that the server's loop has passed are deciphered, the others
   are as they came, and the key carries the last block that came.         *)
LEMMA DecryptDeciphers ==
  ASSUME NEW d \in [Struct -> Value], NEW n \in 0 .. Blocks, NEW j \in Struct
  PROVE  Decrypt(d)[n].rb[j] = IF j <= n THEN Unmix(AesInv(d[j]), Before(d, j)) ELSE d[j]
<1> DEFINE e == Decrypt(d)
           Plain(i) == Unmix(AesInv(d[i]), Before(d, i))
           Done(t) == /\ \A i \in 1 .. t : e[t].rb[i] = Plain(i)
                      /\ \A i \in (t + 1) .. Blocks : e[t].rb[i] = d[i]
                      /\ e[t].chain = IF t = 0 THEN IV ELSE d[t]
           G == {t \in 0 .. Blocks : Done(t)}
<1>1. /\ e \in [0 .. Blocks -> Loop(Struct)] /\ e[0] = [rb |-> d, chain |-> IV]
      /\ \A t \in Struct : e[t] = CryptDecrypt(e[t - 1], t)
      /\ Blocks \in Nat
  BY DecryptLoop, BlocksAssumption
<1> HIDE DEF e
<1>2. 0 \in G
  BY <1>1
<1>3. ASSUME NEW t \in 1 .. Blocks, t - 1 \in G PROVE t \in G
  <2> DEFINE k == e[t - 1]
             p == Unmix(AesInv(k.rb[t]), k.chain)
  <2>1. Done(t - 1)
    BY <1>3
  <2>2. k.rb \in [Struct -> Value]
    BY <1>1 DEF Loop
  <2>3. e[t].rb = [k.rb EXCEPT ![t] = p] /\ e[t].chain = k.rb[t]
    <3>1. e[t] = CryptDecrypt(k, t)
      BY <1>1 DEF Struct
    <3> HIDE DEF k
    <3>2. QED
      BY <3>1 DEF CryptDecrypt
  <2>4. k.rb[t] = d[t] /\ k.chain = Before(d, t)
    BY <2>1, <1>1 DEF Before
  <2> HIDE DEF k, p
  <2>5. /\ e[t].rb[t] = p
        /\ \A i \in 1 .. (t - 1) : e[t].rb[i] = k.rb[i]
        /\ \A i \in (t + 1) .. Blocks : e[t].rb[i] = k.rb[i]
    BY <1>1, <2>2, <2>3 DEF Struct
  <2>6. \A i \in 1 .. t : e[t].rb[i] = Plain(i)
    <3>1. p = Plain(t)
      BY <2>4 DEF p
    <3>2. \A i \in 1 .. (t - 1) : k.rb[i] = Plain(i)
      BY <2>1 DEF k
    <3> HIDE DEF Plain
    <3>3. \A i \in 1 .. t : i = t \/ i \in 1 .. (t - 1)
      OBVIOUS
    <3>4. QED
      BY <2>5, <3>1, <3>2, <3>3
  <2>7. \A i \in (t + 1) .. Blocks : e[t].rb[i] = d[i]
    <3>1. \A i \in (t + 1) .. Blocks : i \in ((t - 1) + 1) .. Blocks
      BY <1>1
    <3>2. QED
      BY <2>1, <2>5, <3>1 DEF k
  <2>8. e[t].chain = IF t = 0 THEN IV ELSE d[t]
    BY <2>3, <2>4
  <2>9. QED
    BY <2>6, <2>7, <2>8
<1>4. Done(n)
  <2> HIDE DEF G
  <2>1. 0 .. Blocks \subseteq G
    BY <1>1, <1>2, <1>3, PassByPass
  <2>2. n \in G
    BY <2>1
  <2>3. QED
    BY <2>2 DEF G
<1>5. CASE j <= n
  <2>1. j \in 1 .. n
    BY <1>1, <1>5 DEF Struct
  <2> HIDE DEF Plain
  <2>2. e[n].rb[j] = Plain(j)
    BY <1>4, <2>1
  <2>3. QED
    BY <1>5, <2>2 DEF e, Plain
<1>6. CASE ~(j <= n)
  <2>1. j \in (n + 1) .. Blocks
    BY <1>1, <1>6 DEF Struct
  <2> HIDE DEF Plain
  <2>2. e[n].rb[j] = d[j]
    BY <1>4, <2>1
  <2>3. QED
    BY <1>6, <2>2 DEF e
<1>7. QED
  BY <1>5, <1>6

(* What was ciphered from p and is deciphered is p. *)
LEMMA RoundTrip ==
  ASSUME NEW d \in [Struct -> Value], NEW p \in [Struct -> Value], Ciphered(d, p),
         NEW n \in 0 .. Blocks, NEW j \in Struct, j <= n
  PROVE  Decrypt(d)[n].rb[j] = p[j]
<1>1. Before(d, j) \in Value
  <2>1. CASE j = 1
    BY <2>1, ValuesAssumption DEF Before, IV, Value
  <2>2. CASE j # 1
    <3>1. j - 1 \in Struct
      BY <2>2, BlocksAssumption DEF Struct
    <3>2. QED
      BY <2>2, <3>1 DEF Before
  <2>3. QED
    BY <2>1, <2>2
<1>2. p[j] \in Value /\ d[j] = Aes(Mix(p[j], Before(d, j)))
  BY DEF Ciphered
<1>3. AesInv(d[j]) = Mix(p[j], Before(d, j))
  BY <1>1, <1>2, Mixing, Permutation
<1>4. Unmix(AesInv(d[j]), Before(d, j)) = p[j]
  BY <1>1, <1>2, <1>3, Mixing
<1>5. QED
  BY <1>4, DecryptDeciphers

-------------------------------------------------------------------------------
Typed ==
  /\ turn \in {"user", "client", "server"}
  /\ mst \in [Struct -> Value]
  /\ rb \in [Wire -> Value]
  /\ cb2 \in [Struct -> Value]
  /\ failed \in BOOLEAN

(* Unless a call has failed, what is under way is the request of this turn. *)
UnderWay == turn = "server" /\ ~failed => Ciphered(rb, mst)

CipherInv == Typed /\ UnderWay /\ CredentialsArrive

LEMMA CipherInitially == Init => CipherInv
<1>1. 0 \in Value
  BY ValuesAssumption DEF Value
<1>2. QED
  BY <1>1 DEF Init, CipherInv, Typed, UnderWay, CredentialsArrive

LEMMA Encrypted ==
  ASSUME CipherInv, EncryptSession
  PROVE  CipherInv'
<1> DEFINE filled == [t \in Wire |-> IF t \in Struct THEN mst[t] ELSE rb[t]]
<1>1. /\ turn' = "server" /\ mst' = mst /\ cb2' = cb2
      /\ mst \in [Struct -> Value] /\ rb \in [Wire -> Value] /\ cb2 \in [Struct -> Value]
      /\ failed \in BOOLEAN
  BY DEF CipherInv, Typed, EncryptSession
<1>2. Struct \subseteq Wire /\ Blocks \in Nat /\ Blocks \in 0 .. Blocks
  BY BlocksAssumption DEF Struct, Wire
<1>3. filled \in [Wire -> Value]
  BY <1>1, <1>2
<1>4. Ciphered(Encrypt(filled)[Blocks].rb, mst)
  <2>1. Ciphered(Encrypt(filled)[Blocks].rb, filled)
    BY <1>3, EncryptCiphers
  <2>2. \A i \in Struct : filled[i] = mst[i]
    BY <1>2
  <2> HIDE DEF filled
  <2>3. QED
    BY <2>1, <2>2 DEF Ciphered
<1>5. \A t \in 0 .. Blocks : Encrypt(filled)[t].rb \in [Wire -> Value]
  <2> HIDE DEF filled
  <2>1. \A t \in 0 .. Blocks : Encrypt(filled)[t] \in Loop(Wire)
    BY <1>3, EncryptLoop
  <2>2. QED
    BY <2>1 DEF Loop
<1>6. /\ rb' \in [Wire -> Value] /\ failed' \in BOOLEAN
      /\ ~failed' => Ciphered(rb', mst)
  <2>1. \A t \in 0 .. (Blocks - 1) : t \in 0 .. Blocks
    BY <1>2
  <2>2. \/ failed' = TRUE /\ rb' = rb
        \/ failed' = TRUE /\ \E t \in 0 .. (Blocks - 1) : rb' = Encrypt(filled)[t].rb
        \/ failed' = failed /\ rb' = Encrypt(filled)[Blocks].rb
    BY Zenon DEF EncryptSession
  <2> HIDE DEF filled
  <2>3. QED
    BY <1>1, <1>2, <1>4, <1>5, <2>1, <2>2
<1>7. QED
  BY <1>1, <1>6 DEF CipherInv, Typed, UnderWay, CredentialsArrive

LEMMA Decrypted ==
  ASSUME CipherInv, DecryptSession
  PROVE  CipherInv'
<1> DEFINE came == [t \in Struct |-> rb[t]]
<1>1. /\ turn = "server" /\ turn' = "user" /\ mst' = mst /\ rb' = rb
      /\ mst \in [Struct -> Value] /\ rb \in [Wire -> Value] /\ cb2 \in [Struct -> Value]
      /\ failed \in BOOLEAN
  BY DEF CipherInv, Typed, DecryptSession
<1>2. /\ Struct \subseteq Wire /\ Blocks \in Nat /\ Blocks \in 0 .. Blocks
      /\ \A t \in 0 .. (Blocks - 1) : t \in 0 .. Blocks
      /\ Blocks - 1 \in 0 .. Blocks
  BY BlocksAssumption DEF Struct, Wire
<1>3. came \in [Struct -> Value]
  BY <1>1, <1>2
<1>4. \A t \in 0 .. Blocks : Decrypt(came)[t].rb \in [Struct -> Value]
  <2> HIDE DEF came
  <2>1. \A t \in 0 .. Blocks : Decrypt(came)[t] \in Loop(Struct)
    BY <1>3, DecryptLoop
  <2>2. QED
    BY <2>1 DEF Loop
<1>5. ~failed => /\ \A t \in 1 .. (Blocks - 1) : Decrypt(came)[Blocks].rb[t] = mst[t]
                 /\ \A t \in 1 .. (Blocks - 1) : Decrypt(came)[Blocks - 1].rb[t] = mst[t]
  <2> SUFFICES ASSUME ~failed, NEW t \in 1 .. (Blocks - 1)
               PROVE  /\ Decrypt(came)[Blocks].rb[t] = mst[t]
                      /\ Decrypt(came)[Blocks - 1].rb[t] = mst[t]
    OBVIOUS
  <2>1. Ciphered(rb, mst)
    BY <1>1 DEF CipherInv, UnderWay
  <2>2. Ciphered(came, mst)
    <3>1. \A i \in Struct : came[i] = rb[i] /\ Before(came, i) = Before(rb, i)
      <4>1. \A i \in Struct : i = 1 \/ i - 1 \in Struct
        BY <1>2 DEF Struct
      <4>2. QED
        BY <4>1 DEF Before
    <3> HIDE DEF came
    <3>2. QED
      BY <2>1, <3>1 DEF Ciphered
  <2>3. t \in Struct /\ t <= Blocks - 1 /\ t <= Blocks
    BY <1>2 DEF Struct
  <2> HIDE DEF came
  <2>4. QED
    BY <1>1, <1>2, <1>3, <2>2, <2>3, RoundTrip
<1>6. /\ cb2' \in [Struct -> Value] /\ failed' \in BOOLEAN
      /\ ~failed' => \A t \in 1 .. (Blocks - 1) : cb2'[t] = mst[t]
  <2>1. \/ failed' = TRUE /\ cb2' = cb2
        \/ failed' = TRUE /\ \E t \in 0 .. (Blocks - 1) : cb2' = Decrypt(came)[t].rb
        \/ failed' = failed /\ cb2' = Decrypt(came)[Blocks].rb
        \/ failed' = failed /\ cb2' = Decrypt(came)[Blocks - 1].rb
    BY Zenon DEF DecryptSession
  <2> HIDE DEF came
  <2>2. QED
    BY <1>1, <1>2, <1>4, <1>5, <2>1
<1>7. QED
  BY <1>1, <1>6 DEF CipherInv, Typed, UnderWay, CredentialsArrive

LEMMA CipherKept ==
  ASSUME CipherInv, [Next]_vars
  PROVE  CipherInv'
<1>1. CASE TypeRequest
  BY <1>1 DEF TypeRequest, CipherInv, Typed, UnderWay, CredentialsArrive
<1>2. CASE EncryptSession
  BY <1>2, Encrypted
<1>3. CASE DecryptSession
  BY <1>3, Decrypted
<1>4. CASE UNCHANGED vars
  BY <1>4 DEF vars, CipherInv, Typed, UnderWay, CredentialsArrive, Ciphered, Before
<1>5. QED
  BY <1>1, <1>2, <1>3, <1>4 DEF Next

(* encryptSession ciphers one block more than decryptSession deciphers, the
   buffers keep what earlier requests left, and any call may fail: still, for
   credentials of any number of blocks and after any number of requests, those
   of a request in which nothing fails reach the server, but for the last
   block.                                                                     *)
THEOREM CredentialsDoArrive == Spec => []CredentialsArrive
<1>1. Spec => []CipherInv
  BY CipherInitially, CipherKept, PTL DEF Spec
<1>2. CipherInv => CredentialsArrive
  BY DEF CipherInv
<1>3. QED
  BY <1>1, <1>2, PTL
===============================================================================
