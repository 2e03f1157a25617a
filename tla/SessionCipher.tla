----------------------------- MODULE SessionCipher -----------------------------
(***************************************************************************)
(* How credentials travel: the client's encryptSession, the transfer of    *)
(* one block more than the message has, the server's decryptSession of     *)
(* the blocks of the message.  Both loop over them with a key that is      *)
(* imported for the call; any call to CryptoAPI may fail, and neither      *)
(* caller looks at the result.  That a failing call leaves its key behind  *)
(* is left out.                                                            *)
(***************************************************************************)
EXTENDS Integers

CONSTANTS
  Blocks,    \* blocks in a MyStruct, 16 in the code
  Values,    \* block values: 0 .. Values - 1
  Requests   \* bound: how many requests the user makes

ASSUME BlocksAssumption == Blocks \in Nat \ {0, 1}
ASSUME ValuesAssumption == Values \in {3, 5, 7}   \* odd, for Aes to be a permutation

Value  == 0 .. (Values - 1)
Struct == 1 .. Blocks          \* the blocks of a MyStruct
Wire   == 1 .. (Blocks + 1)    \* what is sent: sizeof(MyStruct) + 16

VARIABLES
  turn,     \* whose turn it is: "user", "client", "server"
  asked,    \* requests so far
  mst,      \* the client's MyStruct
  rb,       \* the client's buffer, which keeps its contents between calls
  cb2,      \* the server's local that credentials are decrypted into
  failed    \* history: has a CryptoAPI call failed in this request?

vars == <<turn, asked, mst, rb, cb2, failed>>

(* CBC with a toy block cipher: a permutation of the values, and addition for
   the exclusive or.  A key carries the chain from call to call, a final block
   is followed by a block of padding and resets it.                          *)
Aes(x)    == (2 * x + 1) % Values
AesInv(y) == CHOOSE x \in Value : Aes(x) = y
Mix(x, y)   == (x + y) % Values
Unmix(x, y) == (x - y) % Values
IV      == 0
Padding == Values - 1

CryptEncrypt(k, t, final) ==
  LET c == Aes(Mix(k.rb[t], k.chain)) IN
  [rb    |-> [k.rb EXCEPT ![t] = c,
                          ![t + 1] = IF final THEN Aes(Mix(Padding, c)) ELSE @],
   chain |-> IF final THEN IV ELSE c]

CryptDecrypt(k, t) ==
  [rb |-> [k.rb EXCEPT ![t] = Unmix(AesInv(@), k.chain)], chain |-> k.rb[t]]

\* Mutant: every call is a final one.
EncryptAllFinal(b) ==
  LET after[t \in 0 .. Blocks] ==
        IF t = 0 THEN [rb |-> b, chain |-> IV] ELSE CryptEncrypt(after[t - 1], t, TRUE)
  IN  after

(* The key and the buffer after each call of the loops over buffer b. *)
Encrypt(b) ==
  LET after[t \in 0 .. Blocks] ==
        IF t = 0 THEN [rb |-> b, chain |-> IV] ELSE CryptEncrypt(after[t - 1], t, t = Blocks)
  IN  after

Decrypt(b) ==
  LET after[t \in 0 .. Blocks] ==
        IF t = 0 THEN [rb |-> b, chain |-> IV] ELSE CryptDecrypt(after[t - 1], t)
  IN  after

Init ==
  /\ turn = "user"
  /\ asked = 0
  /\ mst = [t \in Struct |-> 0]
  /\ rb = [t \in Wire |-> 0]
  /\ cb2 = [t \in Struct |-> 0]
  /\ failed = FALSE

TypeRequest ==
  /\ turn = "user"
  /\ asked < Requests
  /\ asked' = asked + 1
  /\ mst' \in [Struct -> Value]
  /\ failed' = FALSE
  /\ turn' = "client"
  /\ UNCHANGED <<rb, cb2>>

(* encryptSession.  If the key cannot be imported the buffer still holds what
   the request before left there, and that is sent; if a later call fails the
   rest is sent as it is.                                                    *)
EncryptSession ==
  /\ turn = "client"
  /\ LET filled == [t \in Wire |-> IF t \in Struct THEN mst[t] ELSE rb[t]] IN
     \/ failed' = TRUE /\ UNCHANGED rb
     \/ failed' = TRUE /\ \E t \in 0 .. (Blocks - 1) : rb' = Encrypt(filled)[t].rb
     \/ UNCHANGED failed /\ rb' = Encrypt(filled)[Blocks].rb
  /\ turn' = "server"
  /\ UNCHANGED <<asked, mst, cb2>>

(* decryptSession of the first Blocks blocks.  Its last call is a final one,
   but the padding is in the block after: the call fails unless the message
   happens to end like padding, and then the last block is decrypted or not,
   as the provider pleases.  If the key cannot be imported, cb2 still holds
   the credentials of an earlier request.                                    *)
DecryptSession ==
  /\ turn = "server"
  /\ LET after == Decrypt([t \in Struct |-> rb[t]])
         last  == after[Blocks].rb
     IN
     \/ failed' = TRUE /\ UNCHANGED cb2
     \/ failed' = TRUE /\ \E t \in 0 .. (Blocks - 1) : cb2' = after[t].rb
     \/ UNCHANGED failed /\ cb2' = last
     \/ UNCHANGED failed /\ last[Blocks] # Padding /\ cb2' = after[Blocks - 1].rb
  /\ turn' = "user"
  /\ UNCHANGED <<asked, mst, rb>>

Next == TypeRequest \/ EncryptSession \/ DecryptSession

Spec == Init /\ [][Next]_vars

-------------------------------------------------------------------------------
(* If no call failed in this request, whatever happened in those before, all
   blocks but the last arrive as the user typed them, although client and
   server do not process the same number of blocks: tryLogin and reg see the
   name and all but the end of the password field.                           *)
CredentialsArrive ==
  turn = "user" /\ asked > 0 /\ ~failed =>
    \A t \in 1 .. (Blocks - 1) : cb2[t] = mst[t]
===============================================================================
