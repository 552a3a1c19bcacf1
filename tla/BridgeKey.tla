----------------------------- MODULE BridgeKey ------------------------------
(***************************************************************************)
(* The secret that signs bridge tokens, and the tokens (BridgeTokenManager  *)
(* in stack_integration/bridge/server.py).  The secret is one file of the   *)
(* state directory, made by whoever needs it first; controllers and         *)
(* issue-grant are separate processes that share nothing but that file.     *)
(*                                                                          *)
(* Abstractions: a secret is named by who drew it; a file is empty until    *)
(* its writer has written; a token is the secret that signed it, since a    *)
(* signature verifies under that secret only.                               *)
(***************************************************************************)
EXTENDS Integers, FiniteSets

CONSTANT Minter   \* who may be asked for tokens, each in a process of its own

VARIABLES
  key,    \* the file bridge.key: who made it, whose secret it holds
  mint    \* [Minter -> where _secret is, the last token, whether it was alone]

keyVars == <<key, mint>>

NoKey == [by |-> "nobody", secret |-> "nothing"]
NoToken == "none"
Resting == [pc |-> "off", token |-> NoToken, alone |-> FALSE]
Making == {"creating", "opening", "writing", "replacing"}

MintAt(m, pc) == mint[m].pc = pc
Complete == key.secret # "nothing"

KeyInit ==
  /\ key = NoKey
  /\ mint = [m \in Minter |-> Resting]

\* A token is signed.
Signed(m) == [mint[m] EXCEPT !.pc = "issued", !.token = m]

\* _secret(True): a complete file is read, anything else has to be made; from
\* then on nobody who is making one, too, is alone.
Look(m) ==
  /\ mint[m].pc \in {"off", "issued"}
  /\ LET others == {o \in Minter \ {m} : mint[o].pc \in Making}
         mine == [mint[m] EXCEPT !.alone = others = {}]
     IN IF Complete
        THEN mint' = [mint EXCEPT ![m] = [mine EXCEPT !.pc = "issued", !.token = key.secret]]
        ELSE mint' = [o \in Minter |->
               IF o = m THEN [mine EXCEPT !.token = NoToken,
                              !.pc = IF key = NoKey THEN "creating" ELSE "replacing"]
               ELSE IF o \in others THEN [mint[o] EXCEPT !.alone = FALSE]
               ELSE mint[o]]
  /\ UNCHANGED key

\* The second look: by now another process may have made the file.
LookAgain(m) ==
  /\ MintAt(m, "creating")
  /\ mint' = [mint EXCEPT ![m].pc = IF key = NoKey THEN "opening" ELSE "replacing"]
  /\ UNCHANGED key

\* O_CREAT | O_EXCL: FileExistsError leaves the caller without a token.
Open(m) ==
  /\ MintAt(m, "opening")
  /\ IF key = NoKey
     THEN key' = [by |-> m, secret |-> "nothing"] /\ mint' = [mint EXCEPT ![m].pc = "writing"]
     ELSE mint' = [mint EXCEPT ![m] = Resting] /\ UNCHANGED key

\* Into the file that was opened, which may have been replaced since.
Write(m) ==
  /\ MintAt(m, "writing")
  /\ key' = IF key.by = m THEN [key EXCEPT !.secret = m] ELSE key
  /\ mint' = [mint EXCEPT ![m] = Signed(m)]

\* Mutant: an incomplete file is not repaired but written to by its maker.
ReplaceNothing(m) ==
  /\ MintAt(m, "replacing")
  /\ mint' = [mint EXCEPT ![m] = Signed(m)]
  /\ UNCHANGED key

\* A temporary file, then os.replace.
Replace(m) ==
  /\ MintAt(m, "replacing")
  /\ key' = [by |-> "replacement", secret |-> m]
  /\ mint' = [mint EXCEPT ![m] = Signed(m)]

Mint(m) == LookAgain(m) \/ Open(m) \/ Write(m) \/ Replace(m)

\* verify: the signature is made anew with the secret of the file.
Opens(token) == token # NoToken /\ token = key.secret

-----------------------------------------------------------------------------
\* A token that was issued while no other process was making a secret opens a
\* bridge ever after, even where an earlier maker died before it had written.
SoleIssueOpens ==
  \A m \in Minter : mint[m].token # NoToken /\ mint[m].alone => Opens(mint[m].token)
=============================================================================
