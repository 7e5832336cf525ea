------------------------------ MODULE Settings ------------------------------
(***************************************************************************)
(* The integration settings, el:integration: one hash that a save reads as *)
(* a whole, changes in the section of the form and writes as a whole, with *)
(* three secrets that are sealed with the master key on their way to Redis *)
(* and opened on their way back.  E-mail and directory login read it too.  *)
(*                                                                         *)
(* Of a section its secrets are kept, and which mailer is enabled; its     *)
(* other fields are read and written along with them.                      *)
(***************************************************************************)
EXTENDS Naturals, Sequences

CONSTANTS
  Administrators,  \* requests that save settings
  Values,          \* secrets an administrator may enter
  NoValue,         \* the empty string
  MasterKeys       \* values ENCRYPTION_MASTER_KEY is given

ASSUME SettingsAssumption == NoValue \notin Values /\ MasterKeys # {}

(* In the order they are opened in, with the section each is entered in.   *)
Secrets  == <<"smtp", "graph", "ad">>
Places   == DOMAIN Secrets
Sections == {"microsoft", "email", "ad"}
SecretsOf(section) ==
  CASE section = "email" -> {1, 2} [] section = "ad" -> {3} [] OTHER -> {}

Mailers == {"none", "smtp", "graph"}

VARIABLES
  config,    \* the hash el:integration
  master,    \* the master key of the server that runs
  form,      \* the requests
  expected,  \* history: what was stored last of what was entered for a secret,
             \* or was left by a save that had no sound copy
  saved,     \* history: whether a save has ever been stored
  handedOut  \* history: what a mail server or a directory was handed last

settingsVars == <<config, master, form, expected, saved, handedOut>>

-----------------------------------------------------------------------------
(* A secret as it is stored: the text and the keys it is sealed with, the  *)
(* last one outside.  The prefix enc:v1: tells whether there are any.      *)
Secret == [text : Values \cup {NoValue}, seals : Seq(MasterKeys)]
Plain(v) == [text |-> v, seals |-> <<>>]
NoSecret == Plain(NoValue)

(* Mutant: what is sealed is sealed again.                                 *)
SealedAgain(s) ==
  IF s.text = NoValue THEN s ELSE [s EXCEPT !.seals = Append(@, master)]

(* encryptIntegrationSecret                                                *)
Sealed(s) ==
  IF s.text = NoValue \/ s.seals # <<>> THEN s ELSE [s EXCEPT !.seals = <<master>>]

(* decryptIntegrationSecret: an older plain value is taken as it is; one   *)
(* that another key has sealed is an error.                                *)
CanOpen(s) == IF s.seals = <<>> THEN TRUE ELSE s.seals[Len(s.seals)] = master
Open(s) == IF s.seals = <<>> THEN s ELSE [s EXCEPT !.seals = SubSeq(@, 1, Len(@) - 1)]

(* getIntegrationConfig stops at the first secret it cannot open: that one *)
(* is empty then, and those behind it are as they are stored.              *)
OpenedConfig ==
  [n \in Places |->
     IF \A k \in 1..n : CanOpen(config.secret[k]) THEN Open(config.secret[n])
     ELSE IF \A k \in 1..(n - 1) : CanOpen(config.secret[k]) THEN NoSecret
     ELSE config.secret[n]]

AllOpen == \A n \in Places : CanOpen(config.secret[n])

NoConfig == [mailer |-> "none", secret |-> [n \in Places |-> NoSecret]]

(* sound: the copy was read and opened, and nothing was stored since.      *)
IdleForm == [pc |-> "idle", section |-> "microsoft", copy |-> NoConfig, sound |-> FALSE]

(* A hash from before secrets were sealed, or one a server has written.    *)
SettingsInit ==
  /\ master \in MasterKeys
  /\ \E texts \in [Places -> Values \cup {NoValue}], sealed \in BOOLEAN :
       config = [mailer |-> "none",
                 secret |-> [n \in Places |->
                               IF sealed THEN Sealed(Plain(texts[n])) ELSE Plain(texts[n])]]
  /\ form = [a \in Administrators |-> IdleForm]
  /\ expected = [n \in Places |-> config.secret[n].text]
  /\ saved = FALSE /\ handedOut = NoSecret

-----------------------------------------------------------------------------
(* adminSaveIntegrations                                                   *)

(* The error of getIntegrationConfig is not looked at: when Redis does not *)
(* answer, the copy is empty.                                              *)
ReadConfig(a, section) ==
  /\ form[a].pc = "idle"
  /\ \E answered \in BOOLEAN :
       form' = [form EXCEPT ![a] =
         [pc |-> "save", section |-> section, sound |-> answered /\ AllOpen,
          copy |-> IF answered THEN [config EXCEPT !.secret = OpenedConfig] ELSE NoConfig]]
  /\ UNCHANGED <<config, master, expected, saved, handedOut>>

(* Mutant: a field that is left blank empties the secret.                  *)
FilledWith(copy, input) ==
  [n \in Places |-> IF n \in DOMAIN input THEN Plain(input[n]) ELSE copy.secret[n]]

(* What was entered in the section; a blank secret keeps the copy's.       *)
Filled(copy, input) ==
  [n \in Places |->
     IF n \in DOMAIN input /\ input[n] # NoValue THEN Plain(input[n]) ELSE copy.secret[n]]

(* The other sections keep what the copy has, which mailer is enabled      *)
(* included; SMTP goes before Graph when both are ticked.                  *)
SaveConfig(a) ==
  LET section == form[a].section
      copy    == form[a].copy
  IN
  /\ form[a].pc = "save"
  /\ \E input \in [SecretsOf(section) -> Values \cup {NoValue}] :
       LET filled == Filled(copy, input) IN
       /\ \E mailer \in IF section = "email" THEN Mailers ELSE {copy.mailer} :
            config' = [mailer |-> mailer, secret |-> [n \in Places |-> Sealed(filled[n])]]
       /\ expected' = [n \in Places |->
            IF n \in DOMAIN input /\ input[n] # NoValue THEN input[n]
            ELSE IF form[a].sound THEN expected[n] ELSE copy.secret[n].text]
  /\ form' = [b \in Administrators |->
                IF b = a THEN IdleForm ELSE [form[b] EXCEPT !.sound = FALSE]]
  /\ saved' = TRUE
  /\ UNCHANGED <<master, handedOut>>

(* Sealing or HSET fails, or the client is gone.                           *)
SaveFails(a) ==
  /\ form[a].pc = "save"
  /\ form' = [form EXCEPT ![a] = IdleForm]
  /\ UNCHANGED <<config, master, expected, saved, handedOut>>

-----------------------------------------------------------------------------
(* A secret leaves the server, unless one of the three cannot be opened.   *)
HandOut(n) ==
  /\ AllOpen
  /\ handedOut' = OpenedConfig[n]
  /\ UNCHANGED <<config, master, form, expected, saved>>

(* sendEmailContent: Graph goes first.  authenticateAD: the bind password. *)
SendEmail ==
  \/ config.mailer = "graph" /\ HandOut(2)
  \/ config.mailer = "smtp" /\ HandOut(1)
AuthenticateAD == HandOut(3)

(* The server is started again, maybe with another key; requests end.      *)
Restart ==
  /\ master' \in MasterKeys
  /\ form' = [a \in Administrators |-> IdleForm]
  /\ UNCHANGED <<config, expected, saved, handedOut>>

SettingsNext ==
  \/ \E a \in Administrators :
       \/ \E section \in Sections : ReadConfig(a, section)
       \/ SaveConfig(a) \/ SaveFails(a)
  \/ SendEmail \/ AuthenticateAD \/ Restart

SettingsSpec == SettingsInit /\ [][SettingsNext]_settingsVars

-----------------------------------------------------------------------------
(* Properties                                                              *)

(* Once a save was stored every secret in Redis is sealed, those of a hash *)
(* from before included, and sealed once, whatever the save could read and *)
(* open; so one opening yields what was entered, and a mail server or a    *)
(* directory is never handed a text that is still sealed.                  *)
SecretsSealedOnce ==
  /\ \A n \in Places :
       LET s == config.secret[n] IN
       Len(s.seals) <= 1 /\ (saved /\ s # NoSecret => s.seals # <<>>)
  /\ handedOut.seals = <<>>

(* A secret is what was entered for it last.  It is lost only to a save    *)
(* that had no sound copy: Redis had not answered, a key had changed, or   *)
(* another save had come in between.                                       *)
SecretsLostForCause ==
  \A n \in Places : config.secret[n].text = expected[n]
=============================================================================
