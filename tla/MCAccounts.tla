----------------------------- MODULE MCAccounts -----------------------------
(* The components around the connected accounts, one at a time: the         *)
(* connection flow, the wizard's app and codes, the vault, its refresh and  *)
(* its backup, and the operator's Telegram channel.  Vault, stores and      *)
(* channel are modelled apart, so a behaviour is one of any of them, the    *)
(* others resting in their initial states.                                  *)
EXTENDS OAuth, Vault, TokenRefresh, MCBackup, Connecting, Telegram, TLC

VARIABLE part

\* Nothing chooses one of the requests of the browser, nor one of the vault's calls,
\* which have the same names.
Symmetry == Permutations(Callbacks)

\* Where Connecting may begin in several ways, the other parts see one.
AccountsInit ==
  /\ part \in {"oauth", "vault", "refresh", "backup", "connecting", "telegram"}
  /\ ConnectInit
  /\ part # "connecting" =>
       /\ app = 0
       /\ site = CHOOSE s \in Sites : TRUE
  /\ Init /\ VaultInit /\ RefreshInit /\ BackupInit /\ ChannelInit

AccountsNext ==
  /\ UNCHANGED part
  /\ \/ /\ part = "oauth" /\ Next
        /\ UNCHANGED <<vaultVars, refreshVars, backupVars, connectVars, telegramVars>>
     \/ /\ part = "vault" /\ VaultNext
        /\ UNCHANGED <<vars, refreshVars, backupVars, connectVars, telegramVars>>
     \/ /\ part = "refresh" /\ RefreshNext
        /\ UNCHANGED <<vars, vaultVars, backupVars, connectVars, telegramVars>>
     \/ /\ part = "backup" /\ BackupNext
        /\ UNCHANGED <<vars, vaultVars, refreshVars, connectVars, telegramVars>>
     \/ /\ part = "connecting" /\ ConnectNext
        /\ UNCHANGED <<vars, vaultVars, refreshVars, backupVars, telegramVars>>
     \/ /\ part = "telegram" /\ ChannelNext
        /\ UNCHANGED <<vars, vaultVars, refreshVars, backupVars, connectVars>>

AccountsSpec ==
  /\ AccountsInit
  /\ [][AccountsNext]_<<part, vars, vaultVars, refreshVars, backupVars, connectVars, telegramVars>>
=============================================================================
