----------------------------- MODULE MCAccounts -----------------------------
EXTENDS Accounts, TLC

=============================================================================
