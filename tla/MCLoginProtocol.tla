---------------------------- MODULE MCLoginProtocol ----------------------------
(***************************************************************************)
(* Small instances of LoginProtocol: what the PAM modules say.             *)
(***************************************************************************)
EXTENDS LoginProtocol

Code == [style |-> "ECHO_OFF", text |-> "Verification code: "]
Password == [style |-> "ECHO_OFF", text |-> "Password: "]
Username == [style |-> "ECHO_ON", text |-> "login:"]
OldPassword == [style |-> "ECHO_OFF", text |-> "(current) UNIX password: "]
NewPassword == [style |-> "ECHO_OFF", text |-> "New password: "]
RepeatPassword == [style |-> "ECHO_OFF", text |-> "Retype new password: "]
Changing == [style |-> "TEXT_INFO", text |-> "Changing password for alice"]
Locked == [style |-> "ERROR_MSG", text |-> "Account locked"]

MCTexts == PredictedTexts \cup
             {Code.text, Changing.text, Locked.text}

MCWords == [t \in MCTexts |->
  CASE t = Password.text       -> {"password"}
    [] t = OldPassword.text    -> {"password", "old"}
    [] t = NewPassword.text    -> {"password", "new"}
    [] t = RepeatPassword.text -> {"password", "again", "new"}
    [] t = Changing.text       -> {"password", "changing"}
    [] OTHER                   -> {}]

\* A password, then perhaps a code: pam_unix with pam_google_authenticator.
TwoFactor == {Password, Code}

\* The same with a module that complains before it refuses or accepts.
TwoFactorWithErrors == {Password, Code, Locked}

\* An expired password: pam_acct_mgmt has pam_unix change it.
ExpiredPassword == {Password, Changing, OldPassword, NewPassword, RepeatPassword}

\* The same, with a module that asks for the user's name as well.
PasswordChange == ExpiredPassword \cup {Username}
=============================================================================
