---------------------------- MODULE MCFtpSession ----------------------------
(* Two files, and servers that are configured with the defaults, with a      *)
(* PrivilegeSet, without overwriting, and without lowering of privileges.    *)
EXTENDS FtpSession

Default == [PrivilegeEngine |-> TRUE, PrivilegeSet |-> NULL, AllowOverwrite |-> TRUE,
            SetidEngine |-> FALSE, RootRevoke |-> FALSE]

MCConfigs ==
    {Default, [Default EXCEPT !.PrivilegeEngine = FALSE],
     [Default EXCEPT !.AllowOverwrite = FALSE, !.RootRevoke = TRUE,
                     !.PrivilegeSet = <<[sign |-> "-", priv |-> "FILE_CHOWN"],
                                        [sign |-> "+", priv |-> "FILE_DAC_READ"]>>]}
=============================================================================
