CONSTANTS
  NULL = NULL
  Now = 10
  MaxAsn = 3
  MaxReplacements = 1
  Settings = {{}, {"HASHALG_HAS_PARAMS", "OBJ_NOT_DER"},
              {"HASHALG_HAS_PARAMS", "OBJ_NOT_DER", "MFT_FILE_NOT_FOUND",
               "MFT_FILE_HASH_NOT_MATCH", "MFT_STALE", "CRL_STALE"}}
  Workspaces = {"rsync", "rrdp"}
  Formats = {"global-url", "local-path"}
  Points <- MCPoints
  Configurations <- MCConfigurations
  TalKey <- MCTalKey
  NewVersions <- MCNewVersions
SPECIFICATION PublicationPointSpec
INVARIANTS
  VrpsAuthorized
  VerdictsIndependent
  ConflictsReported
  ManifestGoverns
PROPERTY CrlKept
CHECK_DEADLOCK FALSE
