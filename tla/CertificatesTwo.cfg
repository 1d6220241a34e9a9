CONSTANTS
  Hostnames = {h, g}
  TlsHost = h
  Containers = {k, l}
  MaxBoxes = 2
  MaxCerts = 1
  MaxFaults = 1
  MaxIssues = 2
  Requests = {t1}
  None = None
SPECIFICATION CertificatesSpec
SYMMETRY MCSymmetry
CHECK_DEADLOCK FALSE
INVARIANTS
  CertificatesTypeOK
  ServesWhatIsStored
  DisabledIsGone
