CONSTANTS
  Emits = {e1}
  Subs = {s1, s2}
  Boot = Boot
  Nobody = Nobody
SPECIFICATION TransportSpec
PROPERTY NoSendAfterDeadline
