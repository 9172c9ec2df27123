CONSTANTS
  home = home
  team = team
  homeSlug = homeSlug
  teamSlug = teamSlug
  Org = {home, team}
  Personal = {home}
  Slug = {homeSlug, teamSlug, spareSlug}
  Malformed = Malformed
  Held = {"owner", "member"}
  None = None
  FirstSlugs <- MCFirstSlugs
  Configs <- MCConfigs
  Sections = {"general"}
  Filters = {"draft", "published"}
  MaxChanges = 1
  MaxBeside = 1
  MaxMade = 1
  Tabs <- MCTabs

SPECIFICATION MixedSpec

INVARIANTS
  MixedTypeOK
  ShellActsForItsOrg
  LinksLead
  OwnChangesShow

PROPERTY Settles
